------------------------- MODULE IncidentLifecycle -------------------------
(***************************************************************************)
(* One incident from dispatch to sealed log: the calls that open it, stamp *)
(* benchmarks on it, persist and show briefs, drain its log into the       *)
(* records system and close it.  Calls run concurrently (several requests, *)
(* several instances) and interleave at every await; each step below is    *)
(* what one call does between two awaits.  A call writes one log entry,    *)
(* which the model names by the call.  Locals it no longer needs are reset. *)
(***************************************************************************)
EXTENDS IncidentLog, FiniteSets

CONSTANTS Opener,       \* the call that opens the incident
          Markers,      \* calls of record_benchmark
          Emitters,     \* briefs to be persisted and streamed
          Closers,      \* calls of close
          Flushers,     \* recovery flushes the recorder agent is woken for
          NoIncident,   \* there is no incident document
          Contention,   \* the store aborts a transaction others contend for
          MaxAttempts,  \* MAX_APPEND_ATTEMPTS
          MaxFailures,  \* bound on calls that raise
          MaxOutages    \* bound on outages of the records system

Savers == {Opener} \cup Markers \cup Closers
Writers == Savers \cup Emitters
Calls == Writers \cup Flushers

ASSUME IncidentAssumption ==
  /\ Lines = Writers
  /\ Opener \notin Markers \cup Emitters \cup Closers \cup Flushers
  /\ Markers \cap (Emitters \cup Closers \cup Flushers) = {}
  /\ Emitters \cap (Closers \cup Flushers) = {}
  /\ Closers \cap Flushers = {}
  /\ Contention \in BOOLEAN
  /\ MaxAttempts \in Nat \ {0}
  /\ {MaxFailures, MaxOutages} \subseteq Nat

VARIABLES
  grant,      \* the incident grant
  incident,   \* the incident document
  rms,        \* what the records system holds, by idempotency key
  rmsUp,      \* whether it is reachable
  pc,         \* the next step of each call
  raised,     \* calls that ended with an exception, at their step
  copy,       \* the incident a call has read or built
  sequence,   \* the sequence a call is about to claim
  attempt,    \* lost appends of a call
  pending,    \* the entries a flush has listed and not yet drained
  shown,      \* briefs put on the stream
  broken,     \* calls hit by an exception of what they call, or by the process's end
  outages     \* outages so far

vars == <<header, docs, grant, incident, rms, rmsUp, pc, raised, copy, sequence,
          attempt, pending, shown, broken, outages>>

world == <<grant, incident, rms, rmsUp, shown, broken, outages>>
locals == <<copy, sequence, attempt, pending>>

-----------------------------------------------------------------------------
Incident == [status: {"OPEN", "CLOSED"}, marks: SUBSET Savers]

FirstStep(a) == IF a = Opener THEN "mint"
                ELSE IF a \in Markers \cup Closers THEN "load"
                ELSE IF a \in Emitters THEN "read"
                ELSE "list"

\* Mutant: the log is sealed before authority is withdrawn.
SealWithoutRevoking(a) == IF a \in Closers THEN "list"
                          ELSE IF a \in Emitters THEN "show" ELSE "done"

AfterAppend(a) == IF a \in Closers THEN "revoke"
                  ELSE IF a \in Emitters THEN "show" ELSE "done"

AfterDrain(a) == IF a \in Closers THEN "draft" ELSE "done"

Running(a, step) == pc[a] = step /\ a \notin raised

Goto(a, step) ==
  /\ pc' = [pc EXCEPT ![a] = step]
  /\ UNCHANGED raised

RaiseIn(a) ==
  /\ raised' = raised \cup {a}
  /\ UNCHANGED pc

Init ==
  /\ LogInit
  /\ grant = "none"
  /\ incident = NoIncident
  /\ rms = [s \in {} |-> 0]
  /\ rmsUp = TRUE
  /\ pc = [a \in Calls |-> FirstStep(a)]
  /\ raised = {}
  /\ copy = [a \in Savers |-> NoIncident]
  /\ sequence = [a \in Writers |-> 0]
  /\ attempt = [a \in Writers |-> 0]
  /\ pending = [a \in Calls |-> {}]
  /\ shown = {}
  /\ broken = {}
  /\ outages = 0

-----------------------------------------------------------------------------
(***************************************************************************)
(* Opening: authority first, then the incident, then its first benchmark.  *)
(***************************************************************************)
Mint ==
  /\ Running(Opener, "mint")
  /\ grant' = "live"
  /\ Goto(Opener, "create")
  /\ UNCHANGED <<LogVars, incident, rms, rmsUp, shown, broken, outages, locals>>

Create ==
  /\ Running(Opener, "create")
  /\ incident' = [status |-> "OPEN", marks |-> {}]
  /\ copy' = [copy EXCEPT ![Opener] = incident']
  /\ Goto(Opener, "save")
  /\ UNCHANGED <<LogVars, grant, rms, rmsUp, shown, broken, outages,
                 sequence, attempt, pending>>

(***************************************************************************)
(* record_benchmark and close both read the incident document, and save    *)
(* what they make of it without asking whether it has changed since.       *)
(***************************************************************************)
Load(a) ==
  /\ a \in Markers \cup Closers
  /\ Running(a, "load")
  /\ incident # NoIncident
  /\ copy' = [copy EXCEPT ![a] = incident]
  /\ Goto(a, IF a \in Closers THEN "close" ELSE "save")
  /\ UNCHANGED <<LogVars, world, sequence, attempt, pending>>

SaveClosed(c) ==
  /\ c \in Closers
  /\ Running(c, "close")
  /\ copy' = [copy EXCEPT ![c].status = "CLOSED"]
  /\ incident' = copy'[c]
  /\ Goto(c, "save")
  /\ UNCHANGED <<LogVars, grant, rms, rmsUp, shown, broken, outages,
                 sequence, attempt, pending>>

SaveBenchmark(a) ==
  /\ a \in Savers
  /\ Running(a, "save")
  /\ incident' = [copy[a] EXCEPT !.marks = @ \cup {a}]
  /\ copy' = [copy EXCEPT ![a] = NoIncident]
  /\ Goto(a, "read")
  /\ UNCHANGED <<LogVars, grant, rms, rmsUp, shown, broken, outages,
                 sequence, attempt, pending>>

(***************************************************************************)
(* The recorder's _commit: read the next sequence, build the entry for it, *)
(* append.  A lost race is retried a bounded number of times; a sealed log *)
(* ends the call.                                                          *)
(***************************************************************************)
ReadSequence(a) ==
  /\ a \in Writers
  /\ Running(a, "read")
  /\ incident # NoIncident
  /\ sequence' = [sequence EXCEPT ![a] = header.next]
  /\ Goto(a, "append")
  /\ UNCHANGED <<LogVars, world, copy, attempt, pending>>

CommitEntry(a) ==
  /\ a \in Writers
  /\ Running(a, "append")
  /\ AppendEntry(a, sequence[a])
  /\ sequence' = [sequence EXCEPT ![a] = 0]
  /\ attempt' = [attempt EXCEPT ![a] = 0]
  /\ Goto(a, AfterAppend(a))
  /\ UNCHANGED <<world, copy, pending>>

Contended(a) == Contention /\ \E b \in Writers \ {a} : Running(b, "append")

\* Mutant: an entry that lost its race counts as written.
TakeAsWritten(a) == Goto(a, AfterAppend(a))

\* Mutant: a lost race ends the call.
GiveUpAtOnce(a) == RaiseIn(a)

AfterLostRace(a) ==
  IF attempt[a] + 1 < MaxAttempts THEN Goto(a, "read") ELSE RaiseIn(a)

LoseRace(a) ==
  /\ a \in Writers
  /\ Running(a, "append")
  /\ ~Sealed
  /\ ~InSequence(sequence[a]) \/ Contended(a)
  /\ attempt' = [attempt EXCEPT ![a] = @ + 1]
  /\ AfterLostRace(a)
  /\ UNCHANGED <<LogVars, world, copy, sequence, pending>>

RefuseSealed(a) ==
  /\ a \in Writers
  /\ Running(a, "append")
  /\ Sealed
  /\ RaiseIn(a)
  /\ UNCHANGED <<LogVars, world, locals>>

\* Only the emission that came back from the log reaches a stream.
Show(e) ==
  /\ e \in Emitters
  /\ Running(e, "show")
  /\ shown' = shown \cup {e}
  /\ Goto(e, "done")
  /\ UNCHANGED <<LogVars, grant, incident, rms, rmsUp, broken, outages, locals>>

-----------------------------------------------------------------------------
(***************************************************************************)
(* flush_to_rms, by a close or by the woken recorder agent: list what is   *)
(* not yet written, then write it out entry by entry until the records     *)
(* system is found unreachable.                                            *)
(***************************************************************************)
ListUnflushed(a) ==
  /\ a \in Closers \cup Flushers
  /\ Running(a, "list")
  /\ incident # NoIncident
  /\ pending' = [pending EXCEPT ![a] = Unflushed]
  /\ Goto(a, IF Unflushed = {} THEN AfterDrain(a) ELSE "execute")
  /\ UNCHANGED <<LogVars, world, copy, sequence, attempt>>

\* Mutant: the entries are taken in no particular order.
NextUnordered(a, s) == s \in pending[a]

NextPending(a, s) == s \in pending[a] /\ \A t \in pending[a] : s <= t

\* The target answers a key it has seen with the receipt it gave before.
Execute(a, s) ==
  /\ Running(a, "execute")
  /\ NextPending(a, s)
  /\ rmsUp
  /\ rms' = [k \in DOMAIN rms \cup {s} |-> IF k \in DOMAIN rms THEN rms[k] ELSE docs[s].line]
  /\ Goto(a, "mark")
  /\ UNCHANGED <<LogVars, grant, incident, rmsUp, shown, broken, outages, locals>>

DeferFlush(a) ==
  /\ Running(a, "execute")
  /\ ~rmsUp
  /\ pending' = [pending EXCEPT ![a] = {}]
  /\ Goto(a, AfterDrain(a))
  /\ UNCHANGED <<LogVars, world, copy, sequence, attempt>>

Mark(a, s) ==
  /\ Running(a, "mark")
  /\ NextPending(a, s)
  /\ MarkWrittenToRms(s)
  /\ pending' = [pending EXCEPT ![a] = @ \ {s}]
  /\ Goto(a, IF pending[a] = {s} THEN AfterDrain(a) ELSE "execute")
  /\ UNCHANGED <<world, copy, sequence, attempt>>

-----------------------------------------------------------------------------
(***************************************************************************)
(* The rest of close: the grant is revoked before the flush, the draft     *)
(* is made after it, and the seal comes last.                              *)
(***************************************************************************)
Revoke(c) ==
  /\ c \in Closers
  /\ Running(c, "revoke")
  /\ grant' = "revoked"
  /\ Goto(c, "list")
  /\ UNCHANGED <<LogVars, incident, rms, rmsUp, shown, broken, outages, locals>>

Draft(c) ==
  /\ c \in Closers
  /\ Running(c, "draft")
  /\ Goto(c, "seal")
  /\ UNCHANGED <<LogVars, world, locals>>

Seal(c) ==
  /\ c \in Closers
  /\ Running(c, "seal")
  /\ SealLog
  /\ Goto(c, "done")
  /\ UNCHANGED <<world, locals>>

-----------------------------------------------------------------------------
\* A call of the store, the audit sink or the synthesis raises, or the process
\* dies: the rest of the call does not happen.
Raise(a) ==
  /\ Cardinality(broken) < MaxFailures
  /\ a \notin raised
  /\ pc[a] # "done"
  /\ broken' = broken \cup {a}
  /\ RaiseIn(a)
  /\ UNCHANGED <<LogVars, grant, incident, rms, rmsUp, shown, outages, locals>>

RmsFails ==
  /\ rmsUp
  /\ outages < MaxOutages
  /\ rmsUp' = FALSE
  /\ outages' = outages + 1
  /\ UNCHANGED <<LogVars, grant, incident, rms, pc, raised, shown, broken, locals>>

RmsRecovers ==
  /\ ~rmsUp
  /\ rmsUp' = TRUE
  /\ UNCHANGED <<LogVars, grant, incident, rms, pc, raised, shown, broken, outages, locals>>

Step(a) ==
  \/ a = Opener /\ (Mint \/ Create)
  \/ Load(a) \/ SaveClosed(a) \/ SaveBenchmark(a)
  \/ ReadSequence(a) \/ CommitEntry(a) \/ LoseRace(a) \/ RefuseSealed(a) \/ Show(a)
  \/ ListUnflushed(a) \/ DeferFlush(a)
  \/ \E s \in pending[a] : Execute(a, s) \/ Mark(a, s)
  \/ Revoke(a) \/ Draft(a) \/ Seal(a)

Next ==
  \/ \E a \in Calls : Step(a) \/ Raise(a)
  \/ RmsFails \/ RmsRecovers

Spec == Init /\ [][Next]_vars

\* A call that has begun runs on: its coroutine is resumed when its await is
\* answered.  Nothing in the code makes a call begin.
Resume(a) == pc[a] # FirstStep(a) /\ Step(a)

LiveSpec ==
  /\ Spec
  /\ \A a \in Calls : WF_vars(Resume(a))
  /\ WF_vars(RmsRecovers)

-----------------------------------------------------------------------------
Steps == {"mint", "create", "load", "close", "save", "read", "append", "show",
          "revoke", "list", "execute", "mark", "draft", "seal", "done"}

\* Every variable stays within its type; the log's own state included.
TypeOK ==
  /\ header \in Header
  /\ docs \in [DOMAIN docs -> Entry] /\ DOMAIN docs \subseteq Nat
  /\ grant \in {"none", "live", "revoked"}
  /\ incident \in Incident \cup {NoIncident}
  /\ rms \in [DOMAIN rms -> Lines] /\ DOMAIN rms \subseteq Nat
  /\ rmsUp \in BOOLEAN
  /\ pc \in [Calls -> Steps]
  /\ raised \subseteq Calls
  /\ copy \in [Savers -> Incident \cup {NoIncident}]
  /\ sequence \in [Writers -> Nat]
  /\ attempt \in [Writers -> 0..MaxAttempts]
  /\ pending \in [Calls -> SUBSET DOMAIN docs]
  /\ shown \subseteq Emitters
  /\ broken \subseteq Calls
  /\ outages \in 0..MaxOutages

BeforeAppend == {"mint", "create", "load", "close", "save", "read", "append"}

\* A call that got past its append has its entry in the log, and no other has:
\* a retried append never writes twice and a lost one is never taken for
\* written, so that every brief on a stream is in the record (_commit and
\* "persist before transmit").
AcknowledgedIsRecorded ==
  /\ \A a \in Writers : pc[a] \notin BeforeAppend <=> a \in Recorded
  /\ \A s, t \in DOMAIN docs : docs[s].line = docs[t].line => s = t
  /\ shown \subseteq Recorded

Saving == {"load", "close"}

\* A close that is over and had saved the incident as CLOSED, whether it was
\* refused by a log another close had sealed or answered, leaves the grant
\* revoked and the log sealed.  Two things excuse one that does not, and close()
\* has no other way to stop short: something it called raised, or its closing
\* entry lost every race - revoking waits for the entry, sealing for all of it.
CloseIsAccounted ==
  \A c \in Closers :
    pc[c] \notin Saving /\ (c \in raised \/ pc[c] = "done") =>
      \/ header.sealed /\ grant = "revoked"
      \/ c \in broken \/ attempt[c] = MaxAttempts

\* The records system holds the log's own entries, from the first on and with
\* no hole, and everything marked as written among them - with several flushes
\* racing and some dying between the write and the mark (flush_to_rms).
RmsFaithful ==
  /\ DOMAIN rms \subseteq DOMAIN docs
  /\ \A s \in DOMAIN rms : rms[s] = docs[s].line
  /\ \A s \in DOMAIN rms, t \in DOMAIN docs : t <= s => t \in DOMAIN rms
  /\ \A s \in DOMAIN docs : docs[s].written => s \in DOMAIN rms

\* A close that got as far as saving the incident ends: with the grant revoked
\* and the log sealed although the records system fails and others append, or
\* because something raised in it or its closing entry lost every race.
CloseCompletes ==
  \A c \in Closers :
    pc[c] = "save" ~> \/ header.sealed /\ grant = "revoked"
                      \/ c \in broken \/ attempt[c] = MaxAttempts

\* "An incident ... is closed by an explicit call that revokes the grant and
\* seals the log" (domain/incidents.py): a sealed incident is CLOSED.
SealedMeansClosed == header.sealed => incident.status = "CLOSED"
=============================================================================
