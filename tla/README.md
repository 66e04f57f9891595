# TERSAGE in TLA+

Models, model checks and proofs for the backend of TERSAGE
(`src/backend/src/firstdue`): the agents that survey a district's buildings
while nothing burns (the slow loop), the agents that serve one incident (the
incident loop), and the event delivery, stores and policies that both run on.
Paths below are relative to `src/backend/src/firstdue` unless they begin with
`src/`.

* [1. The system](#1-the-system) – the inventory
* [2. The modules](#2-the-modules) – what models what
* [3. The runs](#3-the-runs) – what TLC checks, bounds and fairness
* [4. The proofs](#4-the-proofs) – what TLAPS proves and along which argument
* [5. Where the code and its documents part](#5-where-the-code-and-its-documents-part)
* [6. Not modelled](#6-not-modelled)
* [7. The plan](#7-the-plan)

To repeat the work: `tlc -config <run>.cfg <module>` for a run of section 3,
`tlapm <module>.tla` for the proofs of section 4.

## 1. The system

Several instances of the backend run side by side (Cloud Run), each an asyncio
process in which any number of calls interleave at every `await`. They share
Firestore and Pub/Sub; everything else is memory of one process and gone with
it. Components talk through topics that carry identifiers only (ADR 0002), and
through documents that several of them read, change and write back.

| Component | State | Operations | What is hard, and what makes it correct |
|---|---|---|---|
| Event delivery (`eventing/`, `adapters/pubsub`, `adapters/memory/bus.py`, `domain/idempotency.py`, `reliability/`, push route) | the broker's messages, idempotency records, a breaker per process, dead letters | publish, deliver by push or pull, claim, attempt and retry, complete or abandon, acknowledge | at-least-once delivery to several instances, claims that expire, crash between effect and commit: a handler runs once as long as its claim lasts, nothing is acknowledged without a trace, everything settles |
| Incident lifecycle and log (`incident/controller.py`, `incident/recorder.py`, `domain/logentries.py`, log repositories) | the incident document, its grant, the log (header and entries), the records system | open, benchmark, append a brief, flush, close | racing writers of one sequence, close against everything else, outages of the records system: gapless append-only log, persist before transmit, authority withdrawn before the seal |
| Profile materialization (`services/materialization.py`, `services/surveys.py`, the watchers, `agents/structure_watch.py`) | facts, conflicts, the versioned profile, the lease lock | record facts, derive conflicts, rank, record a survey | read, work, save under a version check, with and without the lock, with lost saves and retries: no write undone, nothing cited that is not stored, nothing left underived |
| Entry packages and approvals (`incident/packages.py`, `readiness.py`, `autonomy.py`, `resources.py`) | packages in the incident log, approvals, autonomy state and timers in memory | compose on request or unprompted, sign a half, send | two signatures on one document read and rewritten whole; send once, and only when both halves are signed |
| Action flow (`agents/actions.py`, `domain/work.py`, write targets, the calendar's and the mails' clients in `adapters/google/office.py` and `adapters/resend/mail.py`) | referrals, approvals, write actions, receipts, the idempotency records of calendar and mails | stage a referral, approve and file it, mail it, bring the case number back | one step of several failing, repeated approvals, claims whose holder died: one case per conflict, filed by a human, on the record before it is mailed, one event and one mail as long as no claim expires |
| Memory bank and threads (`services/memory_bank.py`, `domain/memory.py`) | open questions by derived id | open, recall, rule out, resolve, abandon | concurrent passes write a question back whole: a closed question stays closed, candidates are not forgotten |
| Fleet runner (`agents/fleet.py`, `domain/runs.py`, `reliability/budget.py`, runtimes) | run records with checkpoints | start, invoke under grant and deadline, finish | an invocation that raises or outlives its deadline: every run reaches a terminal state and keeps its checkpoints |
| Grants and gateway (`services/grants.py`, `gateway/`) | standing and incident grants, audit rows | mint, revoke, decide one access | expiry and revocation between decision and use: no access without a live grant for that incident, address and agency |
| Incident session and interceptor (`incident/session.py`, `interceptor.py`, `focus.py`, `handoff.py`, `intake.py`, `reconciler.py`) | the current focus and brief versions (in the log), streams, timers | intake, wake agents, compose briefs, stream | agents answering out of order, a lost instance: only what is in the log reaches a screen |
| Registry and routing (`registry/`) | versioned descriptors | publish, approve, resolve, route | a published version never changes |
| Source framework and backfill (`sources/`) | per-source caches, run checkpoints | poll a district page by page, checkpoint, resume | runs that die, are interrupted and continue one another, sources that fail, join or leave the list: no page skipped unsaid, none pulled twice as long as the stored position can be found |
| Extraction (`extraction/`, `security/armor.py`) | none | screen, extract, coerce | text; the outcome is a set of facts with provenance |
| Reasoning graphs (`agents/graphs/`, `agents/hazard_watcher.py`, `agents/records_watcher.py`; for an incident, the head's briefing and the recorder's report) | the graph state of one pass, threads in the memory bank, the briefing in the incident's log | read a source, screen, plan, cross-check, chase, sweep, park; recall, collide, select; examine, draft | ceilings that bite at any node, sources that refuse, answers out of order, a bank others write to: a pass that stopped early says so and asks, one that closed has read everything, nothing is bound to two buildings, a briefing or a report comes out whatever happens |
| Fusion, path finding (`incident/fusion.py`, `entrypath.py`, `pathfinding.py`) | none of their own | arithmetic over geometry, search over a priced graph | the path returned is a cheapest one |
| Stores, API, wiring, observability, console, infrastructure | adapters, routes, settings | | the atomicity the other components rest on |

How they interact: a watcher's pass saves facts and conflicts and publishes
`profile.materialized` and `conflict.detected`; event delivery hands these to
structure-watch and the referral clerk, which rank and draft; a dispatch opens
an incident, which mints a grant and reads one profile snapshot; the session
wakes the incident agents, every emission of which goes through the recorder
into the log before it is streamed; close revokes the grant, drains the log into
the records system, drafts the report and seals.

`PROJECT.json` lists every component with its sources, and every hazard at its
line with the properties that would catch it.

## 2. The modules

| Module | Models | Extends |
|---|---|---|
| `CircuitBreaker` | `reliability/breaker.py` as operators on one breaker | |
| `IdempotencyClaims` | the idempotency record and its claim | |
| `EventDelivery` | delivery of events to one subscriber, by any number of processes | the two above |
| `AppendOnlyRecord` | what the log promises: lines are added at the end until it is closed | |
| `IncidentLog` | the log repository's transactions; `KeepsContract` maps it to `AppendOnlyRecord` | |
| `IncidentLifecycle` | the calls that open, mark, brief, flush and close one incident | `IncidentLog` |
| `LeaseLock` | the lock repository's transactions | |
| `ProfilePasses` | the passes and surveys at one address | `LeaseLock` |
| `EntryPackages` | composing, signing and sending the entry packages of one incident | |
| `SurveyActions` | dispatch, referral, approval and survey of one structure in the queue, with the clients it books and mails through | `IdempotencyClaims` |
| `MemoryBank` | the life of one open question | |
| `PathFinding` | the A* search over a priced graph | |
| `EntryPath` | one building's graph, its prices, the way in and the second way out | `PathFinding` |
| `Backfill` | polling a district's sources, with checkpoints and resumed runs | |
| `GraphDriver` | the loop under the reasoning graphs: routing, ceilings, parking | |
| `HazardCrossCheck` | the hazard watcher's nodes, router and questions | `GraphDriver` |
| `RecordsRetrieval` | the records watcher's nodes, router and questions | `GraphDriver` |
| `FocusComposition` | the head's nodes and router, and what a briefing points each agent at | `GraphDriver` |
| `ReportSynthesis` | the recorder's nodes and router, with what others write meanwhile | `GraphDriver` |
| `WatcherGraphs` | the passes of any of the four agents, all on one driver | composes the four above |
| `MC…` | constants for TLC | its component |
| `QuestionProofs` | lemmas and theorems about the graphs and the bank their questions go to | `WatcherGraphs`, `MemoryBank` |
| `…Proofs` | lemmas and theorems | its component |

In all of them one action is what the code does between two awaits, on behalf of
one task, call or pass, and every local variable an await may make stale is in
the state (`PathFinding` and `EntryPath`, which await nothing, take one turn of a
loop for an action). An operator preceded by a comment that begins with "Mutant"
is a plausible bug kept beside the definition it would replace; no specification
uses it, and each property of section 3 is violated by one of them.

### Event delivery

A *task* is one delivery in progress in a process. `Receive…` are `deliver()`
up to its first await – the schema check, the breaker, reading the clock –
`Claim` and `Dedupe` are `begin()`, `HandlerSucceeds`, `HandlerFails` and
`Commit` are the attempt loop, `Answer` is the acknowledgement's way to the
broker. `Durable` chooses between `RepositoryDedupeStore` and
`MemoryDedupeStore`, `Transport` between the push endpoint and the pull bridge,
which differ in what they acknowledge and in who dies of a store error.
`StoreFails`, `Crash`, `Park` (the subscription's dead-letter policy) and `Tick`
are the environment. Envelopes are model values; backoff delays, and the fan-out
of one envelope to several subscribers, are left out.

### Incident lifecycle and log

Each *call* has a program counter. `_commit` of the recorder is the loop
`ReadSequence` – `CommitEntry` or `LoseRace`, at most `MaxAttempts` times; a
transaction can also be aborted because others contend for it (`Contention`),
which the code counts as a lost race. `record_benchmark` and `close` are the
sequences `Load` – `SaveBenchmark` and `Load` – `SaveClosed` – `SaveBenchmark`
followed by that loop, and `close` continues with `Revoke`, the flush, `Draft`
and `Seal`. The flush, of a close or of the woken recorder agent, lists the
unwritten entries and executes and marks them one by one; the target replays a
key it has seen. `Raise` ends a call at any step.

### Profile materialization

A *pass* of a watcher is `Begin`, `AppendFact` for each fact, `StoreFacts` or
`LoseFacts`, then materialization: `Ask` (reads the clock), `Acquire` or
`Refused`, `Derive`, `PersistConflict`, `SaveDerived` or `LoseSave`, `Announce`,
`Release`. structure-watch starts at `Derive` without the lock and does not
retry. A survey appends facts, settles the open conflicts on what it verified
and saves. The conflict engine is the constant function `Findings` from sets of
facts to sets of conflicts, of which the model needs only that nothing follows
from no facts. Decay is reduced to whether it moves a value, which makes a
version. `SaveAccepted` is the repository's compare-and-set.

### Entry packages

A *composer* is one call that may compose a package, which is named after it: a
hook (an intake, a frame, a sweep that stopped), the deadline's timer or a
commander's request. An unprompted one begins with `Probe` (the assessment it
decides on), `Decide` and `RecordDecision`; all of them then go through
`StartRun` (the fleet stores the run and reads the grant), `Authorise`,
`Assess`, `StageHalf` twice, `RecordPackage`, `EndHandler`, `Collect` (the run's
end is stored, the package taken from the session's slot) and `Finish`. What an
assessment finds is one of `Verdicts` – the criteria that fail – and `Move` lets
the record change. A *tap* and a *send* are three steps each: they read the
latest version of a package, have the approval or the gateway decision stored,
and write the copy they read back whole with their own change. `Overrun` and
`Raise` are a budget that runs out and an await that raises; `Revoke`, `Seal`
and `Forget` are what the session sees of the close, and `Restart` empties all
that is memory of the process: the autonomy state, the timer, the cached grant,
the slot.

### Survey actions

A dispatch walks through the steps of `AfterDispatch`: the work order is
recorded as drafted, executed, recorded as executed, its undo recorded, then
calendar, mail, plan, the queue entry saved from the copy read at the start, and
the referral staged. `Skip` is the deadline check in front of each outward step.
An approval walks through `AfterApproval`: the case is opened at the department,
the approval granted, the referral saved as filed, the undo, the mail and the
case number's way back onto the profile. The work-order system and the building
department answer a repeated key with what they stored first, and refuse one
with another payload (`Accepts`). The calendar and the mail know no keys; their
clients share one protocol (`DurableArtifactDedupe`), which is three steps:
`ClaimBooking` and `MailReferral` claim the key and go on empty-handed where it
is claimed or completed, `Book` and `PostMail` insert or send, `CompleteBooking`
and `CompleteMail` complete the claim, whoever holds it by then. `completed_ref`,
the look-up before the claim, is part of the claim's step: the claim's
transaction finds a completed record itself, and what is answered differs only
in the reference, which the model leaves out. The crew's mail is Gmail's, the
department's Gmail's or Resend's, which may know the key (`PostMail`).
`recipients` says whether there is anybody to mail to; `Tick` lets a claim
expire. The in-memory clients take the three steps at once. `Rerank` replaces
the queue, a survey settles the conflict and closes the entry, `Cut` ends a call
between any two steps, as an exception – a refused insert – or a lost instance
does.

### Memory bank

Each call reads the question and saves the next version of its copy: `Examined`,
`RuledOut` or `ClosedAs`. `Saves` is the store's one guard, that an answered
question is only replaced by an answered one. `Index` is the pointer written
after the record, which `MissIndex` loses without the call noticing; closing a
question takes the pointer away in the in-memory index and not in Vertex's,
whose delete does nothing (`adapters/vertex/threads.py:330-369`): `Forgets` says
which. A sweep closes what has expired when it looks. `Continues` relates a
version to the one it was made from.

### Path finding

`PathFinding` is `astar()` with its frontier, lazily cleaned of settled nodes,
and `_reconstruct()`. Nodes, legs and their costs are state, so that a caller
builds them; the heuristic is the straight line. `EntryPath` is
`compute_entry_path()`: the walls' readings, the structure's record, the storeys
and the target are chosen in `Init`, `Build` makes the graph of `build_graph()`,
then one search gives the way in and one per other face the second way out.
Prices follow the code's terms in hundredths, rounded down; lengths and straight
lines are constants, of which the model assumes the triangle inequality.

### Backfill

`Start` begins a run, from the last checkpoint of another when given one.
Each run is given a list of its own, one of `Lists`, since a source may leave the
configuration or join it between two runs; `ResumePosition` looks the stored
source up in it, and begins at the first again when it is not there.
`FetchPage` and `FetchFails` are the turns of `_pull_source`, `TakeCheckpoint`
stores the position with what was processed, `Finish` the run's end, `Dies` a
process that is replaced. A managed source's cache, limiter and breaker amount
to a page or none; a page stands for the address it is about, and cursors for
pages, as if a source's records did not change between two runs. The lists name
the sources in one order, as the configuration does. History are `missed` – what
a failing fetch or the page limit left out, or was listed when the runs before
had gone by (`ListedTooLate`) – and `redone`, what was processed when a run
began again.

### Reasoning graphs

An action of `HazardCrossCheck` or `RecordsRetrieval` is one turn of the driver:
a node runs, is charged (`Charge`), and the router, which sees only the state
after it, names the next node (`Router'`). Time is a flag that may go up at any
node. What a planner or the grounding service answers is any of the options it
is offered, which is all the code lets through. A registry's rows are a street,
a building and a name, a filing its number and what it cites; `Tails` says which
numbers end which, because a token is matched by its end. A pass ends with its
questions (`AskPeople`, or `BankRefuses`, which raises) and the next begins
anew.

`FocusComposition` is the briefing after an intake: `Detected` is what the
profile disagrees about, what the slow loop still asks and what the intake
reported on, brought together by attribute; `Pointers` what each of these refers
to, and `Briefing` who gets which, most urgent first and cut off. Attributes,
facts and ids are model values ordered by `IdOrder`, which stands for their
alphabet; a pointer is a kind, a reference and a priority, without its sentence.
`ComesApart` is a planner that raises or a driver that is missing, `Composed`
the choice between the graph's selection and the fallback, `LogRefuses` an entry
that cannot be appended, with which an incident goes on.

`ReportSynthesis` is what a close runs before it seals the log. An examination
is two actions, the read of the question (`Answer`) and the write to the bank
(`Resolve`, `RuleOut`, or `Refused`), since other passes get in between
(`Others`), as they may change the log (`LogGrows`). The transitions of `bank`
are those `MemoryBank` allows: an answer is not taken back, but a late answer
may replace it, and a late elimination may open again what was abandoned.

The four modules are instances within `WatcherGraphs`, over the driver's
variables that they share; the pass of one leaves the others' alone.

## 3. The runs

Passing runs; all search exhaustively.

| Run | Instance | Shows |
|---|---|---|
| `delivery_push` | one event beside one of an unknown schema, two tasks in one process, durable store, push; a crash, a failing store call | `ExclusiveUnlessExpired`, `DuplicateNeedsExpiry`: handlers of one event overlap or repeat only after a claim on it expired. `CompletedHasEffect`: although `complete()` checks no owner, a completed record stands for a finished run. `AckedIsAccounted`: behind each acknowledgement is an effect, a dead letter or an unfinished claim, which somebody finishes as long as nothing fails (`NoDropWithoutFailure`). `BreakersConsistent` under interleaved successes and late failures. `EverySettles`: everything published is acknowledged or parked |
| `incident_close` | opener, a brief, a close, a recovery flush, two attempts each, contention, one outage, one raising call | `AcknowledgedIsRecorded` (exactly one entry for each call past its append, a brief shown is in the log), `KeepsContract` (refinement of `AppendOnlyRecord`), `RmsFaithful` (the records system holds a hole-free beginning of the log, marks included), `CloseIsAccounted` (a close that is over has revoked the grant and sealed the log, unless something in it raised or every attempt at its entry was lost), `CloseCompletes` (a close that began gets there, with the same two excuses) |
| `profile_passes` | two watchers with one side of a disagreement each, structure-watch, contention, an expiring lease, one failure | `ProfileOnlyGrows`, `AnnouncedUnlessFailed`, `DerivedAtRest`, `LockExcludes` |
| `profile_surveys` | two surveys settling one conflict, a watcher, contention, one failure | `Provenance`: what the profile and the announcements cite is in the stores, resolutions included |
| `packages` | a sweep that stops, the timer, one request; one move of the record, one fault, one restart; the close | `ComposingIsHeld` (one unprompted composition at a time, and no flag left up), `TwinNeedsMovedVerdict`, `RunsAreClosed`, `NoRunOnceForgotten`, `PackageUnlessFailed` |
| `packages_signed` | one package, three taps, two sends, one restart; the close | `SentNeedsBothSignatures`, however the stale copies are written back |
| `actions` | two dispatches, two approvals, two companies, with or without recipients; one call cut off or out of time; one new ranking, survey or tick of the clock that claims expire by | `OneCompany` (all outside systems name one company, and so does the queue unless a dispatch ran late; one event and one crew mail, unless an expired claim was taken over), `FilingIsAccounted`, `AnsweredIsDone` (a call that answers has booked, sent and recorded what it is for, or another holds the claim or died with it), `StagedIsApprovable` |
| `memory` | two passes that ask, an elimination, two answers, an abandonment, a sweep, a checkpoint; one index write missed | `AnsweredStaysAnswered`, `OnlyStaleWritesLose` (what a save loses was recorded after the read it rests on), `OpenIsFindable` |
| `entry_path` | a square building of two storeys; each wall absent, unscanned, cool, warm or too hot, two structures, three storeys asked for | `PathIsCheapest`: a search ends with a cheapest route, or with none to find. `SecondWayIsAnother`: a second way out has a door of its own, open and reachable without the first |
| `watcher_graphs` | passes of the hazard watcher over four registries, two buildings and one elsewhere, of the records watcher over three feeds and five filings, briefings over three profiles of four attributes and two questions, or reports with the same questions in the bank; any subset of the sources wired, any of them refusing, any order of planning, any grounding answer; step ceilings of 4, 12 and 24, time up at any node | `SilenceIsClosure`: a watcher's pass opens no question exactly if it closed; a briefing is the one that everything recalled and on file leads to, whatever ceiling, planner or failure cut the graph short; there is always a report, and what it calls settled is answered in the bank, whoever wrote there since. `UnresolvedTriedAll` and `ClosedLeavesNothing`: what the two ways of stopping unprompted say of what was read, selected or examined. `OneBuildingPerStreet`: a street is bound to one building of the district, unless a registry refused. `ConvergesInSteps`: the lookups end within three steps a source, and two a filing, a selection within one a collision, the examination within one a question |
| `backfill` | three sources, one longer than the page limit, three runs, each with all of them or with the middle one alone | `NothingSkipped` (but for failing fetches, the page limit and what was listed too late), `NothingPulledAgain` (but for a run that began at the first source because the checkpoint's had left its list), `DeathCostsOneSource` |

The type invariants, and `CompletedIsWhole` of `Backfill`, are proved and have
no run (section 4).

`incident_reopened` ends in a counterexample; see section 5.

**Bounds.** `MaxDeliveries`, `MaxAttempts`, `MaxSaves`, `MaxWaits`, `MaxPages`
and `MaxExpansions` are constants of the code with smaller values; two or three
of each are enough for a first try, a retry and giving up. The twenty expansions
of `entry_path` are as many as its graph has nodes, so no search is given up
there. `MaxTime` lets a claim (`ClaimTTL` = 2) or a lease (1) run out while its
holder is at work and a successor hold the next one. `MaxCrashes`,
`MaxStoreFailures`, `MaxFailures`, `MaxOutages`, `MaxFaults`, `MaxCuts` and
`MaxMisses` allow the failure to strike at every step once; the proofs do
without these bounds. `MaxVersion` bounds the versions at which decay may move,
`MaxCuts` counts the dispatches that run out of time as well; `MaxEvents` and
`MaxMoves` bound how often the queue or the record changes – one new ranking,
one survey or one tick with `ClaimTTL` = 1, which is what it takes for a claim
to expire under its holder – which otherwise would go on for ever. Two tasks, or
two racing writers, are the least that race; three taps are needed for one to be
lost and signed again. Three runs of `backfill` make a chain of two resumptions,
and let two runs continue the same one. A passing run stops where its calls are
done or its clock is exhausted, which is why deadlock is reported only for the
profile's, whose passes start again and again.

The ceiling of 24 steps in `watcher_graphs` is the code's; 4 stops a pass early
and 12 is just what four registries may take, while time may be up at any node.
With `MaxReferences` = 2 and three filings cited at once some are left for
later, with `MaxQuestions` = 1 some unasked. A briefing detects up to four
collisions and keeps `MaxCollisions` = 3 (8 in the code), which have more
pointers for an agent than its `MaxPointers` = 3 (6), so both cuts are made; of
two questions one can be examined while the other changes hands.

**Symmetry** is used where the members of a set are told apart by nothing: taps
and sends, dispatches, approvals and companies, backfill runs. The runs that
use it check no liveness.

**Fairness.** `EverySettles` assumes that a delivery that was begun goes on (an
asyncio task whose awaits return) and that the broker delivers, and finally
parks, what is not acknowledged – Pub/Sub's contract and the subscription's
`dead_letter_policy`. No fairness is assumed of `Publish`, `Crash` or `Tick`:
the property does not wait for a claim to expire. `CloseCompletes` assumes that
a call that has begun goes on and that the records system recovers, not that any
call begins. It excuses the close in which something raised (`broken`) and the
one whose closing entry lost every race (`attempt` = `MaxAttempts`). With two
attempts, a brief as a rival and transactions that are aborted by others
(`Contention`, which stands for any number of writers) both excuses occur, the
second at each of its attempts; the code's five would only make the way there
longer. `PackageUnlessFailed` assumes that a composition that has begun goes on,
that one decided upon is started, and that the timer wakes up (`asyncio.sleep`
returns); not that anybody asks, that the sweep stops or that the record moves.
Its excuses are a failed composition, a close and a restart.

## 4. The proofs

The theorems hold for every value of the constants allowed by the named
assumptions of the modules: any number of processes, tasks, events, calls,
passes, facts, conflicts, sources and runs, any building and any bounds on
failures. What a run of section 3 checks on its instance is stated as a theorem
under the name `PROJECT.json` gives it.

**`EventDeliveryProofs`.** `TypeCorrect` has a step for each action. Exclusion
is not inductive: it says nothing of what a record looks like while a handler
runs. `HolderInv` adds that a task at or past its handler has a record whose
expiry is no earlier than its own claim's, that the first claim on an event is no
later than any holder's, and that an effect leaves a record behind; the
conjunction `ClaimsInv` is inductive (`QuietStep` for the steps that touch no
record, `ClaimStep`, `SuccessStep`, `CommitStep` for those that do), assuming
`Durable`. From it follow `MutualExclusionOfHandlers` and
`ExactlyOnceUntilExpiry`. `CompletionIsEarned` needs no store that lasts: its
invariant `CompletionInv` only follows a run from its handler to the record it
completes. `NothingAckedWithoutTrace` needs, besides the claims, that an answer
that will acknowledge is only ever prepared for an accounted event
(`AnswersInv`), and assumes the push transport: for the pull bridge it is false.
`NothingDroppedInPeace` says who finishes: as long as no process and no store has
failed, an event that is claimed or acknowledged has its effect, a dead letter or
a task at work on it (`CoverInv`), with either store and by push.
`BreakersNeverDrift` holds of each breaker by itself, whatever order outcomes
come in. Unless a hypothesis says otherwise they hold for both stores and both
transports.

**`IncidentLifecycleProofs`.** `TypeInv` adds to the type that a call past its
load holds an incident and that an attempt remains to a call that tries.
`LogIsGapless` follows from the append's precondition. `PersistBeforeTransmit`
is inductive together with the type and gaplessness (`LogInv`), one step per
phase a call may be in. `LogImplementsRecord` maps the header and the entry
documents to the sequence of lines (`Lined`) and shows each step of the log to
be an `Add`, a `Close` or a stutter of the abstract record. `ClosesAreAccounted`
needs to know what a close at each step has behind it. `MintedFirst` (nothing is
saved before the grant is minted, so the minting cannot follow the revocation)
and `RevokedByClose` give the revocation to whoever is past it,
`SealFollowsRevoke` to a sealed log, whoever sealed it; from these
`DoneIsSealed` is about a close that ended, `RaisedHasCause` about one that
raised: it was broken, it ran out of attempts, or it met another's seal.
`RecordsSystemIsFaithful` needs `PendingComplete` – whatever a flush has not
listed below something it has is marked already – and `Executed`, that an entry
about to be marked is in the records system. The run has one close and two
attempts; the theorems cover any number of closes, attempts and writers that
race.

**`ProfilePassesProofs`.** The invariant `IInv` gives, for each pass, what makes
its draft safe to save: if the version it read is still the stored one, the
draft includes the profile (`Based`), all the draft cites is in the stores
(`Sourced`), a derived draft has all its findings (`Complete`), and a pass in
the locked part has a lock of its own or an expired lease (`Leased`). A step of
one pass keeps these for another because the stores only grow and every save
raises the version, which turns the other's antecedent false. `DerivedInv`
strengthens `DerivedAtRest` from "at rest" to "somebody is still deriving or
nothing is left to derive". `NoLostWrite` is the action property. The
assumptions are in `PassesAssumption` and `LockAssumption`: finitely many
conflicts can be found, none without a fact (a finding cites two at least), each
watcher and survey comes with at least one fact, and the three kinds of pass
are disjoint. `LockIsExclusive` assumes distinct identities within the
statement, because the code does not provide them (section 5).

**`SurveyActionsProofs`.** The invariant `IInv` follows a call through its
steps: `DispatchesInv` and `ApprovesInv` say what a call at a step has done
already, as far as nobody can undo it, `Booked` and `Assigned` that the order,
the calendar, the mail and the queue name the order's company, `ClosingHasEntry`
and `CardHasReferral` that what is written back has something to be written to,
`FollowedUp` who is still at work when something is missing. `ClaimInv` and
`MailInv` tie each key's claim to its bookings: no claim, nothing booked and
nobody about to book; a claim, and something is booked, or a call is about to
book or was cut off there; and unless the key was ever retaken, one call only
has been past the claim, so that there is one booking at most. What every step
keeps – an order, a case, a grant and a filing stay – is the step fact `Grows`,
and `Kept` the same with what only some steps touch; they are proved once per
action, and the parts about other calls follow from them.

**`QuestionProofs`, the graphs.** `GraphInv` is the driver's order (`DriverOK`)
and, for the agent whose passes these are, an invariant of its own, one lemma
per node. Three of the properties are read off it, but none is inductive:
between two nodes a pass owes something, and the invariant says what.

* *Hazards.* `SeenSettled`, as long as nothing is open: every identity that the
  rows of the screened registries raise is settled, whatever the rows were bound
  to since.
* *Records.* `RecordsRead`: what is outstanding is cited; once everything pulled
  was followed through, nothing outstanding is published, and if nothing is
  outstanding all that is cited is published.
* *The head.* What is recalled, detected and selected is a function of the phase,
  so that the fallback composes the same briefing. That a selection ends needs
  `CollisionsAreFew`: the first `MaxCollisions` of a finite set under a total
  order are at most that many (`LeadersAreFew`, for any order), and
  `RanksAreTotal` that `rank` is one.
* *The report.* `ReportTried` accounts for each question taken up – written, let
  go, or the one under way – and `ReportBank` is kept by what other passes write
  because the bank never takes an answer back.

From these follow `UnresolvedIsEarned`, `ClosureIsComplete` and
`SilenceMeansClosed`. Two properties needed more. `StreetsAreBoundOnce` rests on
`RowsBound`: while no registry has refused, a row that was bound is of a settled
street, all rows of the street in what was screened have one building, and an open
identity has none yet. `LoopsConverge` rests on `StepsInv`, a potential for each
graph: three steps for each source that was tried, less those the pass still owes
(`HazardSpent`), two for each filing looked for (`RecordsSpent`), one for each
collision or question; a pass that goes on has spent no more than that
(`Spends`). TLC checked `GraphInv`, `RowsBound` and `StepsInv` on the
instance of `watcher_graphs` before they were proved.

The assumptions are the `WellFormed` of each graph: finitely many registries,
feeds, filings, attributes and questions, rows and orders of the right type, ids
and filing numbers that differ, and a `None` that is none of the values. That the
least element of a set of numbers exists is taken from the library's
well-foundedness of the naturals, cardinalities from its theorems on finite sets.

**`QuestionProofs`, the bank.** `AnswersStay` needs only the store's guard.
`LossNeedsStaleness` rests on what a call may still do to the copy it holds
(`ReadsAllow`: it was read while it could be closed; `CopiesMatch`), and
`OpenQuestionsAreFindable` on `PointerKept`: the pointer is there once a pass
has written it, unless a call that closed the question removed it.

**`EntryPackagesProofs`.** The invariant `IInv` has, beside the type and
`ComposingIsHeld`, one part for each thing a call may leave behind. `CallsInv`
says what a composer at a step holds: a package in the slot or taken from it is
in the log. `Remembers` is what makes the material-change guard work: what the
session remembers is a package of the log and its verdict, and nobody composes
on a probe that found that verdict – from it follows `NoTwinUnmoved`. `RunsInv`
says who is still at work on a run stored as RUNNING, `GrantInv` that a
forgotten incident has no live grant in the session's cache, so that
`ForgottenStaysQuiet`. `SignInv` is about versions: every version of a package,
in the log or in the hands of a tap or a send, has the package's verdict, only
signatures that are granted, and both if it was sent (`VersionOK`); a version
written back over a newer one may lose a signature but never says more than was
granted. Each action keeps all of it (`ProbeKeeps` to `RestartKeeps`); steps of
one composer share `ComposerKeeps`, those inside its handler `InsideKeeps` and
`WritingKeeps`, those of taps and sends `SigningKeeps`, and those that end
calls `CutKeeps`.

**`EntryPathProofs`.** First the correctness of A* with a consistent heuristic,
for any graph. `SearchInv` says what the frontier and the scores have to do with
each other: every node reached and not settled is queued at its score
(`Queued`), entries are settled in the order of their estimate (`Monotone`), the
legs out of settled nodes are relaxed (`Relaxed`), and the predecessors form a
tree whose costs add up (`Tree`, `Walked`). Cheapness is stated without
quantifying over paths, by the potential `AtLeast`: it is 0 at the start, the
route's cost at the goal, and grows along each leg by no more than its cost, so
no walk can cost less. Then, that the graph `build_graph()` makes has what the
search needs: each leg costs at least its length, so that `TriangleAssumption`
makes the heuristic consistent. `InThroughADoor` – a route into the building
passes a door – types the entry face. `SecondWaysAreOthers` adds `EgressInv`: a
second way on offer has a face and a door of its own, open, and does not touch
the first door; and the route being walked back has the shape of a way out
(`WayOut`): unless it ends through the face's own door it does not pass that
door at all, and if it does it came there straight from the core of the ground
floor, so that it passes no other. The reason is the order of costs: scores fall
along the way back (`BackIsCheaper`), and from inside every way to the outer
part passes the core of the ground floor first (`ThroughTheCore`, a least
counterexample), so a route that comes back in would have met that core twice.
`ClosedIfNothingLeads` gives the refusals: a search that finds no route to the
target's core has no open wall. It needs `RoomAssumption`: places do not
coincide, since `build_graph()` skips nodes that do, and a search may expand all
of them, so that a search given up means that there is no route.

**`BackfillProofs`.** The invariant `RunOK` has three parts for each run: up to
where it stands everything was processed or is accounted as missed (`StandsAt`),
the same holds of the position its stored checkpoint gives (`CheckpointOK`), and
what was processed since is of the source it is at (`AtRisk`). A resumed run
inherits the second as its first, which is what makes chains of any length safe;
`Resumes` is the lemma that it does so with another list, in which the stored
position may lie between other sources or nowhere. That needs the lists to be in
one order (`BackfillAssumption`).

**Only model-checked.** The liveness properties `EverySettles`,
`CloseCompletes` and `PackageUnlessFailed`, which rest on fairness and ENABLED:
no backend here proves those. Every other property of a passing run is a
theorem. No run of `EventDelivery` uses several processes, the in-memory dedupe
store or the pull transport. The theorems hold for any number of processes,
which with the durable store share everything but the breaker; of the in-memory
store `TypeCorrect`, `CompletionIsEarned`, `BreakersNeverDrift` and
`NothingDroppedInPeace` are proved; the others assume claims that all processes
see and that outlive them.

## 5. Where the code and its documents part

`incident_reopened` ends in a counterexample. `domain/incidents.py:3-5` says
that an incident "is closed by an explicit call that revokes the grant and seals
the log"; a benchmark that read the incident before the close saves its copy
after it, with a plain put (`incident/controller.py:344`), and the incident is
OPEN again over a sealed log.

What follows was met while modelling. The models contain it, and no property
that holds says otherwise; none has a run of its own.

Event delivery and the profile:

* a watcher that loses the save of its facts to a watcher with *other* facts
  never puts them on the profile: the store has them, so the next pass takes
  them for known. `agents/records_watcher.py:1006-1007` says "Another instance
  wrote first. Its pass extracted the same facts from the same records, so there
  is nothing to redo", which `services/materialization.py:177-180` knows to be
  "true of two *duplicate* passes and false of two different agents", and
  `demo/scenario.py:579-581` runs the watchers together because "contention is
  now handled rather than avoided". TLC finds it in `ProfilePasses` with two
  watchers and fair passes;
* a redelivery that meets another worker's claim is acknowledged as a duplicate;
  if that worker dies, the event is gone (`eventing/dispatch.py:340`), against
  "Never a silent drop" (`dispatch.py:22`);
* the pull bridge acknowledges a delivery the open circuit refused
  (`adapters/pubsub/pull.py:243`), which `dispatch.py:103-104` says is handed back;
* all instances of a watcher use one lock identity (`agents/records_watcher.py:769`),
  so the lock does not keep two of them apart, as `services/materialization.py:6-9`
  and `domain/locks.py:38` have it;
* a half-open breaker admits every caller until the first outcome, not one probe
  (`reliability/breaker.py:41`, `:76`);
* an exception out of the bus ends a topic's pull loop (`adapters/pubsub/pull.py:196-199`, `:209`);
* dead letters are memory of one process (`adapters/pubsub/bus.py:104`), while
  `src/infra/terraform/modules/pubsub/main.tf:101-102` counts on them;
* a crash between saving conflicts and announcing them is never made up for
  (`services/materialization.py:246`);
* a conflict that was resolved by a survey whose profile save was lost makes
  every later survey of it raise (`services/surveys.py:142`);
* a survey of facts all known saves at an unchanged version, which the
  repository refuses, so its date is not recorded (`services/surveys.py:164`);
* two passes that both find no profile both create it, and one raises
  (`agents/records_watcher.py:978`).

The incident:

* nothing flushes the log entries buffered during an outage once the incident is
  closed (`incident/recorder.py:679`, `:743`), though `recorder.py:14-16` speaks
  of a recovery flush that drains the queue;
* "Both revocation and sealing happen, and neither depends on the other
  succeeding. Authority ends when the incident does"
  (`incident/controller.py:355-356`). The calls follow one another without a
  handler (`:358-373`), so the sealing depends on the revocation, and both on the
  closing entry: when the revocation raises, or the entry lost all five attempts
  (`incident/recorder.py:566`), the incident has been saved as CLOSED, its log
  stays open and its grant live until it expires; when the flush or the draft
  raises, the log stays open. A repeated close would go through, if anybody
  asked again. These are the two excuses of `CloseIsAccounted`, and all it says is that
  there is no third;
* the report is drafted before the log is sealed, not after
  (`src/docs/architecture.md:340`), so it may miss an entry.

Entry packages (`incident/session.py` where no file is named):

* a run leaves its package in one slot of the session (`:457`, `:2334`): a
  request and an unprompted composition at the same time can each collect the
  other's;
* `_arm_deadline` guarantees no package when the composition it triggers fails;
  a package a human asked for does not cancel the timer (`:378-380`);
* of two signatures that cross, one disappears from the package (`:3159`) while
  both approvals stay granted; approving again replaces the signer;
* two sends that cross are both decided and recorded, and a tap's stale copy can
  make the latest version of a sent package unsent (`:3187`);
* the cached grant is used between the revocation and the seal (`:3369`);
* `forget` cancels a timer that is storing its run, whose record stays RUNNING.

The action flow (`agents/actions.py` where no file is named):

* dispatching again after a new ranking, or to another company, has the
  work-order system refuse the key (a 409), leaves the executed action recorded
  as DRAFTED and never reaches the staging of the referral, while
  `api/routes/console.py` promises the original work order;
* of two approvals at once, the mail may name one signer and the stored referral
  the other, against the account at `:853-857`;
* a dispatch that saves late writes its copy over a surveyed entry or one
  assigned to another company, and a new ranking over a dispatched one;
* a call that meets a claim on the calendar, the crew's mail or the department's
  answers without an event or a mail, since "its event is the one the crew will
  see" (`adapters/google/office.py:133-134`; `adapters/resend/mail.py:155-157`
  likewise). But a refused insert, or an instance lost before it, leaves the
  claim in flight for its ten minutes: whoever repeats the dispatch meanwhile
  is answered, with nothing booked by anybody, and if nobody repeats it later
  nothing ever is. These are the excuses of `AnsweredIsDone`;
* the key exists to prevent that "we double-invited the company because we
  restarted" (`adapters/google/office.py:44-46`; `agents/actions.py:346-349` has
  it too). An instance lost between the insert and its completion leaves a claim
  that expires, and the repeat then inserts again, for the same company: the
  excuse `retaken` of `OneCompany`. Work order and department keep the key
  themselves and are not affected, nor is Resend while it remembers it;
* without recipients a referral is filed and nobody is mailed (`:1004-1005`);
* cut off between executing a write and recording its undo, a call leaves no undo
  until it is repeated; between a referral and its card, no card ever (`:671`);
  between FILED and the mail, no mail (`:936`, `:998`);
* a referral on file for the worst conflict keeps the next one from being staged.

Memory bank (`services/memory_bank.py`): two answers at once overwrite each
other, though `domain/memory.py:411` rules out "re-resolving something already
answered"; a stale open copy revives an abandoned question, and a stale copy of
any kind forgets an elimination; asking a closed question again puts its pointer
back into the index, and an abandoned one stays abandoned; a save that is
refused ends a sweep before the questions after it.

Path finding: a face is rejected as a second way out when the *cheapest* route to
its approach leaves by another door and goes round the building
(`incident/entrypath.py:1212`), so that a plan may say that "every face other"
is absent or behind a barrier where one is not, or keep a dearer face than
another; on equal estimates the heap prefers the entry that has covered *less*
ground, not more, as `incident/pathfinding.py:263-265` has it.

Backfill (`sources/backfill.py`): a run whose process dies stays RUNNING, so
`list_resumable` never offers it, though resuming by id accepts it – or one that
is still at work; a source longer than the page limit is cut off while the run
is COMPLETED and the source counts as available, against "Pulls every configured
source for a district"; a fetch that fails right after a run was resumed within
a source stores no cursor, and the rest of that source is then left out by every
later run; cursors are offsets, which shift if a source's records change between
two pages. A resumed run "does not restart the district" (`:7`) unless the
source of its checkpoint has left the list: then it begins at the first source
and pulls again all that was processed (`:268`), which `NothingPulledAgain`
excuses as `redone`. And a source that joined the list ahead of the stored
position is not polled by the resumed run, which is COMPLETED all the same. No
production code calls it yet.

The watchers' graphs: "successive passes walk the same list and the ones
deferred today are the ones taken next" (`agents/hazard_watcher.py:560-562`) –
but each pass sorts all that is pending and takes the first fifteen
(`:563`, `:574`), which are pending again next time, and while one registry keeps
refusing every address is pending, so the tail is never reached; the twelve
questions of a pass (`:456`) are cut off likewise. A bank that refuses a question
ends the poll before `_settle`, and nothing the pass has read is written
(`:400`). `screen` "runs after every read" (`agents/graphs/hazard.py:420`), but
not after a refusal, nor after a sweep, so an identity may be put to a registry
once more after it was settled, get a second building, or have a question opened
about it; and what the sweep reads raises no question at all. A pass whose last
affordable step is the park is stopped for its steps, not as unresolved. A feed
that refuses a chase counts as one that does not have the filing
(`agents/graphs/records.py:350`), one whose number ends another's as tried with
it (`:412`), and beyond the first twelve nothing is chased
(`:292`) while these stay missing. A retrieval whose feeds all refuse closes, as
"every feed has been read" (`:373`). And no pass reads the eliminations and the
checkpoint an earlier one filed, from which "the next pass starts"
(`agents/graphs/base.py:49`).

The incident agents' graphs: "the only thing an exhausted graph costs is the
*order*" (`agents/graphs/interceptor.py:667-670`) – if it was exhausted before
the recall it costs the questions, all of them; `threads = recalled` in
`SilenceIsClosure` says no more than that what was recalled is named. The
recorder leaves what another pass has settled alone, "overwriting it would be
the one thing this module exists to prevent"
(`agents/graphs/recorder.py:868-872`): so it does when it sees the answer, but
`resolve()` reads and saves in two steps and the store refuses only what is not
an answer, so that of two answers given at once the later stands (`Resolve`
after `Others`), and both passes claim it. An elimination written at the same
time as an abandonment opens the question again.

## 6. Not modelled

Within the modelled components:

* event delivery – fan-out to several subscribers, undecodable bytes, the
  publisher's timeout;
* the incident – audit rows, thermal clearing, the grant's expiry (the synthesis
  in front of the report's draft is in `ReportSynthesis`, outside the incident's
  own module);
* the profile – polling, extraction, the ranking itself, the survey queue's
  order, geometry, the creation of a missing profile;
* entry packages – the wording of a brief, the criteria behind a verdict, the
  approvals of resource requests, the documents rendered from a package;
* the action flow – the narrative's drafting, audit rows, the execution of an
  undo; one conflict stands for the worst open one;
* the memory bank – recall by prose, and who may see a question;
* path finding – coordinates, explanations, the conversion to WGS-84, floating
  point: weights and lengths are integers;
* sources – HTTP, field mapping, the cache and the limiter;
* the reasoning graphs – the notifier's (`ResourceAgent.notify` is called by
  nothing but tests), the wording of a report and its checks, recorded traces, the
  LangGraph driver, a process with no memory bank (which asks nobody), and the
  writing of what a pass read, which `ProfilePasses` has for one address.

Whether a fact's content is right, what decay does to a confidence and which
conflicts a set of facts has are data the properties do not look at.

Whole components: those without state of their own that calls share – values,
extraction, fusion, the clients of imagery, tiles and models, observability,
wiring, the console – are left out; `PROJECT.json` gives the reason for each.
Adapters that keep state between calls are modelled with the component that
calls them: the stores as the atomic steps they provide, the bus and the pull
bridge in `EventDelivery`, the recall index in `MemoryBank`, and the claims of
the calendar's and the mails' clients in `SurveyActions`. Components with state
that interleaves and no module are in the plan.

## 7. The plan

1. An abstract `TwoSignatures` (a document is sent after both signatures) for
   `EntryPackages` to implement.
2. `Gateway`: grants that expire or are revoked between decision and use, and
   two runs that both find no standing grant; then the incident's grant in
   `IncidentLifecycle` becomes an instance of it.
3. `AgentRuns`: the fleet's runs with their budgets and checkpoints, of which
   `EntryPackages` and `Backfill` each have the part they need.
4. The fan-out of event delivery, composing `EventDelivery` with
   `ProfilePasses`: an announcement delivered twice derives nothing twice.
5. The intake and the focus of a session, and the stream that shows only what is
   in the log.
6. Questions across passes: `WatcherGraphs` opening `MemoryBank`'s questions.

New runs come in as old questions are settled by proofs, so that the project
stays small enough to be repeated as a whole.
