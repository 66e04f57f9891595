--------------------------- MODULE EntryPackages ---------------------------
(***************************************************************************)
(* The entry packages of one incident: how the session composes them, on a *)
(* commander's request or unprompted, and how two people sign and a third  *)
(* sends one (incident/session.py, incident/autonomy.py,                   *)
(* incident/packages.py), with the run record that agents/fleet.py keeps   *)
(* of every composition and the part of closing the incident that the      *)
(* session sees.                                                           *)
(*                                                                         *)
(* A composer is one call that may compose a package: a hook (an intake, a *)
(* frame, a sweep step or a resolution, which asks whether the record now  *)
(* supports a package), the deadline's timer, or a request.  Each composes *)
(* at most one package, which is named after it.  A tap is one signature   *)
(* and a send one dispatch; both read a package and write it back whole.   *)
(* One action is what a call does between two awaits.                      *)
(***************************************************************************)
EXTENDS Integers

CONSTANTS Hooks,       \* calls of _consider_entry_package from the hooks
          Sweeps,      \* those of them made because the sweep has stopped
          Timer,       \* the deadline's wake-up
          Requests,    \* calls of the compose endpoint
          Taps,        \* calls of the approval endpoint, each by one person
          Sends,       \* calls of the dispatch endpoint
          None,        \* no package, no person
          Verdicts,    \* what an assessment can find: the failed criteria
          Ready,       \* the verdict in which no criterion fails
          FirstVerdict,\* what the record says as the incident opens
          MaxMoves,    \* how often the record may change its verdict
          MaxFaults,   \* how many awaits may raise or outlive the run's budget
          MaxCrashes   \* how often the process may restart

Unprompted == Hooks \cup {Timer}
Composers == Unprompted \cup Requests

ASSUME PackagesAssumption ==
  /\ Sweeps \subseteq Hooks
  /\ Hooks \cap Requests = {}
  /\ Timer \notin Hooks \cup Requests
  /\ None \notin Composers \cup Taps \cup Sends \cup Verdicts
  /\ {Ready, FirstVerdict} \subseteq Verdicts
  /\ {MaxMoves, MaxFaults, MaxCrashes} \subseteq Nat

VARIABLES verdict,   \* what assessing the record would find now
          moves,     \* how often it has changed (bounded by MaxMoves)
          due,       \* the incident's own clock has passed the deadline
          phase,     \* how far closing the incident has come
          tracked,   \* the session holds the incident's autonomy state
          auto,      \* that state; a call that has read it keeps it
          cached,    \* the grant as the session remembers it
          slot,      \* where a run leaves its package for the caller
          call,      \* each composer: where it is and what it holds
          run,       \* the stored status of its run
          cards,     \* the approvals staged for each package
          packages,  \* the latest version of each package in the log
          tap,       \* each signature in progress
          send,      \* each dispatch in progress
          faults, crashes  \* bounded by MaxFaults and MaxCrashes

autoVars == <<tracked, auto>>
runVars == <<call, run, slot>>
signVars == <<cards, packages, tap, send>>
envVars == <<verdict, moves, due, phase, faults, crashes>>
vars == <<autoVars, cached, runVars, signVars, envVars>>

Halves == {"path", "brief"}
CardStatus == {"ABSENT", "STAGED", "GRANTED"}
TerminalStatuses == {"COMPLETED", "FAILED", "TIMED_OUT", "DENIED", "CANCELLED"}
RunStatus == TerminalStatuses \cup {"NONE", "RUNNING"}

\* From setting `composing` to clearing it, and inside the run's handler.
HandlerSteps == {"run", "authorised", "assessed", "pathStaged", "briefStaged", "recorded"}
Composing == HandlerSteps \cup {"decided", "announced", "ran", "sections"}

\* A composer's call: the verdict its probe found, the one its composition
\* found, how its run ended, the package it took from the slot.
Call == [pc: Composing \cup {"idle", "probed", "done"}, seen: Verdicts \cup {None},
         judged: Verdicts \cup {None}, result: RunStatus, got: Composers \cup {None}]

\* The record of one package; sent holds who sent it.
Package == [verdict: Verdicts, signed: [Halves -> Taps \cup {None}], sent: Sends \cup {None}]
Signing == [pc: {"idle", "signing", "granted", "done"}, of: Composers \cup {None},
            half: Halves, copy: Package \cup {None}]
Sending == [pc: {"idle", "sending", "permitted", "done"}, of: Composers \cup {None},
            copy: Package \cup {None}]
AutonomyState == [composing: BOOLEAN, package: Composers \cup {None},
                  signature: Verdicts \cup {None}, failures: Nat]

ASSUME PackageAssumption == None \notin Package

TypeOK ==
  /\ verdict \in Verdicts /\ moves \in Nat /\ due \in BOOLEAN
  /\ phase \in {"OPEN", "REVOKED", "SEALED", "FORGOTTEN"}
  /\ tracked \in BOOLEAN /\ auto \in AutonomyState
  /\ cached \in {"LIVE", "REVOKED", "NONE"}
  /\ slot \in Composers \cup {None}
  /\ call \in [Composers -> Call] /\ run \in [Composers -> RunStatus]
  /\ cards \in [Composers -> [Halves -> CardStatus]]
  /\ packages \in [Composers -> Package \cup {None}]
  /\ tap \in [Taps -> Signing] /\ send \in [Sends -> Sending]
  /\ faults \in Nat /\ crashes \in Nat

-----------------------------------------------------------------------------
\* A call that has not begun or has ended holds nothing.
At(step) == [pc |-> step, seen |-> None, judged |-> None, result |-> "NONE", got |-> None]
NoTap(step) == [pc |-> step, of |-> None, half |-> "path", copy |-> None]
NoSend(step) == [pc |-> step, of |-> None, copy |-> None]

NewAutonomy == [composing |-> FALSE, package |-> None, signature |-> None, failures |-> 0]

\* emit_instant(): the incident is open, its grant cached, its autonomy state
\* new and its deadline armed -- the timer, idle, is asleep.
Init ==
  /\ verdict = FirstVerdict /\ moves = 0 /\ due = FALSE /\ phase = "OPEN"
  /\ tracked = TRUE /\ auto = NewAutonomy /\ cached = "LIVE" /\ slot = None
  /\ call = [c \in Composers |-> At("idle")] /\ run = [c \in Composers |-> "NONE"]
  /\ cards = [c \in Composers |-> [h \in Halves |-> "ABSENT"]]
  /\ packages = [c \in Composers |-> None]
  /\ tap = [t \in Taps |-> NoTap("idle")] /\ send = [s \in Sends |-> NoSend("idle")]
  /\ faults = 0 /\ crashes = 0

\* A sealed log refuses an append.
LogOpen == phase \notin {"SEALED", "FORGOTTEN"}

\* Mutant: the revocation is not looked up.
UnrevokedGrant == "LIVE"

\* _require_grant(): the session's own copy, else the store's.
StoredGrant == IF phase = "OPEN" THEN "LIVE" ELSE "REVOKED"
Grant == IF cached = "NONE" THEN StoredGrant ELSE cached

-----------------------------------------------------------------------------
\* Deciding to compose.

\* A hook or the timer's wake-up asks: an untracked incident is left alone, the
\* record is assessed, and what moved is written down (which awaits).
Probe(c) ==
  /\ c \in Unprompted /\ call[c].pc = "idle" /\ tracked
  /\ call' = [call EXCEPT ![c] =
       [pc |-> "probed", seen |-> verdict, judged |-> None, result |-> "NONE", got |-> None]]
  /\ UNCHANGED <<autoVars, cached, slot, run, signVars, envVars>>

\* Mutant: only the incident's own clock can pass the deadline.
OnItsOwnClock(c) ==
  /\ ~ auto.composing
  /\ ~ (auto.package # None /\ call[c].seen = auto.signature)
  /\ call[c].seen = Ready \/ c \in Sweeps \/ due

\* decide(): no composition is in flight, the verdict is not the one composed
\* against last, and the record is ready, the sweep over or the time up.
Decides(c) ==
  /\ ~ auto.composing
  /\ ~ (auto.package # None /\ call[c].seen = auto.signature)
  /\ call[c].seen = Ready \/ c \in Sweeps \/ c = Timer \/ due

\* The call goes on to a further step, or is over.
GoesOn(c, step) == call' = [call EXCEPT ![c].pc = step]
Ends(c) == call' = [call EXCEPT ![c] = At("done")]

\* Mutant: a failed composition stays in flight.
GivesUpComposing(c) ==
  /\ auto' = IF c \in Unprompted THEN [auto EXCEPT !.failures = @ + 1] ELSE auto
  /\ Ends(c)

\* What an exception does to the call: a request passes it on, an unprompted
\* composition is over, writes the failure down and is not tried again.
GivesUp(c) ==
  /\ auto' = IF c \in Unprompted
               THEN [composing |-> auto.composing /\ call[c].pc \notin Composing,
                     package |-> auto.package, signature |-> auto.signature,
                     failures |-> auto.failures + 1]
               ELSE auto
  /\ Ends(c)

\* Whether or not what moved could be written down -- in a sealed log it cannot
\* -- the decision is taken.
Decide(c) ==
  /\ call[c].pc = "probed"
  /\ \/ /\ Decides(c)
        /\ auto' = [auto EXCEPT !.composing = TRUE]
        /\ GoesOn(c, "decided")
     \/ /\ ~ Decides(c)
        /\ Ends(c)
        /\ UNCHANGED auto
  /\ UNCHANGED <<tracked, cached, slot, run, signVars, envVars>>

\* The decision goes on the record before the composition.
RecordDecision(c) ==
  /\ call[c].pc = "decided"
  /\ IF LogOpen THEN GoesOn(c, "announced") /\ UNCHANGED auto ELSE GivesUp(c)
  /\ UNCHANGED <<tracked, cached, slot, run, signVars, envVars>>

-----------------------------------------------------------------------------
\* The run: fleet.run() around the handler, compose_entry_package().

\* What the runtime returns: it never raises.
EndsAs(c, status) ==
  call' = [call EXCEPT ![c] =
    [pc |-> "ran", seen |-> @.seen, judged |-> @.judged, result |-> status, got |-> @.got]]

\* run_entry_package() up to the handler: the record is stored as RUNNING and
\* the runtime refuses an expired grant.
StartRun(c) ==
  /\ call[c].pc = IF c \in Requests THEN "idle" ELSE "announced"
  /\ cached' = Grant
  /\ run' = [run EXCEPT ![c] = "RUNNING"]
  /\ \/ Grant = "LIVE" /\ GoesOn(c, "run")
     \/ Grant = "REVOKED" /\ EndsAs(c, "DENIED")
  /\ UNCHANGED <<autoVars, slot, signVars, envVars>>

\* _package_decision(): the gateway is asked under the session's grant.
Authorise(c) ==
  /\ call[c].pc = "run"
  /\ cached' = Grant
  /\ IF Grant = "LIVE" /\ LogOpen THEN GoesOn(c, "authorised") ELSE EndsAs(c, "FAILED")
  /\ UNCHANGED <<autoVars, slot, run, signVars, envVars>>

\* The record is assessed anew, the path solved and the brief synthesised.
Assess(c) ==
  /\ call[c].pc = "authorised"
  /\ IF LogOpen
       THEN call' = [call EXCEPT ![c] =
              [pc |-> "assessed", seen |-> @.seen, judged |-> verdict, result |-> @.result, got |-> @.got]]
       ELSE EndsAs(c, "FAILED")
  /\ UNCHANGED <<autoVars, cached, slot, run, signVars, envVars>>

StageHalf(c, half) ==
  /\ call[c].pc = IF half = "path" THEN "assessed" ELSE "pathStaged"
  /\ cards' = [cards EXCEPT ![c][half] = "STAGED"]
  /\ GoesOn(c, IF half = "path" THEN "pathStaged" ELSE "briefStaged")
  /\ UNCHANGED <<autoVars, cached, slot, run, packages, tap, send, envVars>>

\* _record_package(): the package enters the log, unsigned.
RecordPackage(c) ==
  /\ call[c].pc = "briefStaged"
  /\ IF LogOpen
       THEN /\ packages' = [packages EXCEPT ![c] =
                 [verdict |-> call[c].judged, signed |-> [h \in Halves |-> None], sent |-> None]]
            /\ GoesOn(c, "recorded")
       ELSE EndsAs(c, "FAILED") /\ UNCHANGED packages
  /\ UNCHANGED <<autoVars, cached, slot, run, cards, tap, send, envVars>>

\* The handler writes its last entry and leaves the package in the slot.
EndHandler(c) ==
  /\ call[c].pc = "recorded"
  /\ IF LogOpen THEN EndsAs(c, "COMPLETED") /\ slot' = c
                ELSE EndsAs(c, "FAILED") /\ UNCHANGED slot
  /\ UNCHANGED <<autoVars, cached, run, signVars, envVars>>

\* Mutant: only a run that completed is stored.
SaveCompleted(c) == [run EXCEPT ![c] = IF call[c].result = "COMPLETED" THEN "COMPLETED" ELSE @]

SavedRun(c) == [run EXCEPT ![c] = call[c].result]

\* fleet.run() stores how the run ended; its caller takes the slot's package,
\* whichever run left it there, and fails when there is none.
Collect(c) ==
  /\ call[c].pc = "ran"
  /\ run' = SavedRun(c)
  /\ slot' = None
  /\ IF slot = None THEN GivesUp(c)
     ELSE /\ call' = [call EXCEPT ![c] =
               [pc |-> "sections", seen |-> @.seen, judged |-> @.judged, result |-> @.result, got |-> slot]]
          /\ UNCHANGED auto
  /\ UNCHANGED <<tracked, cached, signVars, envVars>>

\* Mutant: the probe's verdict is remembered, not the package's own.
RememberProbe(c) == [composing |-> FALSE, package |-> call[c].got,
                     signature |-> call[c].seen, failures |-> auto.failures]

Remembered(c) == [composing |-> FALSE, package |-> call[c].got,
                  signature |-> packages[call[c].got].verdict, failures |-> auto.failures]

\* Cancelling the timer ends it at its await: asleep or writing down what
\* moved.  (A timer that composes is never cancelled by another composition.)
Cancelled(calls) ==
  IF calls[Timer].pc \in {"idle", "probed"} THEN [calls EXCEPT ![Timer] = At("done")] ELSE calls

\* The sections of the brief are on the record.  An unprompted composition
\* remembers the package and cancels the deadline.
Finish(c) ==
  /\ call[c].pc = "sections"
  /\ IF c \in Unprompted
       THEN /\ auto' = Remembered(c)
            /\ call' = Cancelled([call EXCEPT ![c] = At("done")])
       ELSE Ends(c) /\ UNCHANGED auto
  /\ UNCHANGED <<tracked, cached, slot, run, signVars, envVars>>

\* The handler outlives the run's budget or raises.
Overrun(c) ==
  /\ faults < MaxFaults /\ faults' = faults + 1
  /\ call[c].pc \in HandlerSteps
  /\ \E status \in {"TIMED_OUT", "FAILED"} : EndsAs(c, status)
  /\ UNCHANGED <<autoVars, cached, slot, run, signVars, verdict, moves, due, phase, crashes>>

\* An await of the call outside the handler raises: the probe, the decision's
\* entry, resolving or storing the run.
Raise(c) ==
  /\ faults < MaxFaults /\ faults' = faults + 1
  /\ call[c].pc \in {"probed", "decided", "announced", "ran"}
  /\ GivesUp(c)
  /\ UNCHANGED <<tracked, cached, slot, run, signVars, verdict, moves, due, phase, crashes>>

-----------------------------------------------------------------------------
\* Signing and sending.

\* approve_package_half(): the package is read from the log.
TapReads(t, c, half) ==
  /\ tap[t].pc = "idle" /\ packages[c] # None
  /\ tap' = [tap EXCEPT ![t] = [pc |-> "signing", of |-> c, half |-> half, copy |-> packages[c]]]
  /\ UNCHANGED <<autoVars, cached, runVars, cards, packages, send, envVars>>

\* The approval is granted, whatever it was.
TapGrants(t) ==
  /\ tap[t].pc = "signing"
  /\ tap' = [tap EXCEPT ![t].pc = "granted"]
  /\ cards' = [cards EXCEPT ![tap[t].of][tap[t].half] = "GRANTED"]
  /\ UNCHANGED <<autoVars, cached, runVars, packages, send, envVars>>

\* The copy goes back into the log with the signature on it.
TapRecords(t) ==
  /\ tap[t].pc = "granted"
  /\ tap' = [tap EXCEPT ![t] = NoTap("done")]
  /\ packages' = IF LogOpen
       THEN [packages EXCEPT ![tap[t].of] = [tap[t].copy EXCEPT !.signed[tap[t].half] = t]]
       ELSE packages
  /\ UNCHANGED <<autoVars, cached, runVars, cards, send, envVars>>

\* Mutant: one signature is enough.
SomeSignature(p) == \E h \in Halves : p.signed[h] # None

BothSigned(p) == \A h \in Halves : p.signed[h] # None

\* dispatch_package(): a package already sent is returned as it is, one with a
\* signature outstanding refused.
SendReads(s, c) ==
  /\ send[s].pc = "idle" /\ packages[c] # None
  /\ packages[c].sent = None /\ BothSigned(packages[c])
  /\ send' = [send EXCEPT ![s] = [pc |-> "sending", of |-> c, copy |-> packages[c]]]
  /\ UNCHANGED <<autoVars, cached, runVars, cards, packages, tap, envVars>>

SendDecides(s) ==
  /\ send[s].pc = "sending"
  /\ cached' = Grant
  /\ send' = [send EXCEPT ![s] = IF Grant = "LIVE" /\ LogOpen
                                  THEN [@ EXCEPT !.pc = "permitted"] ELSE NoSend("done")]
  /\ UNCHANGED <<autoVars, runVars, cards, packages, tap, envVars>>

SendRecords(s) ==
  /\ send[s].pc = "permitted"
  /\ send' = [send EXCEPT ![s] = NoSend("done")]
  /\ packages' = IF LogOpen
       THEN [packages EXCEPT ![send[s].of] = [send[s].copy EXCEPT !.sent = s]]
       ELSE packages
  /\ UNCHANGED <<autoVars, cached, runVars, cards, tap, envVars>>

-----------------------------------------------------------------------------
\* The rest of the incident.

\* A frame, an intake, a resolution or a frame that ages out changes what the
\* criteria say.
Move(v) ==
  /\ moves < MaxMoves /\ v # verdict
  /\ verdict' = v /\ moves' = moves + 1
  /\ UNCHANGED <<autoVars, cached, runVars, signVars, due, phase, faults, crashes>>

PassDeadline ==
  /\ ~ due /\ due' = TRUE
  /\ UNCHANGED <<autoVars, cached, runVars, signVars, verdict, moves, phase, faults, crashes>>

\* close(): the stored grant is revoked -- the session's copy is not -- and the
\* log sealed.
Revoke ==
  /\ phase = "OPEN" /\ phase' = "REVOKED"
  /\ UNCHANGED <<autoVars, cached, runVars, signVars, verdict, moves, due, faults, crashes>>

Seal ==
  /\ phase = "REVOKED" /\ phase' = "SEALED"
  /\ UNCHANGED <<autoVars, cached, runVars, signVars, verdict, moves, due, faults, crashes>>

\* forget() cancels the timer wherever it is.  The runtime turns a
\* cancellation inside the handler into a result; anywhere else the call ends.
SilenceTimer ==
  IF call[Timer].pc \in HandlerSteps THEN EndsAs(Timer, "CANCELLED") ELSE Ends(Timer)

Forget ==
  /\ phase = "SEALED" /\ phase' = "FORGOTTEN"
  /\ tracked' = FALSE /\ cached' = "NONE" /\ slot' = None
  /\ SilenceTimer
  /\ auto' = IF call[Timer].pc \in Composing \ HandlerSteps
               THEN [auto EXCEPT !.composing = FALSE] ELSE auto
  /\ UNCHANGED <<run, signVars, verdict, moves, due, faults, crashes>>

\* The process restarts: its tasks, timers and dictionaries are gone.
Restart ==
  /\ crashes < MaxCrashes /\ crashes' = crashes + 1
  /\ tracked' = FALSE /\ auto' = NewAutonomy /\ cached' = "NONE" /\ slot' = None
  /\ call' = [c \in Composers |-> IF c \in Requests /\ call[c].pc = "idle"
                                    THEN call[c] ELSE At("done")]
  /\ tap' = [t \in Taps |-> IF tap[t].pc = "idle" THEN tap[t] ELSE NoTap("done")]
  /\ send' = [s \in Sends |-> IF send[s].pc = "idle" THEN send[s] ELSE NoSend("done")]
  /\ UNCHANGED <<run, cards, packages, verdict, moves, due, phase, faults>>

-----------------------------------------------------------------------------
\* What the call does next, failures aside.
ComposeStep(c) ==
  \/ Decide(c) \/ RecordDecision(c) \/ Authorise(c) \/ Assess(c)
  \/ \E half \in Halves : StageHalf(c, half)
  \/ RecordPackage(c) \/ EndHandler(c) \/ Collect(c) \/ Finish(c)

Next ==
  \/ \E c \in Composers : Probe(c) \/ StartRun(c) \/ ComposeStep(c) \/ Overrun(c) \/ Raise(c)
  \/ \E t \in Taps : \/ \E c \in Composers, half \in Halves : TapReads(t, c, half)
                     \/ TapGrants(t) \/ TapRecords(t)
  \/ \E s \in Sends : \/ \E c \in Composers : SendReads(s, c)
                      \/ SendDecides(s) \/ SendRecords(s)
  \/ \E v \in Verdicts : Move(v)
  \/ PassDeadline \/ Revoke \/ Seal \/ Forget \/ Restart

Spec == Init /\ [][Next]_vars

\* A composition that has begun goes on, and the timer wakes up.
FairSpec ==
  /\ Spec
  /\ \A c \in Composers : WF_vars(ComposeStep(c))
  /\ \A c \in Unprompted : WF_vars(StartRun(c))
  /\ WF_vars(Probe(Timer))
-----------------------------------------------------------------------------
\* Whatever fails, is cancelled or forgotten, the flag that keeps a second
\* composition out is up exactly while one unprompted composition is in flight
\* (AutonomyState.composing, _compose_unprompted's finally): never two at
\* once, and never a flag left behind that would silence every later hook.
ComposingIsHeld ==
  /\ auto.composing <=> \E c \in Unprompted : call[c].pc \in Composing
  /\ \A c, d \in Unprompted : call[c].pc \in Composing /\ call[d].pc \in Composing => c = d

\* A commander is not handed the same package twice in a row: an unprompted
\* composition that ends with the verdict of the package before it was decided
\* on a probe that had found another one (decide()'s material-change guard and
\* what _compose_unprompted remembers).
TwinNeedsMovedVerdict ==
  \A c \in Unprompted :
    call[c].pc = "sections" /\ auto.package # None /\ packages[auto.package].verdict = packages[call[c].got].verdict
      => call[c].seen # packages[call[c].got].verdict

\* However signatures and dispatches interleave on stale copies, a package that
\* says it was sent carries both signatures, and both approvals are granted
\* (dispatch_package, approve_package_half).
SentNeedsBothSignatures ==
  \A c \in Composers :
    packages[c] # None /\ packages[c].sent # None =>
      \A h \in Halves : packages[c].signed[h] # None /\ cards[c][h] = "GRANTED"

\* The record of a run is not left RUNNING by anything that happens to the
\* incident, a seal, a revocation or another composition: only by a restart, a
\* store that raises, or forgetting the timer while its run is being stored
\* (AgentFleet.run, domain/runs.py's first rule).
RunsAreClosed ==
  \A c \in Composers :
    call[c].pc = "done" /\ run[c] = "RUNNING" =>
      crashes > 0 \/ faults > 0 \/ (c = Timer /\ phase = "FORGOTTEN")

\* Once the session has forgotten the incident no composition starts, neither
\* one asked for nor one decided earlier: the grant read back is the revoked
\* one (forget, _require_grant, the runtime's check).
NoRunOnceForgotten ==
  [][phase = "FORGOTTEN" =>
       \A c \in Composers : (call[c].pc \in HandlerSteps)' => call[c].pc \in HandlerSteps]_vars

\* The deadline works whatever else composes or declines meanwhile: sooner or
\* later there is a package, unless a composition failed, the incident was
\* closed or the process restarted (_arm_deadline, _cancel_deadline, decide()).
PackageUnlessFailed ==
  <>(\/ \E c \in Composers : packages[c] # None
     \/ auto.failures > 0 \/ phase # "OPEN" \/ crashes > 0)
=============================================================================
