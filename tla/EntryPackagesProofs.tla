------------------------ MODULE EntryPackagesProofs ------------------------
(***************************************************************************)
(* That no interleaving of composers, signatures, dispatches, failures,    *)
(* the close and restarts breaks what EntryPackages promises: one          *)
(* unprompted composition at a time and none on an unmoved verdict, runs   *)
(* stored as they ended, nothing begun on a forgotten incident, and        *)
(* nothing sent without both signatures.                                   *)
(***************************************************************************)
EXTENDS EntryPackages, TLAPS

\* Before its package is in the log.
Early == {"idle", "probed", "decided", "announced", "run", "authorised", "assessed", "pathStaged", "briefStaged"}
Assessed == {"assessed", "pathStaged", "briefStaged"}

\* What a composer holds at a step, and what it has left behind.
CallOK(c) ==
  /\ call[c].pc \in {"probed", "decided", "announced"} => c \in Unprompted
  /\ call[c].pc \in Assessed => call[c].judged # None
  /\ call[c].pc \in Early => packages[c] = None
  /\ call[c].pc = "recorded" => packages[c] # None
  /\ call[c].pc = "ran" => call[c].result \in TerminalStatuses
  /\ call[c].pc = "sections" => call[c].got # None /\ packages[call[c].got] # None
CallsInv == (\A c \in Composers : CallOK(c)) /\ (slot # None => packages[slot] # None)

\* What the session remembers is a package of the log and its verdict, and no
\* composition on its way was decided on that verdict.
Remembers ==
  auto.package # None =>
    /\ packages[auto.package] # None /\ auto.signature = packages[auto.package].verdict
    /\ \A c \in Unprompted : call[c].pc \in Composing => call[c].seen # auto.signature

\* A run is stored as RUNNING while it runs.
RunOK(c) ==
  /\ call[c].pc \in {"idle", "probed", "decided", "announced"} => run[c] = "NONE"
  /\ run[c] = "RUNNING" =>
       \/ call[c].pc \in HandlerSteps \cup {"ran"}
       \/ crashes > 0 \/ faults > 0 \/ (c = Timer /\ phase = "FORGOTTEN")
RunsInv == \A c \in Composers : RunOK(c)

\* A forgotten incident's grant is read again, and it was revoked.
GrantInv == phase = "FORGOTTEN" => cached # "LIVE"

\* A version of package c, in the log or in somebody's hands: its signatures
\* are granted, and if it was sent it has both.
VersionOK(c, p) ==
  /\ p.verdict = packages[c].verdict
  /\ \A h \in Halves : p.signed[h] # None => cards[c][h] = "GRANTED"
  /\ p.sent # None => BothSigned(p)

TapOK(t) ==
  tap[t].pc \in {"signing", "granted"} =>
    /\ tap[t].of # None /\ packages[tap[t].of] # None
    /\ tap[t].copy # None /\ VersionOK(tap[t].of, tap[t].copy)
    /\ tap[t].pc = "granted" => cards[tap[t].of][tap[t].half] = "GRANTED"
SendOK(s) ==
  send[s].pc \in {"sending", "permitted"} =>
    /\ send[s].of # None /\ packages[send[s].of] # None
    /\ send[s].copy # None /\ VersionOK(send[s].of, send[s].copy) /\ BothSigned(send[s].copy)
SignInv ==
  /\ \A c \in Composers : packages[c] # None => VersionOK(c, packages[c])
  /\ \A t \in Taps : TapOK(t)
  /\ \A s \in Sends : SendOK(s)

IInv == TypeOK /\ CallsInv /\ ComposingIsHeld /\ Remembers /\ RunsInv /\ GrantInv /\ SignInv

-----------------------------------------------------------------------------
\* Where a call can be.
Steps == Composing \cup {"idle", "probed", "done"}

\* At most the call of c changes.
StepAt(c) == call' \in [Composers -> Call] /\ \A d \in Composers : d # c => call'[d] = call[d]

LEMMA Members ==
  /\ Timer \in Unprompted /\ Timer \in Composers /\ Unprompted \subseteq Composers /\ Requests \subseteq Composers
  /\ Unprompted \cap Requests = {} /\ Composers = Unprompted \cup Requests
  /\ None \notin Composers /\ None \notin Verdicts /\ None \notin Taps /\ None \notin Package
BY PackagesAssumption, PackageAssumption DEF Unprompted, Composers

LEMMA CallTyped ==
  ASSUME TypeOK, NEW c \in Composers
  PROVE  /\ call[c] \in Call /\ call[c].pc \in Steps
         /\ call[c].seen \in Verdicts \cup {None} /\ call[c].judged \in Verdicts \cup {None}
         /\ call[c].result \in RunStatus /\ call[c].got \in Composers \cup {None}
<1>1. call[c] \in Call
  BY DEF TypeOK
<1> QED
  BY <1>1 DEF Call, Steps

\* A call that becomes r.
LEMMA Becomes ==
  ASSUME TypeOK, NEW c \in Composers, NEW r \in Call, call' = [call EXCEPT ![c] = r]
  PROVE  StepAt(c) /\ call'[c] = r
<1>1. call \in [Composers -> Call]
  BY DEF TypeOK
<1> QED
  BY <1>1 DEF StepAt

LEMMA GoesOnEffect ==
  ASSUME TypeOK, NEW c \in Composers, NEW step \in Steps, GoesOn(c, step)
  PROVE  /\ StepAt(c) /\ call'[c].pc = step
         /\ call'[c].seen = call[c].seen /\ call'[c].judged = call[c].judged
         /\ call'[c].result = call[c].result /\ call'[c].got = call[c].got
<1> DEFINE r == [call[c] EXCEPT !.pc = step]
<1>1. call[c] \in Call
  BY CallTyped
<1>2. r \in Call /\ r.pc = step /\ r.seen = call[c].seen /\ r.judged = call[c].judged
      /\ r.result = call[c].result /\ r.got = call[c].got
  BY <1>1 DEF Call, Steps
<1>3. call' = [call EXCEPT ![c] = r]
  BY DEF GoesOn
<1> HIDE DEF r
<1> QED
  BY <1>2, <1>3, Becomes

LEMMA EndsAsEffect ==
  ASSUME TypeOK, NEW c \in Composers, NEW status \in RunStatus, EndsAs(c, status)
  PROVE  /\ StepAt(c) /\ call'[c].pc = "ran"
         /\ call'[c].seen = call[c].seen /\ call'[c].result = status
<1> DEFINE r == [pc |-> "ran", seen |-> call[c].seen, judged |-> call[c].judged,
                 result |-> status, got |-> call[c].got]
<1>1. r \in Call /\ r.pc = "ran" /\ r.seen = call[c].seen /\ r.result = status
  BY CallTyped DEF Call, Composing
<1>2. call' = [call EXCEPT ![c] = r]
  BY DEF EndsAs
<1> HIDE DEF r
<1> QED
  BY <1>1, <1>2, Becomes

LEMMA AtTyped ==
  ASSUME NEW step \in Steps
  PROVE  At(step) \in Call /\ At(step).pc = step
BY DEF At, Call, Steps, RunStatus

LEMMA EndsEffect ==
  ASSUME TypeOK, NEW c \in Composers, Ends(c)
  PROVE  StepAt(c) /\ call'[c].pc = "done"
<1>1. At("done") \in Call /\ At("done").pc = "done"
  BY AtTyped DEF Steps
<1> QED
  BY <1>1, Becomes DEF Ends

\* What one call's step needs to keep of each part of the invariant.
LEMMA CallsKeep ==
  ASSUME IInv, NEW c \in Composers, StepAt(c),
         \A d \in Composers : packages[d] # None => packages'[d] # None,
         \A d \in Composers : d # c => packages'[d] = packages[d],
         slot' # None => packages'[slot'] # None,
         CallOK(c)'
  PROVE  CallsInv'
<1>1. ASSUME NEW d \in Composers PROVE CallOK(d)'
  <2>1. CASE d = c
    BY <2>1
  <2>2. CASE d # c
    <3>1. CallOK(d) /\ call'[d] = call[d] /\ packages'[d] = packages[d]
      BY <2>2 DEF IInv, CallsInv, StepAt
    <3>2. call[d].got \in Composers \cup {None}
      BY CallTyped DEF IInv
    <3> QED
      BY <3>1, <3>2 DEF CallOK
  <2> QED
    BY <2>1, <2>2
<1> QED
  BY <1>1 DEF CallsInv

LEMMA RunsKeep ==
  ASSUME IInv, NEW c \in Composers, StepAt(c),
         \A d \in Composers : d # c => run'[d] = run[d],
         crashes > 0 => crashes' > 0, faults > 0 => faults' > 0,
         phase = "FORGOTTEN" => phase' = "FORGOTTEN",
         RunOK(c)'
  PROVE  RunsInv'
<1>1. ASSUME NEW d \in Composers, d # c PROVE RunOK(d)'
  <2>1. RunOK(d) /\ call'[d] = call[d] /\ run'[d] = run[d]
    BY <1>1 DEF IInv, RunsInv, StepAt
  <2> QED
    BY <2>1 DEF RunOK
<1> QED
  BY <1>1 DEF RunsInv

\* A step of a call that composes already and goes on composing, or of a
\* request.
LEMMA ComposingKeeps ==
  ASSUME IInv, NEW c \in Composers, StepAt(c), UNCHANGED auto,
         \A d \in Composers : packages[d] # None => packages'[d] # None /\ packages'[d].verdict = packages[d].verdict,
         c \in Unprompted =>
           /\ call'[c].pc \in Composing <=> call[c].pc \in Composing
           /\ call'[c].pc \in Composing => call'[c].seen = call[c].seen
  PROVE  ComposingIsHeld' /\ Remembers'
<1>1. \A d \in Unprompted : call'[d].pc \in Composing <=> call[d].pc \in Composing
  BY Members DEF StepAt
<1>2. \A d \in Unprompted : call'[d].pc \in Composing => call'[d].seen = call[d].seen
  BY Members DEF StepAt
<1>3. ComposingIsHeld'
  BY <1>1 DEF IInv, ComposingIsHeld
<1>4. Remembers'
  <2>1. auto.package \in Composers \cup {None}
    BY DEF IInv, TypeOK, AutonomyState
  <2> QED
    BY <1>1, <1>2, <2>1 DEF IInv, Remembers
<1> QED
  BY <1>3, <1>4

\* Signing does not look at the calls.
LEMMA SignsKeep ==
  ASSUME IInv, UNCHANGED signVars
  PROVE  SignInv'
BY DEF IInv, SignInv, VersionOK, TapOK, SendOK, signVars, BothSigned

-----------------------------------------------------------------------------
\* What giving up does, whoever does it.
LEMMA GivesUpEffect ==
  ASSUME IInv, NEW c \in Composers, GivesUp(c)
  PROVE  /\ StepAt(c) /\ call'[c].pc = "done" /\ auto' \in AutonomyState
         /\ auto'.package = auto.package /\ auto'.signature = auto.signature
         /\ c \in Unprompted => (auto'.composing <=> auto.composing /\ call[c].pc \notin Composing)
         /\ c \notin Unprompted => auto' = auto
<1>1. auto \in AutonomyState
  BY DEF IInv, TypeOK
<1> DEFINE a == [composing |-> auto.composing /\ call[c].pc \notin Composing,
                 package |-> auto.package, signature |-> auto.signature,
                 failures |-> auto.failures + 1]
<1>2. a \in AutonomyState
  BY <1>1 DEF AutonomyState
<1>3. auto' = IF c \in Unprompted THEN a ELSE auto
  BY DEF GivesUp
<1>4. StepAt(c) /\ call'[c].pc = "done"
  BY EndsEffect DEF GivesUp, IInv
<1> QED
  BY <1>1, <1>2, <1>3, <1>4

\* When a call is over, what it was composing is in flight no more.
LEMMA OverKeeps ==
  ASSUME IInv, NEW c \in Composers, StepAt(c), call'[c].pc = "done", UNCHANGED packages,
         auto'.package = auto.package, auto'.signature = auto.signature,
         c \in Unprompted => (auto'.composing <=> auto.composing /\ call[c].pc \notin Composing),
         c \notin Unprompted => auto' = auto
  PROVE  ComposingIsHeld' /\ Remembers'
<1>1. "done" \notin Composing
  BY DEF Composing, HandlerSteps
<1>2. \A d \in Unprompted : d # c => call'[d] = call[d]
  BY Members DEF StepAt
<1>3. ComposingIsHeld'
  BY <1>1, <1>2 DEF IInv, ComposingIsHeld
<1>4. Remembers'
  BY <1>1, <1>2 DEF IInv, Remembers
<1> QED
  BY <1>3, <1>4

LEMMA ComposerKeeps ==
  ASSUME IInv, NEW c \in Composers, StepAt(c), UNCHANGED <<signVars, phase>>,
         TypeOK', CallOK(c)', RunOK(c)', slot' # None => packages'[slot'] # None,
         \A d \in Composers : d # c => run'[d] = run[d],
         crashes > 0 => crashes' > 0, faults > 0 => faults' > 0,
         ComposingIsHeld' /\ Remembers', phase = "FORGOTTEN" => cached' # "LIVE"
  PROVE  IInv'
<1>1. CallsInv'
  BY CallsKeep DEF signVars
<1>2. RunsInv'
  BY RunsKeep
<1>3. SignInv'
  BY SignsKeep
<1> QED
  BY <1>1, <1>2, <1>3 DEF IInv, GrantInv

-----------------------------------------------------------------------------
(* One lemma for each action. *)

LEMMA ProbeKeeps ==
  ASSUME IInv, NEW c \in Composers, Probe(c)
  PROVE  IInv'
<1> DEFINE r == [pc |-> "probed", seen |-> verdict, judged |-> None, result |-> "NONE", got |-> None]
<1>1. r \in Call /\ r.pc = "probed"
  BY DEF IInv, TypeOK, Call, RunStatus
<1>2. call' = [call EXCEPT ![c] = r] /\ call[c].pc = "idle"
  BY DEF Probe
<1>3. UNCHANGED <<autoVars, cached, slot, run, signVars, envVars>>
  BY DEF Probe
<1> HIDE DEF r
<1>4. StepAt(c) /\ call'[c].pc = "probed"
  BY <1>1, <1>2, Becomes DEF IInv
<1>5. TypeOK'
  BY <1>3, <1>4 DEF IInv, TypeOK, StepAt, autoVars, signVars, envVars
<1>6. CallOK(c)' /\ RunOK(c)'
  <2>1. CallOK(c) /\ RunOK(c)
    BY DEF IInv, CallsInv, RunsInv
  <2> QED
    BY <1>2, <1>3, <1>4, <2>1 DEF Probe, CallOK, RunOK, Early, Assessed, HandlerSteps, signVars, envVars
<1>7. ComposingIsHeld' /\ Remembers'
  <2>1. call[c].pc \notin Composing /\ call'[c].pc \notin Composing
    BY <1>2, <1>4 DEF Composing, HandlerSteps
  <2> QED
    BY <1>3, <1>4, <2>1, ComposingKeeps DEF autoVars, signVars
<1> QED
  BY <1>3, <1>4, <1>5, <1>6, <1>7, ComposerKeeps DEF IInv, GrantInv, CallsInv, signVars, envVars

\* Whatever becomes of the call, a decision is its first step of composing.
LEMMA DecideKeeps ==
  ASSUME IInv, NEW c \in Composers, Decide(c)
  PROVE  IInv'
<1>1. call[c].pc = "probed" /\ UNCHANGED <<tracked, cached, slot, run, signVars, envVars>>
  BY DEF Decide
<1>2. CallOK(c) /\ RunOK(c) /\ c \in Unprompted
  BY <1>1 DEF IInv, CallsInv, RunsInv, CallOK
<1>3. ASSUME StepAt(c), call'[c].pc \in {"decided", "done"}, auto' \in AutonomyState,
             ComposingIsHeld', Remembers'
      PROVE  IInv'
  <2>1. TypeOK'
    BY <1>1, <1>3 DEF IInv, TypeOK, StepAt, signVars, envVars
  <2>2. CallOK(c)' /\ RunOK(c)'
    BY <1>1, <1>2, <1>3 DEF CallOK, RunOK, Early, Assessed, HandlerSteps, signVars, envVars
  <2> QED
    BY <1>1, <1>3, <2>1, <2>2, ComposerKeeps DEF IInv, GrantInv, CallsInv, signVars, envVars
<1>4. CASE Decides(c) /\ auto' = [auto EXCEPT !.composing = TRUE] /\ GoesOn(c, "decided")
  <2>1. StepAt(c) /\ call'[c].pc = "decided" /\ call'[c].seen = call[c].seen
    BY <1>4, GoesOnEffect DEF IInv, Steps, Composing
  <2>2. /\ auto' \in AutonomyState /\ auto'.composing
        /\ auto'.package = auto.package /\ auto'.signature = auto.signature
    BY <1>4 DEF IInv, TypeOK, AutonomyState
  <2>3. \A d \in Unprompted : call[d].pc \notin Composing
    BY <1>4 DEF IInv, ComposingIsHeld, Decides
  <2>4. "decided" \in Composing
    BY DEF Composing
  <2>5. \A d \in Unprompted : d # c => call'[d].pc \notin Composing
    BY <2>1, <2>3, Members DEF StepAt
  <2>6. ComposingIsHeld'
    BY <1>2, <2>1, <2>2, <2>4, <2>5 DEF ComposingIsHeld
  <2>7. Remembers'
    <3>1. auto.package # None => call[c].seen # auto.signature
      BY <1>4 DEF Decides
    <3> QED
      BY <1>1, <2>1, <2>2, <2>5, <3>1 DEF IInv, Remembers, signVars
  <2> QED
    BY <1>3, <2>1, <2>2, <2>6, <2>7
<1>5. CASE Ends(c) /\ UNCHANGED auto
  <2>1. StepAt(c) /\ call'[c].pc = "done"
    BY <1>5, EndsEffect DEF IInv
  <2>2. call[c].pc \notin Composing
    BY <1>1 DEF Composing, HandlerSteps
  <2>3. ComposingIsHeld' /\ Remembers'
    BY <1>1, <1>5, <2>1, <2>2, OverKeeps DEF signVars
  <2> QED
    BY <1>3, <1>5, <2>1, <2>3 DEF IInv, TypeOK
<1> QED
  BY <1>1, <1>4, <1>5 DEF Decide

LEMMA RecordDecisionKeeps ==
  ASSUME IInv, NEW c \in Composers, RecordDecision(c)
  PROVE  IInv'
<1>1. call[c].pc = "decided" /\ UNCHANGED <<tracked, cached, slot, run, signVars, envVars>>
  BY DEF RecordDecision
<1>2. CallOK(c) /\ RunOK(c)
  BY DEF IInv, CallsInv, RunsInv
<1>3. ASSUME StepAt(c), call'[c].pc \in {"announced", "done"}, auto' \in AutonomyState,
             ComposingIsHeld', Remembers'
      PROVE  IInv'
  <2>1. TypeOK'
    BY <1>1, <1>3 DEF IInv, TypeOK, StepAt, signVars, envVars
  <2>2. CallOK(c)' /\ RunOK(c)'
    BY <1>1, <1>2, <1>3 DEF CallOK, RunOK, Early, Assessed, HandlerSteps, signVars, envVars
  <2> QED
    BY <1>1, <1>3, <2>1, <2>2, ComposerKeeps DEF IInv, GrantInv, CallsInv, signVars, envVars
<1>4. CASE GoesOn(c, "announced") /\ UNCHANGED auto
  <2>1. StepAt(c) /\ call'[c].pc = "announced" /\ call'[c].seen = call[c].seen
    BY <1>4, GoesOnEffect DEF IInv, Steps, Composing
  <2>2. call[c].pc \in Composing /\ call'[c].pc \in Composing
    BY <1>1, <2>1 DEF Composing
  <2>3. ComposingIsHeld' /\ Remembers'
    BY <1>1, <1>4, <2>1, <2>2, ComposingKeeps DEF signVars
  <2> QED
    BY <1>3, <1>4, <2>1, <2>3 DEF IInv, TypeOK
<1>5. CASE GivesUp(c)
  BY <1>1, <1>3, <1>5, GivesUpEffect, OverKeeps DEF signVars
<1> QED
  BY <1>4, <1>5 DEF RecordDecision

\* A step inside the run: the call goes on composing and the run runs.
LEMMA InsideKeeps ==
  ASSUME IInv, NEW c \in Composers, StepAt(c), UNCHANGED <<autoVars, run, signVars, verdict, moves, due, phase, crashes>>,
         faults' \in Nat, faults' >= faults, slot' \in Composers \cup {None}, slot' # None => packages'[slot'] # None,
         cached' \in {cached, Grant}, call[c].pc \in HandlerSteps, call'[c].pc \in HandlerSteps \cup {"ran"},
         call'[c].seen = call[c].seen, CallOK(c)'
  PROVE  IInv'
<1>1. cached' \in {"LIVE", "REVOKED", "NONE"} /\ (phase = "FORGOTTEN" => cached' # "LIVE")
  BY DEF IInv, TypeOK, GrantInv, Grant, StoredGrant
<1>2. TypeOK'
  BY <1>1 DEF IInv, TypeOK, StepAt, autoVars, signVars
<1>3. RunOK(c)'
  <2>1. RunOK(c)
    BY DEF IInv, RunsInv
  <2> QED
    BY <2>1 DEF RunOK, HandlerSteps
<1>4. call[c].pc \in Composing /\ call'[c].pc \in Composing
  BY DEF Composing
<1>5. ComposingIsHeld' /\ Remembers'
  BY <1>4, ComposingKeeps DEF autoVars, signVars
<1>6. faults > 0 => faults' > 0
  BY DEF IInv, TypeOK
<1> QED
  BY <1>1, <1>2, <1>3, <1>5, <1>6, ComposerKeeps

LEMMA AuthoriseKeeps ==
  ASSUME IInv, NEW c \in Composers, Authorise(c)
  PROVE  IInv'
<1>1. call[c].pc = "run" /\ cached' = Grant /\ UNCHANGED <<autoVars, slot, run, signVars, envVars>>
  BY DEF Authorise
<1>2. CallOK(c)
  BY DEF IInv, CallsInv
<1>3. CASE GoesOn(c, "authorised")
  <2>1. StepAt(c) /\ call'[c].pc = "authorised" /\ call'[c].seen = call[c].seen
    BY <1>3, GoesOnEffect DEF IInv, Steps, Composing, HandlerSteps
  <2>2. CallOK(c)'
    BY <1>1, <1>2, <2>1 DEF CallOK, Early, Assessed, signVars
  <2> QED
    BY <1>1, <2>1, <2>2, InsideKeeps DEF IInv, TypeOK, CallsInv, HandlerSteps, envVars, signVars
<1>4. CASE EndsAs(c, "FAILED")
  <2>1. StepAt(c) /\ call'[c].pc = "ran" /\ call'[c].seen = call[c].seen /\ call'[c].result = "FAILED"
    BY <1>4, EndsAsEffect DEF IInv, RunStatus, TerminalStatuses
  <2>2. CallOK(c)'
    BY <2>1 DEF CallOK, Early, Assessed, TerminalStatuses
  <2> QED
    BY <1>1, <2>1, <2>2, InsideKeeps DEF IInv, TypeOK, CallsInv, HandlerSteps, envVars, signVars
<1> QED
  BY <1>3, <1>4 DEF Authorise

LEMMA AssessKeeps ==
  ASSUME IInv, NEW c \in Composers, Assess(c)
  PROVE  IInv'
<1>1. call[c].pc = "authorised" /\ UNCHANGED <<autoVars, cached, slot, run, signVars, envVars>>
  BY DEF Assess
<1>2. CallOK(c)
  BY DEF IInv, CallsInv
<1>3. CASE LogOpen
  <2> DEFINE r == [pc |-> "assessed", seen |-> call[c].seen, judged |-> verdict,
                   result |-> call[c].result, got |-> call[c].got]
  <2>1. r \in Call /\ r.pc = "assessed" /\ r.seen = call[c].seen /\ r.judged = verdict
    BY CallTyped DEF IInv, TypeOK, Call, Composing, HandlerSteps
  <2>2. call' = [call EXCEPT ![c] = r]
    BY <1>3 DEF Assess
  <2> HIDE DEF r
  <2>3. StepAt(c) /\ call'[c] = r
    BY <2>1, <2>2, Becomes DEF IInv
  <2>4. CallOK(c)'
    BY <1>1, <1>2, <2>1, <2>3, Members DEF CallOK, Early, Assessed, signVars, IInv, TypeOK
  <2> QED
    BY <1>1, <2>1, <2>3, <2>4, InsideKeeps DEF IInv, TypeOK, CallsInv, HandlerSteps, envVars, signVars
<1>4. CASE ~ LogOpen
  <2>1. StepAt(c) /\ call'[c].pc = "ran" /\ call'[c].seen = call[c].seen /\ call'[c].result = "FAILED"
    BY <1>4, EndsAsEffect DEF IInv, RunStatus, TerminalStatuses, Assess
  <2>2. CallOK(c)'
    BY <2>1 DEF CallOK, Early, Assessed, TerminalStatuses
  <2> QED
    BY <1>1, <2>1, <2>2, InsideKeeps DEF IInv, TypeOK, CallsInv, HandlerSteps, envVars, signVars
<1> QED
  BY <1>3, <1>4

LEMMA EndHandlerKeeps ==
  ASSUME IInv, NEW c \in Composers, EndHandler(c)
  PROVE  IInv'
<1>1. call[c].pc = "recorded" /\ UNCHANGED <<autoVars, cached, run, signVars, envVars>>
  BY DEF EndHandler
<1>2. PICK status \in TerminalStatuses : EndsAs(c, status)
  BY DEF EndHandler, TerminalStatuses
<1>3. StepAt(c) /\ call'[c].pc = "ran" /\ call'[c].seen = call[c].seen /\ call'[c].result = status
  BY <1>2, EndsAsEffect DEF IInv, RunStatus
<1>4. CallOK(c)'
  BY <1>3 DEF CallOK, Early, Assessed
<1>5. slot' \in {slot, c} /\ packages[c] # None
  BY <1>1 DEF EndHandler, IInv, CallsInv, CallOK
<1> QED
  BY <1>1, <1>3, <1>4, <1>5, InsideKeeps DEF IInv, TypeOK, CallsInv, HandlerSteps, envVars, signVars

LEMMA OverrunKeeps ==
  ASSUME IInv, NEW c \in Composers, Overrun(c)
  PROVE  IInv'
<1>1. /\ call[c].pc \in HandlerSteps /\ faults' = faults + 1
      /\ UNCHANGED <<autoVars, cached, slot, run, signVars, verdict, moves, due, phase, crashes>>
  BY DEF Overrun
<1>2. PICK status \in TerminalStatuses : EndsAs(c, status)
  BY DEF Overrun, TerminalStatuses
<1>3. StepAt(c) /\ call'[c].pc = "ran" /\ call'[c].seen = call[c].seen /\ call'[c].result = status
  BY <1>2, EndsAsEffect DEF IInv, RunStatus
<1>4. CallOK(c)'
  BY <1>3 DEF CallOK, Early, Assessed
<1> QED
  BY <1>1, <1>3, <1>4, InsideKeeps DEF IInv, TypeOK, CallsInv, signVars

LEMMA StartRunKeeps ==
  ASSUME IInv, NEW c \in Composers, StartRun(c)
  PROVE  IInv'
<1>1. /\ call[c].pc \in {"idle", "announced"} /\ (c \in Unprompted => call[c].pc = "announced")
      /\ cached' = Grant /\ run' = [run EXCEPT ![c] = "RUNNING"]
      /\ UNCHANGED <<autoVars, slot, signVars, envVars>>
  BY Members DEF StartRun
<1>2. CallOK(c)
  BY DEF IInv, CallsInv
<1>3. cached' \in {"LIVE", "REVOKED", "NONE"} /\ (phase = "FORGOTTEN" => cached' # "LIVE")
  BY <1>1 DEF IInv, TypeOK, GrantInv, Grant, StoredGrant
<1>4. run' \in [Composers -> RunStatus] /\ \A d \in Composers : d # c => run'[d] = run[d]
  BY <1>1 DEF IInv, TypeOK, RunStatus
<1>5. ASSUME StepAt(c), call'[c].pc \in {"run", "ran"}, call'[c].seen = call[c].seen, CallOK(c)'
      PROVE  IInv'
  <2>1. TypeOK'
    BY <1>1, <1>3, <1>4, <1>5 DEF IInv, TypeOK, StepAt, autoVars, signVars, envVars
  <2>2. RunOK(c)'
    BY <1>5 DEF RunOK, HandlerSteps
  <2>3. call'[c].pc \in Composing /\ (c \in Unprompted => call[c].pc \in Composing)
    BY <1>1, <1>5 DEF Composing, HandlerSteps
  <2>4. ComposingIsHeld' /\ Remembers'
    BY <1>1, <1>5, <2>3, ComposingKeeps DEF autoVars, signVars
  <2> QED
    BY <1>1, <1>3, <1>4, <1>5, <2>1, <2>2, <2>4, ComposerKeeps DEF IInv, CallsInv, signVars, envVars
<1>6. CASE GoesOn(c, "run")
  <2>1. StepAt(c) /\ call'[c].pc = "run" /\ call'[c].seen = call[c].seen
    BY <1>6, GoesOnEffect DEF IInv, Steps, Composing, HandlerSteps
  <2>2. CallOK(c)'
    BY <1>1, <1>2, <2>1 DEF CallOK, Early, Assessed, signVars
  <2> QED
    BY <1>5, <2>1, <2>2
<1>7. CASE EndsAs(c, "DENIED")
  <2>1. StepAt(c) /\ call'[c].pc = "ran" /\ call'[c].seen = call[c].seen /\ call'[c].result = "DENIED"
    BY <1>7, EndsAsEffect DEF IInv, RunStatus, TerminalStatuses
  <2>2. CallOK(c)'
    BY <2>1 DEF CallOK, Early, Assessed, TerminalStatuses
  <2> QED
    BY <1>5, <2>1, <2>2
<1> QED
  BY <1>6, <1>7 DEF StartRun

LEMMA CollectKeeps ==
  ASSUME IInv, NEW c \in Composers, Collect(c)
  PROVE  IInv'
<1>1. /\ call[c].pc = "ran" /\ run' = [run EXCEPT ![c] = call[c].result] /\ slot' = None
      /\ UNCHANGED <<tracked, cached, signVars, envVars>>
  BY DEF Collect, SavedRun
<1>2. call[c].result \in TerminalStatuses /\ (slot # None => packages[slot] # None)
  BY <1>1 DEF IInv, CallsInv, CallOK
<1>3. /\ run' \in [Composers -> RunStatus] /\ run'[c] \in TerminalStatuses
      /\ \A d \in Composers : d # c => run'[d] = run[d]
  BY <1>1, <1>2 DEF IInv, TypeOK, RunStatus
<1>4. ASSUME StepAt(c), call'[c].pc \in {"sections", "done"}, auto' \in AutonomyState, CallOK(c)',
             ComposingIsHeld', Remembers'
      PROVE  IInv'
  <2>1. TypeOK'
    BY <1>1, <1>3, <1>4 DEF IInv, TypeOK, StepAt, signVars, envVars
  <2>2. RunOK(c)'
    BY <1>3, <1>4 DEF RunOK, TerminalStatuses
  <2> QED
    BY <1>1, <1>3, <1>4, <2>1, <2>2, ComposerKeeps DEF IInv, GrantInv, signVars, envVars
<1>5. CASE slot = None /\ GivesUp(c)
  <2>1. StepAt(c) /\ call'[c].pc = "done" /\ auto' \in AutonomyState
    BY <1>5, GivesUpEffect
  <2>2. CallOK(c)'
    BY <2>1 DEF CallOK, Early, Assessed
  <2>3. ComposingIsHeld' /\ Remembers'
    BY <1>1, <1>5, GivesUpEffect, OverKeeps DEF signVars
  <2> QED
    BY <1>4, <2>1, <2>2, <2>3
<1>6. CASE slot # None
  <2> DEFINE r == [pc |-> "sections", seen |-> call[c].seen, judged |-> call[c].judged,
                   result |-> call[c].result, got |-> slot]
  <2>1. r \in Call /\ r.pc = "sections" /\ r.seen = call[c].seen /\ r.got = slot
    BY CallTyped DEF IInv, TypeOK, Call, Composing
  <2>2. call' = [call EXCEPT ![c] = r] /\ UNCHANGED auto
    BY <1>6 DEF Collect
  <2> HIDE DEF r
  <2>3. StepAt(c) /\ call'[c] = r
    BY <2>1, <2>2, Becomes DEF IInv
  <2>4. CallOK(c)'
    BY <1>1, <1>2, <1>6, <2>1, <2>3 DEF CallOK, Early, Assessed, signVars
  <2>5. call[c].pc \in Composing /\ call'[c].pc \in Composing
    BY <1>1, <2>1, <2>3 DEF Composing
  <2>6. ComposingIsHeld' /\ Remembers'
    BY <1>1, <2>1, <2>2, <2>3, <2>5, ComposingKeeps DEF signVars
  <2> QED
    BY <1>4, <2>1, <2>2, <2>3, <2>4, <2>6 DEF IInv, TypeOK
<1> QED
  BY <1>5, <1>6 DEF Collect

LEMMA RaiseKeeps ==
  ASSUME IInv, NEW c \in Composers, Raise(c)
  PROVE  IInv'
<1>1. /\ GivesUp(c) /\ faults' = faults + 1
      /\ UNCHANGED <<tracked, cached, slot, run, signVars, verdict, moves, due, phase, crashes>>
  BY DEF Raise
<1>2. StepAt(c) /\ call'[c].pc = "done" /\ auto' \in AutonomyState
  BY <1>1, GivesUpEffect
<1>3. TypeOK' /\ faults' > 0
  BY <1>1, <1>2 DEF IInv, TypeOK, StepAt, signVars
<1>4. CallOK(c)' /\ RunOK(c)'
  BY <1>2, <1>3 DEF CallOK, RunOK, Early, Assessed
<1>5. ComposingIsHeld' /\ Remembers'
  BY <1>1, GivesUpEffect, OverKeeps DEF signVars
<1> QED
  BY <1>1, <1>2, <1>3, <1>4, <1>5, ComposerKeeps DEF IInv, GrantInv, CallsInv, signVars

\* A version of a package that was good stays good while verdicts stand and
\* granted approvals stay granted.
LEMMA VersionsSurvive ==
  ASSUME NEW c \in Composers, NEW p, VersionOK(c, p), packages'[c].verdict = packages[c].verdict,
         \A h \in Halves : cards[c][h] = "GRANTED" => cards'[c][h] = "GRANTED"
  PROVE  VersionOK(c, p)'
BY DEF VersionOK, BothSigned

\* A step inside the run that writes the cards or the package of its own call,
\* of which nobody holds a version yet.
LEMMA WritingKeeps ==
  ASSUME IInv, NEW c \in Composers, StepAt(c), UNCHANGED <<autoVars, cached, slot, run, tap, send, envVars>>,
         cards' \in [Composers -> [Halves -> CardStatus]], packages' \in [Composers -> Package \cup {None}],
         \A d \in Composers : d # c => cards'[d] = cards[d] /\ packages'[d] = packages[d],
         packages[c] = None, packages'[c] # None => VersionOK(c, packages[c])',
         call[c].pc \in HandlerSteps, call'[c].pc \in HandlerSteps, call'[c].seen = call[c].seen, CallOK(c)'
  PROVE  IInv'
<1>1. TypeOK'
  BY DEF IInv, TypeOK, StepAt, autoVars, envVars
<1>2. CallsInv'
  <2>1. slot # None => packages'[slot] # None
    BY DEF IInv, TypeOK, CallsInv
  <2> QED
    BY <2>1, CallsKeep
<1>3. ComposingIsHeld' /\ Remembers'
  BY ComposingKeeps DEF Composing, autoVars
<1>4. RunsInv'
  <2>1. RunOK(c)'
    BY DEF RunOK, HandlerSteps
  <2> QED
    BY <2>1, RunsKeep DEF envVars
<1>5. SignInv'
  <2>1. ASSUME NEW d \in Composers, packages[d] # None, NEW p, VersionOK(d, p) PROVE VersionOK(d, p)'
    BY <2>1, VersionsSurvive
  <2>2. ASSUME NEW d \in Composers, packages'[d] # None PROVE VersionOK(d, packages[d])'
    BY <2>1, <2>2 DEF IInv, SignInv
  <2>3. ASSUME NEW t \in Taps PROVE TapOK(t)'
    <3>1. TapOK(t) /\ tap' = tap /\ tap[t].of \in Composers \cup {None}
      BY DEF IInv, SignInv, TypeOK, Signing
    <3> QED
      BY <2>1, <3>1 DEF TapOK
  <2>4. ASSUME NEW s \in Sends PROVE SendOK(s)'
    <3>1. SendOK(s) /\ send' = send /\ send[s].of \in Composers \cup {None}
      BY DEF IInv, SignInv, TypeOK, Sending
    <3> QED
      BY <2>1, <3>1 DEF SendOK, BothSigned
  <2> QED
    BY <2>2, <2>3, <2>4 DEF SignInv
<1> QED
  BY <1>1, <1>2, <1>3, <1>4, <1>5 DEF IInv, GrantInv, envVars

LEMMA StageHalfKeeps ==
  ASSUME IInv, NEW c \in Composers, NEW half \in Halves, StageHalf(c, half)
  PROVE  IInv'
<1> DEFINE step == IF half = "path" THEN "pathStaged" ELSE "briefStaged"
<1>1. /\ call[c].pc \in {"assessed", "pathStaged"} /\ GoesOn(c, step)
      /\ cards' = [cards EXCEPT ![c][half] = "STAGED"]
      /\ UNCHANGED <<autoVars, cached, slot, run, packages, tap, send, envVars>>
  BY DEF StageHalf
<1>2. step \in {"pathStaged", "briefStaged"}
  OBVIOUS
<1> HIDE DEF step
<1>3. /\ StepAt(c) /\ call'[c].pc = step /\ call'[c].seen = call[c].seen /\ call'[c].judged = call[c].judged
  BY <1>1, <1>2, GoesOnEffect DEF IInv, Steps, Composing, HandlerSteps
<1>4. /\ cards' \in [Composers -> [Halves -> CardStatus]]
      /\ \A d \in Composers : d # c => cards'[d] = cards[d]
  BY <1>1 DEF IInv, TypeOK, CardStatus
<1>5. packages[c] = None /\ call[c].judged # None
  BY <1>1 DEF IInv, CallsInv, CallOK, Early, Assessed
<1>6. CallOK(c)'
  BY <1>1, <1>2, <1>3, <1>5 DEF CallOK, Early, Assessed
<1> QED
  BY <1>1, <1>2, <1>3, <1>4, <1>5, <1>6, WritingKeeps DEF HandlerSteps, IInv, TypeOK

LEMMA RecordPackageKeeps ==
  ASSUME IInv, NEW c \in Composers, RecordPackage(c)
  PROVE  IInv'
<1>1. call[c].pc = "briefStaged" /\ UNCHANGED <<autoVars, cached, slot, run, cards, tap, send, envVars>>
  BY DEF RecordPackage
<1>2. packages[c] = None /\ call[c].judged # None
  BY <1>1 DEF IInv, CallsInv, CallOK, Early, Assessed
<1>3. CASE LogOpen
  <2> DEFINE p == [verdict |-> call[c].judged, signed |-> [h \in Halves |-> None], sent |-> None]
  <2>1. p \in Package /\ p.sent = None /\ p.verdict = call[c].judged /\ \A h \in Halves : p.signed[h] = None
    BY <1>2, CallTyped DEF IInv, Package
  <2>2. packages' = [packages EXCEPT ![c] = p] /\ GoesOn(c, "recorded")
    BY <1>3 DEF RecordPackage
  <2> HIDE DEF p
  <2>3. StepAt(c) /\ call'[c].pc = "recorded" /\ call'[c].seen = call[c].seen
    BY <2>2, GoesOnEffect DEF IInv, Steps, Composing, HandlerSteps
  <2>4. /\ packages' \in [Composers -> Package \cup {None}] /\ packages'[c] = p
        /\ \A d \in Composers : d # c => packages'[d] = packages[d]
    BY <2>1, <2>2 DEF IInv, TypeOK
  <2>5. VersionOK(c, packages[c])'
    BY <2>1, <2>4 DEF VersionOK
  <2>6. CallOK(c)'
    BY <2>1, <2>3, <2>4, Members DEF CallOK, Early, Assessed
  <2> QED
    BY <1>1, <1>2, <2>3, <2>4, <2>5, <2>6, WritingKeeps DEF HandlerSteps, IInv, TypeOK
<1>4. CASE ~ LogOpen
  <2>1. StepAt(c) /\ call'[c].pc = "ran" /\ call'[c].seen = call[c].seen /\ call'[c].result = "FAILED"
    BY <1>4, EndsAsEffect DEF IInv, RunStatus, TerminalStatuses, RecordPackage
  <2>2. CallOK(c)' /\ UNCHANGED packages
    BY <1>4, <2>1 DEF CallOK, Early, Assessed, TerminalStatuses, RecordPackage
  <2> QED
    BY <1>1, <2>1, <2>2, InsideKeeps DEF IInv, TypeOK, CallsInv, HandlerSteps, envVars, signVars
<1> QED
  BY <1>3, <1>4

-----------------------------------------------------------------------------
(* Signing and sending. *)

\* A step of a tap or of a send.
LEMMA SigningKeeps ==
  ASSUME IInv, UNCHANGED <<autoVars, runVars, envVars>>, cached' \in {cached, Grant},
         cards' \in [Composers -> [Halves -> CardStatus]], packages' \in [Composers -> Package \cup {None}],
         tap' \in [Taps -> Signing], send' \in [Sends -> Sending],
         \A d \in Composers : /\ packages'[d] = None <=> packages[d] = None
                              /\ packages[d] # None => packages'[d].verdict = packages[d].verdict,
         SignInv'
  PROVE  IInv'
<1>1. cached' \in {"LIVE", "REVOKED", "NONE"} /\ (phase = "FORGOTTEN" => cached' # "LIVE")
  BY DEF IInv, TypeOK, GrantInv, Grant, StoredGrant
<1>2. TypeOK'
  BY <1>1 DEF IInv, TypeOK, autoVars, runVars, envVars
<1>3. CallsInv'
  <2>1. ASSUME NEW c \in Composers PROVE CallOK(c)'
    <3>1. CallOK(c) /\ call[c].got \in Composers \cup {None}
      BY CallTyped DEF IInv, CallsInv
    <3> QED
      BY <3>1 DEF CallOK, runVars
  <2>2. slot \in Composers \cup {None} /\ slot' = slot /\ (slot # None => packages[slot] # None)
    BY DEF IInv, TypeOK, CallsInv, runVars
  <2> QED
    BY <2>1, <2>2 DEF CallsInv
<1>4. ComposingIsHeld'
  BY DEF IInv, ComposingIsHeld, autoVars, runVars
<1>5. Remembers'
  <2>1. auto.package \in Composers \cup {None}
    BY DEF IInv, TypeOK, AutonomyState
  <2> QED
    BY <2>1 DEF IInv, Remembers, autoVars, runVars
<1>6. RunsInv'
  BY DEF IInv, RunsInv, RunOK, runVars, envVars
<1> QED
  BY <1>1, <1>2, <1>3, <1>4, <1>5, <1>6 DEF IInv, GrantInv, envVars

\* Such a step keeps the versions it does not write.
LEMMA OthersSurvive ==
  ASSUME IInv,
         \A d \in Composers : packages[d] # None =>
           /\ packages'[d] # None /\ packages'[d].verdict = packages[d].verdict
           /\ \A h \in Halves : cards[d][h] = "GRANTED" => cards'[d][h] = "GRANTED"
  PROVE  /\ \A d \in Composers, p \in Package : packages[d] # None /\ VersionOK(d, p) => VersionOK(d, p)'
         /\ \A t \in Taps : tap'[t] = tap[t] => TapOK(t)'
         /\ \A s \in Sends : send'[s] = send[s] => SendOK(s)'
<1>1. ASSUME NEW d \in Composers, NEW p, packages[d] # None, VersionOK(d, p)
      PROVE  VersionOK(d, p)'
  BY <1>1, VersionsSurvive
<1>2. ASSUME NEW t \in Taps, tap'[t] = tap[t] PROVE TapOK(t)'
  <2>1. TapOK(t) /\ tap[t].of \in Composers \cup {None} /\ tap[t].half \in Halves
    BY DEF IInv, SignInv, TypeOK, Signing
  <2> QED
    BY <1>1, <1>2, <2>1 DEF TapOK
<1>3. ASSUME NEW s \in Sends, send'[s] = send[s] PROVE SendOK(s)'
  <2>1. SendOK(s) /\ send[s].of \in Composers \cup {None}
    BY DEF IInv, SignInv, TypeOK, Sending
  <2> QED
    BY <1>1, <1>3, <2>1 DEF SendOK, BothSigned
<1> QED
  BY <1>1, <1>2, <1>3

\* A tap that becomes r, or a send, in a step that writes no package.
LEMMA TapBecomes ==
  ASSUME TypeOK, NEW t \in Taps, NEW r \in Signing, tap' = [tap EXCEPT ![t] = r]
  PROVE  /\ tap' \in [Taps -> Signing] /\ tap'[t] = r
         /\ \A u \in Taps : u # t => tap'[u] = tap[u]
<1>1. tap \in [Taps -> Signing]
  BY DEF TypeOK
<1> QED
  BY <1>1

LEMMA SendBecomes ==
  ASSUME TypeOK, NEW s \in Sends, NEW r \in Sending, send' = [send EXCEPT ![s] = r]
  PROVE  /\ send' \in [Sends -> Sending] /\ send'[s] = r
         /\ \A u \in Sends : u # s => send'[u] = send[u]
<1>1. send \in [Sends -> Sending]
  BY DEF TypeOK
<1> QED
  BY <1>1

LEMMA Holds ==
  ASSUME TypeOK
  PROVE  /\ \A t \in Taps : /\ tap[t] \in Signing /\ tap[t].half \in Halves
                            /\ tap[t].of \in Composers \cup {None} /\ tap[t].copy \in Package \cup {None}
         /\ \A s \in Sends : /\ send[s] \in Sending /\ send[s].of \in Composers \cup {None}
                             /\ send[s].copy \in Package \cup {None}
<1>1. tap \in [Taps -> Signing] /\ send \in [Sends -> Sending]
  BY DEF TypeOK
<1> QED
  BY <1>1 DEF Signing, Sending

LEMMA NoneHeld ==
  /\ NoTap("done") \in Signing /\ NoTap("done").pc = "done"
  /\ NoSend("done") \in Sending /\ NoSend("done").pc = "done"
BY DEF NoTap, NoSend, Signing, Sending, Halves

LEMMA TapReadsKeeps ==
  ASSUME IInv, NEW t \in Taps, NEW c \in Composers, NEW half \in Halves, TapReads(t, c, half)
  PROVE  IInv'
<1>1. packages[c] # None /\ packages[c] \in Package
  BY DEF TapReads, IInv, TypeOK
<1>2. PICK r \in Signing : /\ r = [pc |-> "signing", of |-> c, half |-> half, copy |-> packages[c]]
                          /\ r.pc = "signing" /\ r.of = c /\ r.copy = packages[c]
  <2> DEFINE q == [pc |-> "signing", of |-> c, half |-> half, copy |-> packages[c]]
  <2>1. q \in Signing /\ q.pc = "signing" /\ q.of = c /\ q.copy = packages[c]
    BY <1>1 DEF Signing
  <2> QED
    BY <2>1, Zenon
<1>3. tap' = [tap EXCEPT ![t] = r] /\ UNCHANGED <<autoVars, cached, runVars, cards, packages, send, envVars>>
  BY <1>2 DEF TapReads
<1>4. tap' \in [Taps -> Signing] /\ tap'[t] = r /\ \A u \in Taps : u # t => tap'[u] = tap[u]
  BY <1>2, <1>3, TapBecomes DEF IInv
<1>5. /\ \A d \in Composers, p \in Package : packages[d] # None /\ VersionOK(d, p) => VersionOK(d, p)'
      /\ \A u \in Taps : tap'[u] = tap[u] => TapOK(u)'
      /\ \A u \in Sends : send'[u] = send[u] => SendOK(u)'
  BY <1>3, OthersSurvive
<1>6. TapOK(t)'
  <2>1. VersionOK(c, packages[c])
    BY <1>1 DEF IInv, SignInv
  <2>2. VersionOK(c, r.copy)'
    BY <1>1, <1>2, <1>5, <2>1
  <2> QED
    BY <1>1, <1>2, <1>3, <1>4, <2>2, Members DEF TapOK
<1>7. \A d \in Composers : packages'[d] # None => VersionOK(d, packages[d])'
  BY <1>3 DEF IInv, SignInv, VersionOK, BothSigned
<1>8. SignInv'
  BY <1>3, <1>4, <1>5, <1>6, <1>7 DEF SignInv
<1> QED
  BY <1>3, <1>4, <1>8, SigningKeeps DEF IInv, TypeOK

LEMMA TapGrantsKeeps ==
  ASSUME IInv, NEW t \in Taps, TapGrants(t)
  PROVE  IInv'
<1>1. TapOK(t) /\ tap[t].pc = "signing" /\ tap[t] \in Signing
  BY Holds DEF IInv, SignInv, TapGrants
<1>2. PICK c \in Composers, half \in Halves, p \in Package :
        /\ c = tap[t].of /\ half = tap[t].half /\ p = tap[t].copy
        /\ packages[c] # None /\ VersionOK(c, p)
  BY <1>1, Holds DEF TapOK, IInv
<1>3. PICK r \in Signing : /\ r = [tap[t] EXCEPT !.pc = "granted"]
                          /\ r.pc = "granted" /\ r.of = c /\ r.copy = p /\ r.half = half
  <2> DEFINE q == [tap[t] EXCEPT !.pc = "granted"]
  <2>1. q \in Signing /\ q.pc = "granted" /\ q.of = c /\ q.copy = p /\ q.half = half
    BY <1>1, <1>2 DEF Signing
  <2> QED
    BY <2>1, Zenon
<1>4. /\ tap' = [tap EXCEPT ![t] = r] /\ cards' = [cards EXCEPT ![c][half] = "GRANTED"]
      /\ UNCHANGED <<autoVars, cached, runVars, packages, send, envVars>>
  BY <1>2, <1>3 DEF TapGrants
<1>5. tap' \in [Taps -> Signing] /\ tap'[t] = r /\ \A u \in Taps : u # t => tap'[u] = tap[u]
  BY <1>3, <1>4, TapBecomes DEF IInv
<1>6. /\ cards' \in [Composers -> [Halves -> CardStatus]] /\ cards'[c][half] = "GRANTED"
      /\ \A d \in Composers, h \in Halves : cards[d][h] = "GRANTED" => cards'[d][h] = "GRANTED"
  <2>1. cards \in [Composers -> [Halves -> CardStatus]]
    BY DEF IInv, TypeOK
  <2> QED
    BY <1>1, <1>2, <1>4, <2>1 DEF CardStatus
<1>7. /\ \A d \in Composers, v \in Package : packages[d] # None /\ VersionOK(d, v) => VersionOK(d, v)'
      /\ \A u \in Taps : tap'[u] = tap[u] => TapOK(u)'
      /\ \A u \in Sends : send'[u] = send[u] => SendOK(u)'
  BY <1>4, <1>6, OthersSurvive
<1>8. TapOK(t)'
  <2>1. VersionOK(c, p)'
    BY <1>2, <1>7
  <2> QED
    BY <1>2, <1>3, <1>4, <1>5, <1>6, <2>1, Members DEF TapOK
<1>9. \A d \in Composers : packages'[d] # None => VersionOK(d, packages[d])'
  BY <1>4, <1>7 DEF IInv, SignInv, TypeOK
<1>10. SignInv'
  BY <1>4, <1>5, <1>7, <1>8, <1>9 DEF SignInv
<1> QED
  BY <1>4, <1>5, <1>6, <1>10, SigningKeeps DEF IInv, TypeOK

\* A version with one more signature on it.
LEMMA SignedBy ==
  ASSUME NEW p \in Package, NEW half \in Halves, NEW t \in Taps
  PROVE  LET q == [p EXCEPT !.signed[half] = t]
         IN  /\ q \in Package /\ q.verdict = p.verdict /\ q.sent = p.sent
             /\ q.signed[half] = t /\ \A h \in Halves : h # half => q.signed[h] = p.signed[h]
<1>1. p.signed \in [Halves -> Taps \cup {None}]
  BY DEF Package
<1> QED
  BY <1>1 DEF Package

\* A good version written back whole, in the place of whatever was written
\* since it was read.
LEMMA WrittenBack ==
  ASSUME IInv, NEW c \in Composers, NEW q \in Package, packages[c] # None, VersionOK(c, q),
         UNCHANGED cards, packages' = IF LogOpen THEN [packages EXCEPT ![c] = q] ELSE packages
  PROVE  /\ packages' \in [Composers -> Package \cup {None}]
         /\ \A d \in Composers : /\ packages'[d] = None <=> packages[d] = None
                                 /\ packages[d] # None => packages'[d].verdict = packages[d].verdict
                                 /\ packages'[d] # None => VersionOK(d, packages[d])'
         /\ \A t \in Taps : tap'[t] = tap[t] => TapOK(t)'
         /\ \A s \in Sends : send'[s] = send[s] => SendOK(s)'
<1>1. packages \in [Composers -> Package \cup {None}] /\ q # None /\ q.verdict = packages[c].verdict
  BY Members DEF IInv, TypeOK, VersionOK
<1>2. packages' \in [Composers -> Package \cup {None}] /\ packages'[c] \in {packages[c], q}
      /\ \A d \in Composers : d # c => packages'[d] = packages[d]
  BY <1>1
<1>3. \A d \in Composers : /\ packages'[d] = None <=> packages[d] = None
                           /\ packages[d] # None => packages'[d].verdict = packages[d].verdict
  BY <1>1, <1>2
<1>4. /\ \A d \in Composers, p \in Package : packages[d] # None /\ VersionOK(d, p) => VersionOK(d, p)'
      /\ \A t \in Taps : tap'[t] = tap[t] => TapOK(t)'
      /\ \A s \in Sends : send'[s] = send[s] => SendOK(s)'
  BY <1>3, OthersSurvive
<1>5. ASSUME NEW d \in Composers, packages'[d] # None PROVE VersionOK(d, packages[d])'
  <2>1. packages[d] # None /\ packages'[d] \in Package
    BY <1>2, <1>3, <1>5
  <2>2. PICK p \in Package : p = packages'[d]
    BY <2>1
  <2>3. VersionOK(d, p)
    BY <1>1, <1>2, <2>1, <2>2 DEF IInv, SignInv
  <2>4. VersionOK(d, p)'
    BY <1>4, <2>1, <2>3
  <2> QED
    BY <2>2, <2>4
<1> QED
  BY <1>2, <1>3, <1>4, <1>5

LEMMA TapRecordsKeeps ==
  ASSUME IInv, NEW t \in Taps, TapRecords(t)
  PROVE  IInv'
<1>1. TapOK(t) /\ tap[t].pc = "granted"
  BY DEF IInv, SignInv, TapRecords
<1>2. PICK c \in Composers, half \in Halves, p \in Package :
        /\ c = tap[t].of /\ half = tap[t].half /\ p = tap[t].copy
        /\ packages[c] # None /\ VersionOK(c, p) /\ cards[c][half] = "GRANTED"
  BY <1>1, Holds DEF TapOK, IInv
<1>3. PICK q \in Package : /\ q = [p EXCEPT !.signed[half] = t]
                           /\ q.verdict = p.verdict /\ q.sent = p.sent /\ q.signed[half] = t
                           /\ \A h \in Halves : h # half => q.signed[h] = p.signed[h]
  BY SignedBy, Zenon
<1>4. VersionOK(c, q)
  BY <1>2, <1>3, Members DEF VersionOK, BothSigned
<1>5. /\ packages' = IF LogOpen THEN [packages EXCEPT ![c] = q] ELSE packages
      /\ tap' = [tap EXCEPT ![t] = NoTap("done")]
      /\ UNCHANGED <<autoVars, cached, runVars, cards, send, envVars>>
  BY <1>2, <1>3 DEF TapRecords
<1>6. /\ tap' \in [Taps -> Signing] /\ tap'[t].pc = "done"
      /\ \A u \in Taps : u # t => tap'[u] = tap[u]
  BY <1>5, NoneHeld, TapBecomes DEF IInv
<1>7. /\ packages' \in [Composers -> Package \cup {None}]
      /\ \A d \in Composers : /\ packages'[d] = None <=> packages[d] = None
                              /\ packages[d] # None => packages'[d].verdict = packages[d].verdict
                              /\ packages'[d] # None => VersionOK(d, packages[d])'
      /\ \A u \in Taps : tap'[u] = tap[u] => TapOK(u)'
      /\ \A u \in Sends : send'[u] = send[u] => SendOK(u)'
  BY <1>2, <1>4, <1>5, WrittenBack
<1>8. TapOK(t)'
  BY <1>6 DEF TapOK
<1>9. SignInv'
  BY <1>5, <1>6, <1>7, <1>8 DEF SignInv
<1> QED
  BY <1>5, <1>6, <1>7, <1>9, SigningKeeps DEF IInv, TypeOK

LEMMA SendReadsKeeps ==
  ASSUME IInv, NEW s \in Sends, NEW c \in Composers, SendReads(s, c)
  PROVE  IInv'
<1>1. packages[c] # None /\ packages[c] \in Package /\ BothSigned(packages[c]) /\ VersionOK(c, packages[c])
  BY DEF SendReads, IInv, TypeOK, SignInv
<1>2. PICK p \in Package : p = packages[c]
  BY <1>1
<1>3. PICK r \in Sending : /\ r = [pc |-> "sending", of |-> c, copy |-> p]
                           /\ r.pc = "sending" /\ r.of = c /\ r.copy = p
  <2> DEFINE q == [pc |-> "sending", of |-> c, copy |-> p]
  <2>1. q \in Sending /\ q.pc = "sending" /\ q.of = c /\ q.copy = p
    BY DEF Sending
  <2> QED
    BY <2>1, Zenon
<1>4. send' = [send EXCEPT ![s] = r] /\ UNCHANGED <<autoVars, cached, runVars, cards, packages, tap, envVars>>
  BY <1>2, <1>3 DEF SendReads
<1>5. send' \in [Sends -> Sending] /\ send'[s] = r /\ \A u \in Sends : u # s => send'[u] = send[u]
  BY <1>4, SendBecomes DEF IInv
<1>6. /\ \A d \in Composers, v \in Package : packages[d] # None /\ VersionOK(d, v) => VersionOK(d, v)'
      /\ \A u \in Taps : tap'[u] = tap[u] => TapOK(u)'
      /\ \A u \in Sends : send'[u] = send[u] => SendOK(u)'
  BY <1>4, OthersSurvive
<1>7. SendOK(s)'
  <2>1. VersionOK(c, p)' /\ BothSigned(p)
    BY <1>1, <1>2, <1>6
  <2> QED
    BY <1>1, <1>3, <1>4, <1>5, <2>1, Members DEF SendOK, BothSigned
<1>8. \A d \in Composers : packages'[d] # None => VersionOK(d, packages[d])'
  BY <1>4 DEF IInv, SignInv, VersionOK, BothSigned
<1>9. SignInv'
  BY <1>4, <1>5, <1>6, <1>7, <1>8 DEF SignInv
<1> QED
  BY <1>4, <1>5, <1>9, SigningKeeps DEF IInv, TypeOK

LEMMA SendDecidesKeeps ==
  ASSUME IInv, NEW s \in Sends, SendDecides(s)
  PROVE  IInv'
<1>1. SendOK(s) /\ send[s].pc = "sending"
  BY DEF IInv, SignInv, SendDecides
<1>2. PICK c \in Composers, p \in Package :
        /\ c = send[s].of /\ p = send[s].copy
        /\ packages[c] # None /\ VersionOK(c, p) /\ BothSigned(p)
  BY <1>1, Holds DEF SendOK, IInv
<1>3. PICK r \in Sending : /\ send' = [send EXCEPT ![s] = r]
                           /\ r.pc = "permitted" => r.of = c /\ r.copy = p
                           /\ r.pc \in {"permitted", "done"}
  <2>1. CASE Grant = "LIVE" /\ LogOpen
    <3> DEFINE q == [send[s] EXCEPT !.pc = "permitted"]
    <3>1. q \in Sending /\ q.pc = "permitted" /\ q.of = c /\ q.copy = p
      BY <1>2, Holds DEF Sending, IInv
    <3>2. send' = [send EXCEPT ![s] = q]
      BY <2>1 DEF SendDecides
    <3> HIDE DEF q
    <3> QED
      BY <3>1, <3>2
  <2>2. CASE ~ (Grant = "LIVE" /\ LogOpen)
    <3>1. send' = [send EXCEPT ![s] = NoSend("done")]
      BY <2>2 DEF SendDecides
    <3> QED
      BY <3>1, NoneHeld
  <2> QED
    BY <2>1, <2>2
<1>4. cached' = Grant /\ UNCHANGED <<autoVars, runVars, cards, packages, tap, envVars>>
  BY DEF SendDecides
<1>5. send' \in [Sends -> Sending] /\ send'[s] = r /\ \A u \in Sends : u # s => send'[u] = send[u]
  BY <1>3, SendBecomes DEF IInv
<1>6. /\ \A d \in Composers, v \in Package : packages[d] # None /\ VersionOK(d, v) => VersionOK(d, v)'
      /\ \A u \in Taps : tap'[u] = tap[u] => TapOK(u)'
      /\ \A u \in Sends : send'[u] = send[u] => SendOK(u)'
  BY <1>4, OthersSurvive
<1>7. SendOK(s)'
  <2>1. VersionOK(c, p)' /\ BothSigned(p)
    BY <1>2, <1>6
  <2> QED
    BY <1>2, <1>3, <1>4, <1>5, <2>1, Members DEF SendOK, BothSigned
<1>8. \A d \in Composers : packages'[d] # None => VersionOK(d, packages[d])'
  BY <1>4 DEF IInv, SignInv, VersionOK, BothSigned
<1>9. SignInv'
  BY <1>4, <1>5, <1>6, <1>7, <1>8 DEF SignInv
<1> QED
  BY <1>4, <1>5, <1>9, SigningKeeps DEF IInv, TypeOK

LEMMA SendRecordsKeeps ==
  ASSUME IInv, NEW s \in Sends, SendRecords(s)
  PROVE  IInv'
<1>1. SendOK(s) /\ send[s].pc = "permitted"
  BY DEF IInv, SignInv, SendRecords
<1>2. PICK c \in Composers, p \in Package :
        /\ c = send[s].of /\ p = send[s].copy
        /\ packages[c] # None /\ VersionOK(c, p) /\ BothSigned(p)
  BY <1>1, Holds DEF SendOK, IInv
<1>3. PICK q \in Package : q = [p EXCEPT !.sent = s] /\ q.verdict = p.verdict /\ q.signed = p.signed
  <2> DEFINE r == [p EXCEPT !.sent = s]
  <2>1. r \in Package /\ r.verdict = p.verdict /\ r.signed = p.signed
    BY DEF Package
  <2> QED
    BY <2>1, Zenon
<1>4. VersionOK(c, q)
  BY <1>2, <1>3 DEF VersionOK, BothSigned
<1>5. /\ packages' = IF LogOpen THEN [packages EXCEPT ![c] = q] ELSE packages
      /\ send' = [send EXCEPT ![s] = NoSend("done")]
      /\ UNCHANGED <<autoVars, cached, runVars, cards, tap, envVars>>
  BY <1>2, <1>3 DEF SendRecords
<1>6. /\ send' \in [Sends -> Sending] /\ send'[s].pc = "done"
      /\ \A u \in Sends : u # s => send'[u] = send[u]
  BY <1>5, NoneHeld, SendBecomes DEF IInv
<1>7. /\ packages' \in [Composers -> Package \cup {None}]
      /\ \A d \in Composers : /\ packages'[d] = None <=> packages[d] = None
                              /\ packages[d] # None => packages'[d].verdict = packages[d].verdict
                              /\ packages'[d] # None => VersionOK(d, packages[d])'
      /\ \A u \in Taps : tap'[u] = tap[u] => TapOK(u)'
      /\ \A u \in Sends : send'[u] = send[u] => SendOK(u)'
  BY <1>2, <1>4, <1>5, WrittenBack
<1>8. SendOK(s)'
  BY <1>6 DEF SendOK
<1>9. SignInv'
  BY <1>5, <1>6, <1>7, <1>8 DEF SignInv
<1> QED
  BY <1>5, <1>6, <1>7, <1>9, SigningKeeps DEF IInv, TypeOK

-----------------------------------------------------------------------------
(* Steps that end calls, and those of the rest of the incident. *)

\* A call that is over, or whose handler was cancelled.
Cut(d) ==
  \/ call'[d] = call[d]
  \/ call'[d].pc = "done"
  \/ call'[d].pc = "ran" /\ call[d].pc \in HandlerSteps /\ call'[d].seen = call[d].seen
                        /\ call'[d].result \in TerminalStatuses

LEMMA CutKeeps ==
  ASSUME IInv, \A d \in Composers : Cut(d), UNCHANGED <<run, packages>>, slot' \in {slot, None},
         crashes > 0 => crashes' > 0, faults > 0 => faults' > 0, phase = "FORGOTTEN" => phase' = "FORGOTTEN",
         \A d \in Composers : call'[d].pc = "done" /\ run[d] = "RUNNING" /\ call[d].pc # "done" =>
           crashes' > 0 \/ faults' > 0 \/ (d = Timer /\ phase' = "FORGOTTEN")
  PROVE  CallsInv' /\ RunsInv'
<1>1. ASSUME NEW d \in Composers PROVE CallOK(d)'
  <2>1. CallOK(d) /\ Cut(d)
    BY DEF IInv, CallsInv
  <2> QED
    BY <2>1 DEF CallOK, Cut, Early, Assessed
<1>2. ASSUME NEW d \in Composers PROVE RunOK(d)'
  <2>1. RunOK(d) /\ Cut(d)
    BY DEF IInv, RunsInv
  <2> QED
    BY <2>1 DEF RunOK, Cut, HandlerSteps
<1>3. slot' # None => packages'[slot'] # None
  BY DEF IInv, CallsInv
<1> QED
  BY <1>1, <1>2, <1>3 DEF CallsInv, RunsInv

LEMMA FinishKeeps ==
  ASSUME IInv, NEW c \in Composers, Finish(c)
  PROVE  IInv'
<1>1. call[c].pc = "sections" /\ UNCHANGED <<tracked, cached, slot, run, signVars, envVars>>
  BY DEF Finish
<1>2. /\ call[c].got \in Composers /\ packages[call[c].got] # None
      /\ packages[call[c].got] \in Package /\ packages[call[c].got].verdict \in Verdicts
  <2>1. call[c].got \in Composers /\ packages[call[c].got] # None
    BY <1>1, CallTyped DEF IInv, CallsInv, CallOK
  <2> QED
    BY <2>1 DEF IInv, TypeOK, Package
<1>3. call \in [Composers -> Call] /\ At("done") \in Call /\ At("done").pc = "done"
  BY AtTyped DEF IInv, TypeOK, Steps
<1>4. /\ call' \in [Composers -> Call] /\ call'[c].pc = "done"
      /\ \A d \in Composers : d # c =>
           \/ call'[d] = call[d]
           \/ call'[d].pc = "done" /\ call[d].pc \in {"idle", "probed"}
  BY <1>3, Members DEF Finish, Cancelled, Ends
<1>5. /\ auto' \in AutonomyState
      /\ IF c \in Unprompted
           THEN /\ ~ auto'.composing /\ auto'.package = call[c].got
                /\ auto'.signature = packages[call[c].got].verdict
           ELSE auto' = auto
  <2> DEFINE a == [composing |-> FALSE, package |-> call[c].got,
                   signature |-> packages[call[c].got].verdict, failures |-> auto.failures]
  <2>1. /\ a \in AutonomyState /\ ~ a.composing /\ a.package = call[c].got
        /\ a.signature = packages[call[c].got].verdict
    BY <1>2 DEF IInv, TypeOK, AutonomyState
  <2>2. auto' = IF c \in Unprompted THEN a ELSE auto
    BY DEF Finish, Remembered
  <2> HIDE DEF a
  <2> QED
    BY <2>1, <2>2 DEF IInv, TypeOK
<1>6. TypeOK'
  BY <1>1, <1>4, <1>5 DEF IInv, TypeOK, signVars, envVars
<1>7. CallsInv' /\ RunsInv'
  <2>1. \A d \in Composers : Cut(d)
    BY <1>4 DEF Cut
  <2>2. ASSUME NEW d \in Composers, call'[d].pc = "done", run[d] = "RUNNING", call[d].pc # "done"
        PROVE  crashes > 0 \/ faults > 0 \/ (d = Timer /\ phase = "FORGOTTEN")
    <3>1. RunOK(d)
      BY DEF IInv, RunsInv
    <3>2. call[d].pc \in {"idle", "probed", "sections"}
      BY <1>1, <1>4, <2>2
    <3> QED
      BY <2>2, <3>1, <3>2 DEF RunOK, HandlerSteps
  <2> QED
    BY <1>1, <2>1, <2>2, CutKeeps DEF signVars, envVars
<1>8. \A d \in Composers : d # c => (call'[d].pc \in Composing <=> call[d].pc \in Composing)
  BY <1>4 DEF Composing, HandlerSteps
<1>9. "sections" \in Composing /\ "done" \notin Composing
  BY DEF Composing, HandlerSteps
<1>10. ComposingIsHeld' /\ Remembers'
  <2>1. CASE c \in Unprompted
    <3>1. \A d \in Unprompted : call'[d].pc \notin Composing
      BY <1>1, <1>4, <1>8, <1>9, <2>1, Members DEF IInv, ComposingIsHeld
    <3> QED
      BY <1>1, <1>2, <1>5, <2>1, <3>1 DEF ComposingIsHeld, Remembers, signVars
  <2>2. CASE c \notin Unprompted
    <3>1. \A d \in Unprompted : call'[d].pc \in Composing <=> call[d].pc \in Composing
      BY <1>8, <2>2, Members
    <3>2. \A d \in Unprompted : call'[d].pc \in Composing => call'[d].seen = call[d].seen
      BY <1>4, <1>9, <2>2, Members
    <3> QED
      BY <1>1, <1>5, <2>2, <3>1, <3>2 DEF IInv, ComposingIsHeld, Remembers, signVars
  <2> QED
    BY <2>1, <2>2
<1>11. SignInv'
  BY <1>1, SignsKeep
<1> QED
  BY <1>1, <1>6, <1>7, <1>10, <1>11 DEF IInv, GrantInv, envVars

LEMMA MoveKeeps ==
  ASSUME IInv, NEW v \in Verdicts, Move(v)
  PROVE  IInv'
<1>1. /\ verdict' = v /\ moves' = moves + 1
      /\ UNCHANGED <<autoVars, cached, runVars, signVars, due, phase, faults, crashes>>
  BY DEF Move
<1>2. TypeOK'
  BY <1>1 DEF IInv, TypeOK, autoVars, runVars, signVars
<1>3. SignInv'
  BY <1>1, SignsKeep
<1> QED
  BY <1>1, <1>2, <1>3 DEF IInv, CallsInv, CallOK, ComposingIsHeld, Remembers, RunsInv, RunOK,
                          GrantInv, autoVars, runVars, signVars

\* The deadline passes, the grant is revoked, the log sealed.
LEMMA ClockAndCloseKeep ==
  ASSUME IInv, PassDeadline \/ Revoke \/ Seal
  PROVE  IInv'
<1>1. /\ due' \in BOOLEAN /\ phase' \in {"OPEN", "REVOKED", "SEALED", "FORGOTTEN"}
      /\ (phase' = "FORGOTTEN" <=> phase = "FORGOTTEN")
      /\ UNCHANGED <<autoVars, cached, runVars, signVars, verdict, moves, faults, crashes>>
  BY DEF PassDeadline, Revoke, Seal, IInv, TypeOK
<1>2. TypeOK'
  BY <1>1 DEF IInv, TypeOK, autoVars, runVars, signVars
<1>3. SignInv'
  BY <1>1, SignsKeep
<1> QED
  BY <1>1, <1>2, <1>3 DEF IInv, CallsInv, CallOK, ComposingIsHeld, Remembers, RunsInv, RunOK,
                          GrantInv, autoVars, runVars, signVars

LEMMA ForgetKeeps ==
  ASSUME IInv, Forget
  PROVE  IInv'
<1>1. /\ phase' = "FORGOTTEN" /\ tracked' = FALSE /\ cached' = "NONE" /\ slot' = None
      /\ UNCHANGED <<run, signVars, verdict, moves, due, faults, crashes>>
  BY DEF Forget
<1>2. /\ StepAt(Timer)
      /\ IF call[Timer].pc \in HandlerSteps
           THEN /\ call'[Timer].pc = "ran" /\ call'[Timer].seen = call[Timer].seen
                /\ call'[Timer].result = "CANCELLED"
           ELSE call'[Timer].pc = "done"
  BY EndsAsEffect, EndsEffect, Members DEF Forget, SilenceTimer, IInv, RunStatus, TerminalStatuses
<1>3. /\ auto' \in AutonomyState /\ auto'.package = auto.package /\ auto'.signature = auto.signature
      /\ auto'.composing <=> auto.composing /\ call[Timer].pc \notin Composing \ HandlerSteps
  BY DEF Forget, IInv, TypeOK, AutonomyState
<1>4. TypeOK'
  BY <1>1, <1>2, <1>3 DEF IInv, TypeOK, StepAt, signVars
<1>5. \A d \in Composers : Cut(d)
  BY <1>2 DEF Cut, StepAt, TerminalStatuses
<1>6. CallsInv' /\ RunsInv'
  BY <1>1, <1>2, <1>5, CutKeeps DEF StepAt, signVars
<1>7. ComposingIsHeld' /\ Remembers'
  <2>1. CASE call[Timer].pc \in HandlerSteps
    <3>1. call[Timer].pc \in Composing /\ call'[Timer].pc \in Composing
      BY <1>2, <2>1 DEF Composing
    <3>2. \A d \in Unprompted : /\ call'[d].pc \in Composing <=> call[d].pc \in Composing
                                /\ call'[d].seen = call[d].seen
      BY <1>2, <2>1, <3>1, Members DEF StepAt
    <3> QED
      BY <1>1, <1>3, <2>1, <3>2 DEF IInv, ComposingIsHeld, Remembers, signVars
  <2>2. CASE call[Timer].pc \notin HandlerSteps
    <3>1. call'[Timer].pc = "done"
      BY <1>2, <2>2
    <3>2. auto'.composing <=> auto.composing /\ call[Timer].pc \notin Composing
      BY <1>3, <2>2
    <3>3. "done" \notin Composing /\ \A d \in Unprompted : d # Timer => call'[d] = call[d]
      BY <1>2, Members DEF Composing, HandlerSteps, StepAt
    <3>4. ComposingIsHeld'
      BY <3>1, <3>2, <3>3, Members DEF IInv, ComposingIsHeld
    <3>5. Remembers'
      BY <1>1, <1>3, <3>1, <3>3 DEF IInv, Remembers, signVars
    <3> QED
      BY <3>4, <3>5
  <2> QED
    BY <2>1, <2>2
<1>8. SignInv'
  BY <1>1, SignsKeep
<1> QED
  BY <1>1, <1>4, <1>6, <1>7, <1>8 DEF IInv, GrantInv

LEMMA RestartKeeps ==
  ASSUME IInv, Restart
  PROVE  IInv'
<1>1. /\ crashes' = crashes + 1 /\ tracked' = FALSE /\ auto' = NewAutonomy /\ cached' = "NONE" /\ slot' = None
      /\ UNCHANGED <<run, cards, packages, verdict, moves, due, phase, faults>>
  BY DEF Restart
<1>2. crashes' > 0 /\ crashes' \in Nat /\ auto' \in AutonomyState /\ auto'.package = None /\ ~ auto'.composing
  BY <1>1 DEF IInv, TypeOK, NewAutonomy, AutonomyState
<1>3. At("done") \in Call /\ At("done").pc = "done"
  BY AtTyped DEF Steps
<1>4. /\ call' \in [Composers -> Call]
      /\ \A d \in Composers : (call'[d] = call[d] /\ d \in Requests) \/ call'[d].pc = "done"
  <2> DEFINE F(d) == IF d \in Requests /\ call[d].pc = "idle" THEN call[d] ELSE At("done")
  <2>1. \A d \in Composers : F(d) \in Call
    BY <1>3 DEF IInv, TypeOK
  <2>2. call' = [d \in Composers |-> F(d)]
    BY DEF Restart
  <2>3. \A d \in Composers : (F(d) = call[d] /\ d \in Requests) \/ F(d).pc = "done"
    BY <1>3
  <2> HIDE DEF F
  <2> QED
    BY <2>1, <2>2, <2>3
<1>5. /\ tap' \in [Taps -> Signing] /\ \A t \in Taps : tap'[t].pc \in {"idle", "done"}
  <2> DEFINE F(t) == IF tap[t].pc = "idle" THEN tap[t] ELSE NoTap("done")
  <2>1. \A t \in Taps : F(t) \in Signing /\ F(t).pc \in {"idle", "done"}
    BY NoneHeld, Holds DEF IInv
  <2>2. tap' = [t \in Taps |-> F(t)]
    BY DEF Restart
  <2> HIDE DEF F
  <2> QED
    BY <2>1, <2>2
<1>6. /\ send' \in [Sends -> Sending] /\ \A s \in Sends : send'[s].pc \in {"idle", "done"}
  <2> DEFINE F(s) == IF send[s].pc = "idle" THEN send[s] ELSE NoSend("done")
  <2>1. \A s \in Sends : F(s) \in Sending /\ F(s).pc \in {"idle", "done"}
    BY NoneHeld, Holds DEF IInv
  <2>2. send' = [s \in Sends |-> F(s)]
    BY DEF Restart
  <2> HIDE DEF F
  <2> QED
    BY <2>1, <2>2
<1>7. TypeOK'
  BY <1>1, <1>2, <1>4, <1>5, <1>6 DEF IInv, TypeOK
<1>8. CallsInv' /\ RunsInv'
  <2>1. \A d \in Composers : Cut(d)
    BY <1>4 DEF Cut
  <2> QED
    BY <1>1, <1>2, <2>1, CutKeeps
<1>9. \A d \in Unprompted : call'[d].pc \notin Composing
  BY <1>4, Members DEF Composing, HandlerSteps
<1>10. ComposingIsHeld' /\ Remembers'
  BY <1>2, <1>9 DEF ComposingIsHeld, Remembers
<1>11. SignInv'
  <2>1. \A c \in Composers : packages'[c] # None => VersionOK(c, packages[c])'
    BY <1>1 DEF IInv, SignInv, VersionOK, BothSigned
  <2>2. (\A t \in Taps : TapOK(t)') /\ \A s \in Sends : SendOK(s)'
    BY <1>5, <1>6 DEF TapOK, SendOK
  <2> QED
    BY <2>1, <2>2 DEF SignInv
<1> QED
  BY <1>1, <1>7, <1>8, <1>10, <1>11 DEF IInv, GrantInv

-----------------------------------------------------------------------------
LEMMA InitHolds ==
  ASSUME Init
  PROVE  IInv
<1>1. \A c \in Composers : call[c] = At("idle") /\ run[c] = "NONE" /\ packages[c] = None
  BY DEF Init
<1>2. At("idle") \in Call /\ At("idle").pc = "idle" /\ "idle" \notin Composing \cup {"done", "ran"}
  BY AtTyped DEF Steps, Composing, HandlerSteps
<1>3. TypeOK
  <2>1. auto \in AutonomyState
    BY DEF Init, NewAutonomy, AutonomyState
  <2>2. \A t \in Taps : tap[t] \in Signing
    BY DEF Init, NoTap, Signing, Halves
  <2>3. \A s \in Sends : send[s] \in Sending
    BY DEF Init, NoSend, Sending
  <2>4. call \in [Composers -> Call]
    BY <1>2 DEF Init
  <2>5. cards \in [Composers -> [Halves -> CardStatus]]
    BY DEF Init, CardStatus
  <2> QED
    BY <2>1, <2>2, <2>3, <2>4, <2>5, PackagesAssumption DEF Init, TypeOK, RunStatus
<1>4. CallsInv /\ RunsInv
  BY <1>1, <1>2 DEF Init, CallsInv, CallOK, RunsInv, RunOK, Assessed
<1>5. ComposingIsHeld /\ Remembers
  BY <1>1, <1>2, Members DEF Init, NewAutonomy, ComposingIsHeld, Remembers
<1>6. SignInv
  <2>1. (\A t \in Taps : tap[t].pc = "idle") /\ \A s \in Sends : send[s].pc = "idle"
    BY DEF Init, NoTap, NoSend
  <2> QED
    BY <1>1, <2>1 DEF SignInv, TapOK, SendOK
<1> QED
  BY <1>3, <1>4, <1>5, <1>6 DEF Init, IInv, GrantInv

LEMMA StutterKeeps ==
  ASSUME IInv, UNCHANGED vars
  PROVE  IInv'
<1>1. SignInv'
  BY SignsKeep DEF vars
<1>2. TypeOK'
  BY DEF IInv, TypeOK, vars, autoVars, runVars, signVars, envVars
<1> QED
  BY <1>1, <1>2 DEF IInv, CallsInv, CallOK, ComposingIsHeld, Remembers, RunsInv, RunOK,
                    GrantInv, vars, autoVars, runVars, signVars, envVars

LEMMA StepKeeps ==
  ASSUME IInv, [Next]_vars
  PROVE  IInv'
<1>1. ASSUME NEW c \in Composers, Probe(c) \/ StartRun(c) \/ ComposeStep(c) \/ Overrun(c) \/ Raise(c)
      PROVE  IInv'
  <2>1. ASSUME ComposeStep(c) PROVE IInv'
    BY <2>1, DecideKeeps, RecordDecisionKeeps, AuthoriseKeeps, AssessKeeps, StageHalfKeeps,
       RecordPackageKeeps, EndHandlerKeeps, CollectKeeps, FinishKeeps DEF ComposeStep
  <2> QED
    BY <1>1, <2>1, ProbeKeeps, StartRunKeeps, OverrunKeeps, RaiseKeeps
<1>2. ASSUME NEW t \in Taps, \/ \E c \in Composers, half \in Halves : TapReads(t, c, half)
                             \/ TapGrants(t) \/ TapRecords(t)
      PROVE  IInv'
  BY <1>2, TapReadsKeeps, TapGrantsKeeps, TapRecordsKeeps
<1>3. ASSUME NEW s \in Sends, \/ \E c \in Composers : SendReads(s, c)
                              \/ SendDecides(s) \/ SendRecords(s)
      PROVE  IInv'
  BY <1>3, SendReadsKeeps, SendDecidesKeeps, SendRecordsKeeps
<1>4. ASSUME (\E v \in Verdicts : Move(v)) \/ PassDeadline \/ Revoke \/ Seal \/ Forget \/ Restart
      PROVE  IInv'
  BY <1>4, MoveKeeps, ClockAndCloseKeep, ForgetKeeps, RestartKeeps
<1> QED
  BY <1>1, <1>2, <1>3, <1>4, StutterKeeps DEF Next

LEMMA Inductive == Spec => []IInv
<1>1. Init => IInv
  BY InitHolds
<1>2. IInv /\ [Next]_vars => IInv'
  BY StepKeeps
<1> QED
  BY <1>1, <1>2, PTL DEF Spec

\* A composer's step on a forgotten incident moves no call but its own, and that
\* one not into a handler it was not in.
LEMMA NoEntry ==
  ASSUME IInv, phase = "FORGOTTEN", NEW d \in Composers,
         Probe(d) \/ StartRun(d) \/ ComposeStep(d) \/ Overrun(d) \/ Raise(d)
  PROVE  \A c \in Composers : call'[c].pc \in HandlerSteps => call[c].pc \in HandlerSteps
<1>1. call \in [Composers -> Call] /\ Grant # "LIVE" /\ At("done").pc = "done"
  BY DEF IInv, TypeOK, GrantInv, Grant, StoredGrant, At
<1>2. ASSUME NEW step \in {"decided", "announced"}, GoesOn(d, step)
      PROVE  StepAt(d) /\ call'[d].pc \notin HandlerSteps
  <2>1. step \in Steps /\ step \notin HandlerSteps
    BY DEF Steps, Composing, HandlerSteps
  <2> QED
    BY <1>2, <2>1, GoesOnEffect DEF IInv
<1>3. ASSUME NEW status \in RunStatus, EndsAs(d, status) PROVE StepAt(d) /\ call'[d].pc \notin HandlerSteps
  BY <1>3, EndsAsEffect DEF IInv, HandlerSteps
<1>4. ASSUME Ends(d) \/ GivesUp(d) PROVE StepAt(d) /\ call'[d].pc \notin HandlerSteps
  BY <1>4, EndsEffect, GivesUpEffect DEF IInv, HandlerSteps
<1>5. CASE Probe(d)
  BY <1>1, <1>5 DEF Probe, HandlerSteps
<1>6. CASE Decide(d) \/ RecordDecision(d) \/ Raise(d)
  BY <1>2, <1>4, <1>6 DEF Decide, RecordDecision, Raise, StepAt
<1>7. CASE StartRun(d)
  BY <1>1, <1>3, <1>7 DEF StartRun, StepAt, RunStatus, TerminalStatuses
<1>8. CASE Collect(d)
  BY <1>1, <1>4, <1>8 DEF Collect, StepAt, HandlerSteps
<1>9. CASE Finish(d)
  <2>1. call' \in {[call EXCEPT ![d] = At("done")], Cancelled([call EXCEPT ![d] = At("done")])}
    BY <1>9 DEF Finish, Ends
  <2> QED
    BY <1>1, <2>1, Members DEF Cancelled, HandlerSteps
<1>10. ASSUME call[d].pc \in HandlerSteps, \A c \in Composers : c # d => call'[c] = call[c]
       PROVE  \A c \in Composers : call'[c].pc \in HandlerSteps => call[c].pc \in HandlerSteps
  BY <1>10
<1>11. CASE Authorise(d) \/ Assess(d) \/ RecordPackage(d) \/ EndHandler(d) \/ Overrun(d)
  BY <1>1, <1>10, <1>11 DEF Authorise, Assess, RecordPackage, EndHandler, Overrun, GoesOn, EndsAs, HandlerSteps
<1>12. ASSUME NEW half \in Halves, StageHalf(d, half)
       PROVE  \A c \in Composers : call'[c].pc \in HandlerSteps => call[c].pc \in HandlerSteps
  BY <1>1, <1>10, <1>12 DEF StageHalf, GoesOn, HandlerSteps
<1> QED
  BY <1>5, <1>6, <1>7, <1>8, <1>9, <1>11, <1>12 DEF ComposeStep

-----------------------------------------------------------------------------
(* What follows. *)

\* Every variable keeps its type: a call is at one of its steps, a package in
\* the log or in somebody's hands is a package.
THEOREM TypesHold == Spec => []TypeOK
<1>1. IInv => TypeOK
  BY DEF IInv
<1> QED
  BY <1>1, Inductive, PTL

\* The flag that keeps a second composition out is up exactly while one
\* unprompted composition is in flight, through every failure, cancellation,
\* forgetting and restart (_compose_unprompted).
THEOREM OneCompositionAtATime == Spec => []ComposingIsHeld
<1>1. IInv => ComposingIsHeld
  BY DEF IInv
<1> QED
  BY <1>1, Inductive, PTL

\* An unprompted composition that repeats the verdict of the package before it
\* was decided on a probe that had found another (decide()).
THEOREM NoTwinUnmoved == Spec => []TwinNeedsMovedVerdict
<1>1. IInv => TwinNeedsMovedVerdict
  BY DEF IInv, Remembers, TwinNeedsMovedVerdict, Composing
<1> QED
  BY <1>1, Inductive, PTL

\* What was sent carries both signatures and both approvals are granted,
\* however stale the copy it was sent from (dispatch_package).
THEOREM SentIsSigned == Spec => []SentNeedsBothSignatures
<1>1. IInv => SentNeedsBothSignatures
  BY DEF IInv, SignInv, VersionOK, BothSigned, SentNeedsBothSignatures
<1> QED
  BY <1>1, Inductive, PTL

\* A run is left RUNNING only by a restart, a store that raises or the timer
\* forgotten while its run is stored (AgentFleet.run).
THEOREM RunsEndStored == Spec => []RunsAreClosed
<1>1. IInv => RunsAreClosed
  BY DEF IInv, RunsInv, RunOK, RunsAreClosed, HandlerSteps
<1> QED
  BY <1>1, Inductive, PTL

\* A forgotten incident's grant is looked up again, so no composition starts
\* on it, whenever it was decided (forget, _require_grant).
THEOREM ForgottenStaysQuiet == Spec => NoRunOnceForgotten
<1> DEFINE Quiet == phase = "FORGOTTEN" =>
                      \A c \in Composers : (call[c].pc \in HandlerSteps)' => call[c].pc \in HandlerSteps
<1>1. ASSUME IInv, Next, phase = "FORGOTTEN", NEW c \in Composers, call'[c].pc \in HandlerSteps
      PROVE  call[c].pc \in HandlerSteps
  <2>1. ASSUME NEW d \in Composers, Probe(d) \/ StartRun(d) \/ ComposeStep(d) \/ Overrun(d) \/ Raise(d)
        PROVE  call[c].pc \in HandlerSteps
    BY <1>1, <2>1, NoEntry
  <2>2. ASSUME UNCHANGED call PROVE call[c].pc \in HandlerSteps
    BY <1>1, <2>2
  <2>3. ASSUME NEW t \in Taps, \/ \E d \in Composers, half \in Halves : TapReads(t, d, half)
                               \/ TapGrants(t) \/ TapRecords(t)
        PROVE  UNCHANGED call
    BY <2>3 DEF TapReads, TapGrants, TapRecords, runVars
  <2>4. ASSUME NEW s \in Sends, \/ \E d \in Composers : SendReads(s, d)
                                \/ SendDecides(s) \/ SendRecords(s)
        PROVE  UNCHANGED call
    BY <2>4 DEF SendReads, SendDecides, SendRecords, runVars
  <2>5. ASSUME (\E v \in Verdicts : Move(v)) \/ PassDeadline \/ Revoke \/ Seal PROVE UNCHANGED call
    BY <2>5 DEF Move, PassDeadline, Revoke, Seal, runVars
  <2>6. ~ Forget
    BY <1>1 DEF Forget
  <2>7. ASSUME Restart PROVE call[c].pc \in HandlerSteps
    <3>1. call'[c] \in {call[c], At("done")}
      BY <2>7 DEF Restart
    <3> QED
      BY <1>1, <3>1 DEF At, HandlerSteps
  <2> QED
    BY <1>1, <2>1, <2>2, <2>3, <2>4, <2>5, <2>6, <2>7 DEF Next
<1>2. IInv /\ [Next]_vars => [Quiet]_vars
  BY <1>1
<1> QED
  BY <1>2, Inductive, PTL DEF Spec, NoRunOnceForgotten
=============================================================================
