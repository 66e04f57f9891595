---------------------------- MODULE SurveyActions ----------------------------
(***************************************************************************)
(* What the fleet does about one structure in the survey queue             *)
(* (agents/actions.py): dispatching a company -- a work order, a calendar  *)
(* hold, a mail to the crew, a pre-incident plan -- staging a referral of  *)
(* the structure's worst conflict to the building department, and filing   *)
(* it once a person approves.  Each step is one request to a store or to   *)
(* an outside system, and the call may be cut off between any two.         *)
(*                                                                         *)
(* Work orders answer a repeated key with what they stored first, and      *)
(* refuse one that comes with another payload.  Calendar and mail have no  *)
(* keys of their own: their clients (adapters/google/office.py and         *)
(* adapters/resend/mail.py) claim an idempotency record, insert or send,   *)
(* and complete it.  A call that meets a claim does nothing and goes on;   *)
(* one that meets an expired claim takes it over.  The in-memory clients   *)
(* do all three at once, which is a special case.                          *)
(***************************************************************************)
EXTENDS IdempotencyClaims

CONSTANTS Dispatches,  \* calls of ActionFlow.dispatch for this entry
          Approvers,   \* calls of approve_referral, each by one person
          Surveys,     \* surveys of the structure
          Companies,   \* who can be sent
          None,        \* nobody, nothing
          MaxCuts,     \* how many calls may be cut off, meet a failure or run out of time
          MaxEvents    \* bound on what else happens: rankings, surveys, ticks of the clock

Entry == [status: {"RANKED", "DISPATCHED", "SURVEYED"}, rank: Nat \ {0}, company: Companies \cup {None}]
WorkOrder == [company: Companies, rank: Nat \ {0}]
Referral == [status: {"AWAITING_APPROVAL", "FILED"}, by: Approvers \cup {None}]
Approval == [status: {"STAGED", "GRANTED"}, by: Approvers \cup {None}]

\* What a dispatch books outside, by the key of its claim, and each entry there.
Keys == {"calendar", "crewMail"}
Booking == [by: Dispatches, company: Companies]

ASSUME ActionsAssumption ==
  /\ None \notin Companies \cup Approvers
  /\ None \notin Entry \cup WorkOrder \cup Referral \cup Approval
  /\ {MaxCuts, MaxEvents} \subseteq Nat

VARIABLES entry,      \* the structure's entry in the queue
          conflict,   \* the profile has an open conflict
          ranks,      \* how often the queue was ranked anew
          action,     \* the stored status of the work order's action
          order,      \* the work order, as the target system stored it
          booked,     \* the calendar events and the crew's mails, with who asked
          plan,       \* the pre-incident plan is stored
          undos,      \* the compensations on record
          referral,   \* the stored referral
          card,       \* the stored approval request
          case,       \* the building department has opened a case
          mail,       \* the mails to the department, each by its approver
          noted,      \* the profile lists the referral
          dispatch, approve, survey,  \* each call: where it is and what it holds
          claims,     \* the idempotency records of the calendar and the mails
          retaken,    \* history: the keys whose expired claim was taken over
          recipients, \* the building department's addresses are configured
          now,        \* the clock
          cuts,       \* bounded by MaxCuts
          events      \* how much else has happened, bounded by MaxEvents

queueVars == <<entry, conflict, ranks>>
bookVars == <<action, order, booked, plan>>
fileVars == <<referral, card, case, mail, noted>>
callVars == <<dispatch, approve, survey>>
claimVars == <<claims, retaken>>
envVars == <<recipients, now, cuts, events>>
vars == <<queueVars, bookVars, undos, fileVars, callVars, claimVars, envVars>>

\* What dispatch() does after each step, and what approve_referral() does.
AfterDispatch ==
  [draft |-> "execute", execute |-> "executed", executed |-> "undo", undo |-> "hold",
   hold |-> "holding", holding |-> "held", held |-> "notify",
   notify |-> "notifying", notifying |-> "notified", notified |-> "plan",
   plan |-> "planUndo", planUndo |-> "save",
   save |-> "look", look |-> "add", add |-> "card", card |-> "end"]

\* Mutant: the referral is saved as filed before its approval is.
FileBeforeGrant ==
  [execute |-> "file", file |-> "grant", grant |-> "undo",
   undo |-> "mail", mail |-> "mailing", mailing |-> "mailed", mailed |-> "writeBack",
   writeBack |-> "end"]

AfterApproval ==
  [execute |-> "grant", grant |-> "file", file |-> "undo",
   undo |-> "mail", mail |-> "mailing", mailing |-> "mailed", mailed |-> "writeBack",
   writeBack |-> "end"]

\* Where a dispatch claims a key, inserts or sends, and completes the claim.
ClaimAt == [calendar |-> "hold", crewMail |-> "notify"]
SendAt == [calendar |-> "holding", crewMail |-> "notifying"]
DoneAt == [calendar |-> "held", crewMail |-> "notified"]

Progress == {"idle", "busy", "answered", "failed", "cut"}
Dispatching == [state: Progress, at: DOMAIN AfterDispatch \cup {"end"}, company: Companies \cup {None},
                copy: Entry \cup {None}, sees: BOOLEAN, late: BOOLEAN]
Approving == [state: Progress, at: DOMAIN AfterApproval \cup {"end"}]
Surveying == [at: {"idle", "settled", "closing", "end"}, copy: Entry \cup {None}]

TypeOK ==
  /\ entry \in Entry \cup {None} /\ conflict \in BOOLEAN /\ ranks \in Nat
  /\ action \in {"NONE", "DRAFTED", "EXECUTED"} /\ order \in WorkOrder \cup {None}
  /\ booked \in [Keys -> SUBSET Booking] /\ plan \in BOOLEAN
  /\ undos \subseteq {"order", "plan", "filing"}
  /\ referral \in Referral \cup {None} /\ card \in Approval \cup {None}
  /\ case \in BOOLEAN /\ mail \subseteq Approvers /\ noted \in BOOLEAN
  /\ dispatch \in [Dispatches -> Dispatching] /\ approve \in [Approvers -> Approving]
  /\ survey \in [Surveys -> Surveying]
  /\ claims \in [Keys \cup {"referralMail"} -> IdempotencyRecord]
  /\ retaken \subseteq Keys \cup {"referralMail"}
  /\ recipients \in BOOLEAN /\ now \in Nat /\ cuts \in 0..MaxCuts /\ events \in 0..MaxEvents

Ranked(r) == [status |-> "RANKED", rank |-> r, company |-> None]

Init ==
  /\ entry = Ranked(1) /\ conflict = TRUE /\ ranks = 0
  /\ action = "NONE" /\ order = None /\ booked = [key \in Keys |-> {}] /\ plan = FALSE
  /\ undos = {} /\ referral = None /\ card = None /\ case = FALSE /\ mail = {} /\ noted = FALSE
  /\ dispatch = [d \in Dispatches |-> [state |-> "idle", at |-> "draft", company |-> None,
                                       copy |-> None, sees |-> FALSE, late |-> FALSE]]
  /\ approve = [a \in Approvers |-> [state |-> "idle", at |-> "execute"]]
  /\ survey = [s \in Surveys |-> [at |-> "idle", copy |-> None]]
  /\ claims = [key \in Keys \cup {"referralMail"} |-> NoRecord] /\ retaken = {}
  /\ recipients \in BOOLEAN /\ now = 0 /\ cuts = 0 /\ events = 0

-----------------------------------------------------------------------------
\* Dispatching: d is about to take a step, goes on to the next, or ends.
At(d, step) == dispatch[d].state = "busy" /\ dispatch[d].at = step
GoesOn(d) == dispatch' = [dispatch EXCEPT ![d].at = AfterDispatch[@]]
Ends(d, how) ==
  dispatch' = [dispatch EXCEPT ![d] =
    [state |-> how, at |-> IF how = "cut" THEN @.at ELSE "end", company |-> None, copy |-> None,
     sees |-> FALSE, late |-> @.late]]

\* The route reads the entry, dispatch() the profile.
Begin(d, company) ==
  /\ dispatch[d].state = "idle" /\ entry # None
  /\ dispatch' = [dispatch EXCEPT ![d] = [state |-> "busy", at |-> "draft", company |-> company,
                                          copy |-> entry, sees |-> conflict, late |-> FALSE]]
  /\ UNCHANGED <<queueVars, bookVars, undos, fileVars, approve, survey, claimVars, envVars>>

\* Too little time is left: the outward steps that remain are skipped.
Skip(d) ==
  /\ cuts < MaxCuts /\ cuts' = cuts + 1
  /\ \E step \in {"draft", "hold", "notify", "plan"} : At(d, step)
  /\ dispatch' = [dispatch EXCEPT ![d] = [state |-> "busy", at |-> "save", company |-> @.company,
                                          copy |-> @.copy, sees |-> @.sees, late |-> TRUE]]
  /\ UNCHANGED <<queueVars, bookVars, undos, fileVars, approve, survey, claimVars, recipients, now, events>>

\* _work_order(): the action is recorded as drafted, over whatever was there,
DraftOrder(d) ==
  /\ At(d, "draft") /\ action' = "DRAFTED" /\ GoesOn(d)
  /\ UNCHANGED <<queueVars, order, booked, plan, undos, fileVars, approve, survey, claimVars, envVars>>

Asked(d) == [company |-> dispatch[d].company, rank |-> dispatch[d].copy.rank]

\* Mutant: a key seen before is a replay, whatever it comes with.
AcceptsAnyReplay(d) == TRUE

Accepts(d) == order \in {None, Asked(d)}

\* the target system executes it, replays it or refuses the other payload,
ExecuteOrder(d) ==
  /\ At(d, "execute")
  /\ IF Accepts(d) THEN GoesOn(d) /\ order' = IF order = None THEN Asked(d) ELSE order
                   ELSE Ends(d, "failed") /\ UNCHANGED order
  /\ UNCHANGED <<queueVars, action, booked, plan, undos, fileVars, approve, survey, claimVars, envVars>>

\* the receipt and the action are stored as executed,
RecordOrder(d) ==
  /\ At(d, "executed") /\ action' = "EXECUTED" /\ GoesOn(d)
  /\ UNCHANGED <<queueVars, order, booked, plan, undos, fileVars, approve, survey, claimVars, envVars>>

\* and what would undo it, on a replay as well.
RecordUndo(d) ==
  /\ \/ At(d, "undo") /\ undos' = undos \cup {"order"}
     \/ At(d, "planUndo") /\ undos' = undos \cup {"plan"}
  /\ GoesOn(d)
  /\ UNCHANGED <<queueVars, bookVars, fileVars, approve, survey, claimVars, envVars>>

-----------------------------------------------------------------------------
\* A claim on a key, made afresh or over one that has expired.
Claim(key) ==
  /\ claims' = [claims EXCEPT ![key] = InFlight(now)]
  /\ retaken' = IF IsClaimable(claims[key], now) THEN retaken \cup {key} ELSE retaken

Complete(key) ==
  claims' = [claims EXCEPT ![key] = AfterComplete(claims[key])] /\ UNCHANGED retaken

\* _calendar_hold(), _notify(): the key is claimed; where it is claimed or
\* completed already, there is nothing to insert and the dispatch goes on,
ClaimBooking(d, key) ==
  /\ At(d, ClaimAt[key])
  /\ IF ShouldExecute(claims[key], now)
       THEN Claim(key) /\ GoesOn(d)
       ELSE /\ dispatch' = [dispatch EXCEPT ![d].at = AfterDispatch[DoneAt[key]]]
            /\ UNCHANGED claimVars
  /\ UNCHANGED <<queueVars, bookVars, undos, fileVars, approve, survey, envVars>>

\* the event is inserted, the crew's mail sent,
Book(d, key) ==
  /\ At(d, SendAt[key]) /\ GoesOn(d)
  /\ booked' = [booked EXCEPT ![key] = @ \cup {[by |-> d, company |-> dispatch[d].company]}]
  /\ UNCHANGED <<queueVars, action, order, plan, undos, fileVars, approve, survey, claimVars, envVars>>

\* and the claim completed, whoever holds it now.
CompleteBooking(d, key) ==
  /\ At(d, DoneAt[key]) /\ Complete(key) /\ GoesOn(d)
  /\ UNCHANGED <<queueVars, bookVars, undos, fileVars, approve, survey, envVars>>

WritePlan(d) ==
  /\ At(d, "plan") /\ plan' = TRUE /\ GoesOn(d)
  /\ UNCHANGED <<queueVars, action, order, booked, undos, fileVars, approve, survey, claimVars, envVars>>

\* The entry read at the start goes back whole; an entry that has left the
\* queue is not found.
SaveDispatched(d) ==
  /\ At(d, "save")
  /\ IF entry = None THEN Ends(d, "failed") /\ UNCHANGED entry
     ELSE /\ entry' = [status |-> "DISPATCHED", rank |-> dispatch[d].copy.rank,
                       company |-> dispatch[d].company]
          /\ dispatch' = [dispatch EXCEPT ![d] =
               [state |-> "busy", at |-> "look", company |-> None, copy |-> None,
                sees |-> @.sees, late |-> @.late]]
  /\ UNCHANGED <<conflict, ranks, bookVars, undos, fileVars, approve, survey, claimVars, envVars>>

\* _stage_referral(): without a conflict, or with a referral of it on file,
\* there is nothing to stage.  Otherwise its narrative is drafted.
LookForReferral(d) ==
  /\ At(d, "look")
  /\ IF dispatch[d].sees /\ referral = None THEN GoesOn(d) ELSE Ends(d, "answered")
  /\ UNCHANGED <<queueVars, bookVars, undos, fileVars, approve, survey, claimVars, envVars>>

\* The referral and its approval are created, each only where there is none.
AddReferral(d) ==
  /\ At(d, "add")
  /\ IF referral = None
       THEN referral' = [status |-> "AWAITING_APPROVAL", by |-> None] /\ GoesOn(d)
       ELSE Ends(d, "failed") /\ UNCHANGED referral
  /\ UNCHANGED <<queueVars, bookVars, undos, card, case, mail, noted, approve, survey, claimVars, envVars>>

\* Mutant: no card for a conflict that was settled meanwhile.
StageUnlessSettled(d) ==
  /\ At(d, "card")
  /\ IF card = None /\ conflict
       THEN card' = [status |-> "STAGED", by |-> None] /\ Ends(d, "answered")
       ELSE Ends(d, "failed") /\ UNCHANGED card
  /\ UNCHANGED <<queueVars, bookVars, undos, referral, case, mail, noted, approve, survey, claimVars, envVars>>

StageCard(d) ==
  /\ At(d, "card")
  /\ IF card = None
       THEN card' = [status |-> "STAGED", by |-> None] /\ Ends(d, "answered")
       ELSE Ends(d, "failed") /\ UNCHANGED card
  /\ UNCHANGED <<queueVars, bookVars, undos, referral, case, mail, noted, approve, survey, claimVars, envVars>>

-----------------------------------------------------------------------------
\* Approving: approve_referral().
On(a, step) == approve[a].state = "busy" /\ approve[a].at = step
Proceeds(a) == approve' = [approve EXCEPT ![a].at = AfterApproval[@]]
Answers(a) == approve' = [approve EXCEPT ![a] = [state |-> "answered", at |-> "end"]]

\* Mutant: an approval granted before is a replay.
ReplaysGranted == card.status = "GRANTED"

\* A referral that has its case number is not filed again.
Replays == referral.status = "FILED"

Tap(a) ==
  /\ approve[a].state = "idle" /\ referral # None /\ card # None
  /\ IF Replays THEN Answers(a) ELSE approve' = [approve EXCEPT ![a].state = "busy"]
  /\ UNCHANGED <<queueVars, bookVars, undos, fileVars, dispatch, survey, claimVars, envVars>>

\* The action is recorded as approved, and the department's system opens the
\* case or replays it.
OpenCase(a) ==
  /\ On(a, "execute") /\ case' = TRUE /\ Proceeds(a)
  /\ UNCHANGED <<queueVars, bookVars, undos, referral, card, mail, noted, dispatch, survey, claimVars, envVars>>

\* The receipt is stored and the approval granted by this person,
Grant(a) ==
  /\ On(a, "grant") /\ card' = [status |-> "GRANTED", by |-> a] /\ Proceeds(a)
  /\ UNCHANGED <<queueVars, bookVars, undos, referral, case, mail, noted, dispatch, survey, claimVars, envVars>>

\* the referral filed by this person,
File(a) ==
  /\ On(a, "file") /\ referral' = [status |-> "FILED", by |-> a] /\ Proceeds(a)
  /\ UNCHANGED <<queueVars, bookVars, undos, card, case, mail, noted, dispatch, survey, claimVars, envVars>>

RecordFilingUndo(a) ==
  /\ On(a, "undo") /\ undos' = undos \cup {"filing"} /\ Proceeds(a)
  /\ UNCHANGED <<queueVars, bookVars, fileVars, dispatch, survey, claimVars, envVars>>

\* _mail_referral(): nothing without recipients, and nothing where the mail is
\* claimed or sent already; otherwise it is claimed,
MailReferral(a) ==
  /\ On(a, "mail")
  /\ IF recipients /\ ShouldExecute(claims["referralMail"], now)
       THEN Claim("referralMail") /\ Proceeds(a)
       ELSE approve' = [approve EXCEPT ![a].at = "writeBack"] /\ UNCHANGED claimVars
  /\ UNCHANGED <<queueVars, bookVars, undos, fileVars, dispatch, survey, envVars>>

\* sent -- Resend may answer a key it has seen with the mail it sent then, Gmail
\* knows no keys --
PostMail(a) ==
  /\ On(a, "mailing") /\ Proceeds(a)
  /\ mail' \in {mail \cup {a}, IF mail = {} THEN {a} ELSE mail}
  /\ UNCHANGED <<queueVars, bookVars, undos, referral, card, case, noted, dispatch, survey, claimVars, envVars>>

\* and the claim completed.
CompleteMail(a) ==
  /\ On(a, "mailed") /\ Complete("referralMail") /\ Proceeds(a)
  /\ UNCHANGED <<queueVars, bookVars, undos, fileVars, dispatch, survey, envVars>>

\* _write_back_case_number(): a save that loses to another profile is let go.
WriteBack(a) ==
  /\ On(a, "writeBack") /\ Answers(a) /\ noted' \in {noted, TRUE}
  /\ UNCHANGED <<queueVars, bookVars, undos, referral, card, case, mail, dispatch, survey, claimVars, envVars>>

-----------------------------------------------------------------------------
\* What else happens.
Event == events < MaxEvents /\ events' = events + 1

\* structure-watch ranks the district anew: the entry is RANKED again with its
\* new rank, or it is gone.
Rerank ==
  /\ Event /\ ranks' = ranks + 1
  /\ entry' \in {Ranked(ranks' + 1), None}
  /\ UNCHANGED <<conflict, bookVars, undos, fileVars, callVars, claimVars, recipients, now, cuts>>

\* A survey settles the conflict on the profile and then closes the entry.
Settle(s) ==
  /\ survey[s].at = "idle" /\ survey' = [survey EXCEPT ![s].at = "settled"]
  /\ Event /\ conflict' = FALSE
  /\ UNCHANGED <<entry, ranks, bookVars, undos, fileVars, dispatch, approve, claimVars, recipients, now, cuts>>

ReadEntry(s) ==
  /\ survey[s].at = "settled"
  /\ survey' = [survey EXCEPT ![s] = [at |-> IF entry = None THEN "end" ELSE "closing", copy |-> entry]]
  /\ UNCHANGED <<queueVars, bookVars, undos, fileVars, dispatch, approve, claimVars, envVars>>

CloseEntry(s) ==
  /\ survey[s].at = "closing" /\ survey' = [survey EXCEPT ![s] = [at |-> "end", copy |-> None]]
  /\ entry' = IF entry = None THEN None ELSE [survey[s].copy EXCEPT !.status = "SURVEYED"]
  /\ UNCHANGED <<conflict, ranks, bookVars, undos, fileVars, dispatch, approve, claimVars, envVars>>

\* A call is cut off between two steps: its request raises, or the process ends.
Cut ==
  /\ cuts < MaxCuts /\ cuts' = cuts + 1
  /\ \/ /\ \E d \in Dispatches : dispatch[d].state = "busy" /\ Ends(d, "cut")
        /\ UNCHANGED approve
     \/ /\ \E a \in Approvers : approve[a].state = "busy" /\ approve' = [approve EXCEPT ![a].state = "cut"]
        /\ UNCHANGED dispatch
  /\ UNCHANGED <<queueVars, bookVars, undos, fileVars, survey, claimVars, recipients, now, events>>

\* Time passes, which nobody sees but a claim in flight.
Tick ==
  /\ Event /\ now' = now + 1 /\ \E key \in DOMAIN claims : claims[key].status = "IN_FLIGHT"
  /\ UNCHANGED <<queueVars, bookVars, undos, fileVars, callVars, claimVars, recipients, cuts>>

DispatchStep(d) ==
  \/ Skip(d) \/ DraftOrder(d) \/ ExecuteOrder(d) \/ RecordOrder(d) \/ RecordUndo(d)
  \/ \E key \in Keys : ClaimBooking(d, key) \/ Book(d, key) \/ CompleteBooking(d, key)
  \/ WritePlan(d) \/ SaveDispatched(d)
  \/ LookForReferral(d) \/ AddReferral(d) \/ StageCard(d)

ApproveStep(a) ==
  \/ Tap(a) \/ OpenCase(a) \/ Grant(a) \/ File(a) \/ RecordFilingUndo(a)
  \/ MailReferral(a) \/ PostMail(a) \/ CompleteMail(a) \/ WriteBack(a)

Next ==
  \/ \E d \in Dispatches : DispatchStep(d) \/ \E company \in Companies : Begin(d, company)
  \/ \E a \in Approvers : ApproveStep(a)
  \/ \E s \in Surveys : Settle(s) \/ ReadEntry(s) \/ CloseEntry(s)
  \/ Rerank \/ Cut \/ Tick

Spec == Init /\ [][Next]_vars

-----------------------------------------------------------------------------
AtMostOne(set) == \A x, y \in set : x = y

\* A company is not double-booked: however dispatches of the entry to different
\* companies interleave and are cut off, the calendar, the crew's mail and the
\* queue name the company of the one work order -- the queue unless a dispatch
\* ran out of time -- and there is one event and one mail, unless a claim that
\* had expired on its holder was taken over (dispatch, "rather than
\* double-booking a company"; DurableArtifactDedupe).
OneCompany ==
  /\ \A key \in Keys :
       /\ \A b \in booked[key] : order # None /\ b.company = order.company
       /\ AtMostOne(booked[key]) \/ key \in retaken
  /\ entry # None /\ entry.company # None =>
       \/ order # None /\ entry.company = order.company
       \/ \E d \in Dispatches : dispatch[d].late

\* Nothing reaches the building department or the profile that the stored
\* records do not account for: a filed referral has its case and its granted
\* approval, and a mail and a note on the profile are about a filed referral,
\* for good -- no dispatch puts it back -- and the mail is one unless its claim
\* expired and was taken over (approve_referral, _mail_referral, the referral
\* store's create-if-absent).
FilingIsAccounted ==
  /\ referral # None /\ referral.status = "FILED" =>
       case /\ card # None /\ card.status = "GRANTED" /\ card.by # None
  /\ mail # {} \/ noted => referral # None /\ referral.status = "FILED"
  /\ AtMostOne(mail) \/ "referralMail" \in retaken

\* Something was booked under a key, the mail was sent, or the call that claimed
\* it is about to or was cut off there: its claim is in the way of the others
\* until it expires.
Served(key) ==
  \/ booked[key] # {}
  \/ \E d \in Dispatches : dispatch[d].state \in {"busy", "cut"} /\ dispatch[d].at = SendAt[key]
Mailed ==
  \/ ~ recipients \/ mail # {}
  \/ \E a \in Approvers : approve[a].state \in {"busy", "cut"} /\ approve[a].at = "mailing"

\* A call that answers has done what it is for, even when it only finished what
\* one before it had begun: a dispatch in time has booked, planned and recorded
\* how to undo both; an approval is filed, mailed and can be undone, unless the
\* call that filed it was cut off or is still at it.  What was not booked or
\* mailed another call had claimed, and has yet to do or was cut off before.
AnsweredIsDone ==
  /\ \A d \in Dispatches : dispatch[d].state = "answered" /\ ~ dispatch[d].late =>
       /\ order # None /\ plan /\ {"order", "plan"} \subseteq undos
       /\ \A key \in Keys : Served(key)
  /\ \A a \in Approvers : approve[a].state = "answered" =>
       /\ referral.status = "FILED"
       /\ \/ Mailed /\ "filing" \in undos
          \/ \E b \in Approvers : approve[b].state \in {"busy", "cut"} /\ approve[b].at \in {"undo", "mail"}

\* A referral on file can be approved: it has its card, unless the dispatch
\* that drafted it is about to stage one or was cut off there (_stage_referral,
\* which never stages a card for a referral it finds on file).
StagedIsApprovable ==
  referral # None /\ card = None =>
    \E d \in Dispatches : dispatch[d].at = "card" /\ dispatch[d].state \in {"busy", "cut"}
=============================================================================
