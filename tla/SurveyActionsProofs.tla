------------------------- MODULE SurveyActionsProofs -------------------------
(***************************************************************************)
(* What holds of a structure's work order, referral and mail for every     *)
(* number of dispatches, approvals and surveys.  The invariant says how    *)
(* far a call in progress has come: what it has passed is there, or another *)
(* call's claim was in its way, and then that call has done it, is about   *)
(* to or was cut off there (ClaimInv, MailInv).  It rests on one fact about *)
(* every step, that nothing in the outside systems and on the record of    *)
(* compensations is taken back (Grows).                                    *)
(***************************************************************************)
EXTENDS SurveyActions, TLAPS

\* The steps that are left to a dispatch out of time.
Tail == {"save", "look", "add", "card", "end"}

\* The steps of a dispatch before something is there.
Ordering == {"draft", "execute"}
Recording == Ordering \cup {"executed", "undo"}
Holding == Recording \cup {"hold"}
Notifying == Holding \cup {"holding", "held", "notify"}
Planning == Notifying \cup {"notifying", "notified", "plan"}
Undoing == Planning \cup {"planUndo"}

\* How far the dispatch r has come: what it has passed is there.
Passed(r) ==
  /\ r.at \notin Ordering => order # None /\ r.company \in {order.company, None}
  /\ r.at \notin Recording => "order" \in undos
  /\ r.at \notin Holding => Served("calendar")
  /\ r.at \notin Notifying => Served("crewMail")
  /\ \A key \in Keys : r.at = DoneAt[key] => booked[key] # {}
  /\ r.at \notin Planning => plan
  /\ r.at \notin Undoing => "plan" \in undos

AllDone ==
  /\ order # None /\ plan /\ {"order", "plan"} \subseteq undos
  /\ \A key \in Keys : Served(key)

DispatchInv(r) ==
  /\ r.state = "busy" =>
       /\ r.at \in {"look", "add", "card"} \/ (r.company \in Companies /\ r.copy \in Entry)
       /\ IF r.late THEN r.at \in Tail ELSE Passed(r)
  /\ r.state = "answered" /\ ~ r.late => AllDone
  /\ r.state = "idle" => ~ r.late

DispatchesInv == \A d \in Dispatches : DispatchInv(dispatch[d])

\* What is booked names the work order's company.
Booked == \A key \in Keys : \A b \in booked[key] : order # None /\ b.company = order.company

\* A key that nobody has claimed has booked nothing, one that somebody has is
\* served, and one whose claim was never taken over has one booking or one
\* dispatch about to make it.
ClaimInv(key) ==
  /\ claims[key].status = "ABSENT" => booked[key] = {} /\ \A d \in Dispatches : ~ At(d, SendAt[key])
  /\ claims[key].status # "ABSENT" => Served(key)
  /\ key \notin retaken =>
       /\ AtMostOne(booked[key])
       /\ \A d, e \in Dispatches : At(d, SendAt[key]) /\ At(e, SendAt[key]) => d = e
       /\ booked[key] # {} => \A d \in Dispatches : ~ At(d, SendAt[key])

ClaimsInv == \A key \in Keys : ClaimInv(key)

\* The same of the mail to the department.
MailInv ==
  /\ claims["referralMail"].status = "ABSENT" => mail = {} /\ \A a \in Approvers : ~ On(a, "mailing")
  /\ claims["referralMail"].status # "ABSENT" => Mailed
  /\ "referralMail" \notin retaken =>
       /\ AtMostOne(mail)
       /\ \A a, b \in Approvers : On(a, "mailing") /\ On(b, "mailing") => a = b
       /\ mail # {} => \A a \in Approvers : ~ On(a, "mailing")

\* Who an entry, or a survey's copy of it, is assigned to.
AssignedRight(e) ==
  e # None /\ e.company # None =>
    (order # None /\ e.company = order.company) \/ \E d \in Dispatches : dispatch[d].late

Assigned == AssignedRight(entry) /\ \A s \in Surveys : AssignedRight(survey[s].copy)

\* How far the approval r has come.
ApproveInv(r) ==
  /\ r.state = "busy" =>
       /\ referral # None /\ card # None
       /\ r.at # "execute" => case
       /\ r.at \notin {"execute", "grant"} => card.status = "GRANTED" /\ card.by # None
       /\ r.at \notin {"execute", "grant", "file"} => referral.status = "FILED"
       /\ r.at \notin {"execute", "grant", "file", "undo"} => "filing" \in undos
       /\ r.at = "mailed" => mail # {}
  /\ r.state = "answered" => referral # None /\ referral.status = "FILED"
  /\ r.state = "idle" => r.at = "execute"

ApprovesInv == \A a \in Approvers : ApproveInv(approve[a])

FollowedUp ==
  referral # None /\ referral.status = "FILED" =>
    \/ Mailed /\ "filing" \in undos
    \/ \E b \in Approvers : approve[b].state \in {"busy", "cut"} /\ approve[b].at \in {"undo", "mail"}

\* A card belongs to a referral.
CardHasReferral == card # None => referral # None

\* A dispatch that is to stage a card has added the referral.
CardNext == \A d \in Dispatches : dispatch[d].state = "busy" /\ dispatch[d].at = "card" => referral # None

\* A survey that is about to close the entry has read one.
ClosingHasEntry == \A s \in Surveys : survey[s].at = "closing" => survey[s].copy # None

IInv ==
  /\ TypeOK /\ DispatchesInv /\ Booked /\ ClaimsInv /\ Assigned /\ ClosingHasEntry
  /\ ApprovesInv /\ MailInv /\ FilingIsAccounted /\ FollowedUp
  /\ CardHasReferral /\ CardNext /\ StagedIsApprovable

-----------------------------------------------------------------------------
\* Nothing outside is taken back, a filed referral stays filed and a granted
\* card granted,
Kept ==
  /\ order # None => order' = order
  /\ \A key \in Keys : booked[key] \subseteq booked'[key]
  /\ mail \subseteq mail'
  /\ plan => plan'
  /\ case => case'
  /\ undos \subseteq undos'
  /\ referral # None => referral' # None
  /\ referral # None /\ referral.status = "FILED" => referral'.status = "FILED"
  /\ card # None => card' # None
  /\ card # None /\ card.status = "GRANTED" /\ card.by # None => card'.status = "GRANTED" /\ card'.by # None

\* and what is served or mailed stays so.
Grows ==
  /\ Kept
  /\ \A key \in Keys : Served(key) => Served(key)'
  /\ Mailed => Mailed'

\* The order of the steps, spelled out.
LEMMA AfterDispatchIs ==
  /\ DOMAIN AfterDispatch = {"draft", "execute", "executed", "undo", "hold", "holding", "held", "notify",
                             "notifying", "notified", "plan", "planUndo", "save", "look", "add", "card"}
  /\ AfterDispatch["draft"] = "execute" /\ AfterDispatch["execute"] = "executed"
  /\ AfterDispatch["executed"] = "undo" /\ AfterDispatch["undo"] = "hold"
  /\ AfterDispatch["plan"] = "planUndo" /\ AfterDispatch["planUndo"] = "save"
  /\ AfterDispatch["save"] = "look" /\ AfterDispatch["look"] = "add" /\ AfterDispatch["add"] = "card"
BY DEF AfterDispatch

LEMMA BookingIs ==
  /\ \A key \in Keys : key \in {"calendar", "crewMail"} /\ key # "referralMail"
  /\ ClaimAt["calendar"] = "hold" /\ SendAt["calendar"] = "holding" /\ DoneAt["calendar"] = "held"
  /\ ClaimAt["crewMail"] = "notify" /\ SendAt["crewMail"] = "notifying" /\ DoneAt["crewMail"] = "notified"
  /\ AfterDispatch["hold"] = "holding" /\ AfterDispatch["holding"] = "held"
  /\ AfterDispatch["held"] = "notify" /\ AfterDispatch["notify"] = "notifying"
  /\ AfterDispatch["notifying"] = "notified" /\ AfterDispatch["notified"] = "plan"
BY DEF Keys, ClaimAt, SendAt, DoneAt, AfterDispatch

LEMMA AfterApprovalIs ==
  /\ DOMAIN AfterApproval = {"execute", "grant", "file", "undo", "mail", "mailing", "mailed", "writeBack"}
  /\ AfterApproval["execute"] = "grant" /\ AfterApproval["grant"] = "file"
  /\ AfterApproval["file"] = "undo" /\ AfterApproval["undo"] = "mail"
  /\ AfterApproval["mail"] = "mailing" /\ AfterApproval["mailing"] = "mailed"
  /\ AfterApproval["mailed"] = "writeBack"
BY DEF AfterApproval

\* What claiming and completing a key leave.
LEMMA ClaimEffect ==
  ASSUME TypeOK, NEW key \in Keys \cup {"referralMail"}, Claim(key)
  PROVE  /\ claims' \in [Keys \cup {"referralMail"} -> IdempotencyRecord]
         /\ retaken' \subseteq Keys \cup {"referralMail"}
         /\ claims'[key].status = "IN_FLIGHT"
         /\ key \notin retaken' => key \notin retaken /\ ~ IsClaimable(claims[key], now)
         /\ \A other \in Keys \cup {"referralMail"} :
              other # key => claims'[other] = claims[other] /\ (other \in retaken' <=> other \in retaken)
<1>1. InFlight(now) \in IdempotencyRecord /\ InFlight(now).status = "IN_FLIGHT"
  BY ClaimAssumption DEF InFlight, IdempotencyRecord, ClaimStatus, TypeOK
<1>2. claims \in [Keys \cup {"referralMail"} -> IdempotencyRecord] /\ retaken \subseteq Keys \cup {"referralMail"}
  BY DEF TypeOK
<1>3. claims' = [claims EXCEPT ![key] = InFlight(now)]
  BY DEF Claim
<1>4. retaken' = IF IsClaimable(claims[key], now) THEN retaken \cup {key} ELSE retaken
  BY DEF Claim
<1>5. /\ claims' \in [Keys \cup {"referralMail"} -> IdempotencyRecord] /\ claims'[key].status = "IN_FLIGHT"
      /\ \A other \in Keys \cup {"referralMail"} : other # key => claims'[other] = claims[other]
  BY <1>1, <1>2, <1>3
<1>6. /\ retaken' \subseteq Keys \cup {"referralMail"}
      /\ key \notin retaken' => key \notin retaken /\ ~ IsClaimable(claims[key], now)
      /\ \A other \in Keys \cup {"referralMail"} : other # key => (other \in retaken' <=> other \in retaken)
  BY <1>2, <1>4
<1> QED
  BY <1>5, <1>6

LEMMA CompleteEffect ==
  ASSUME TypeOK, NEW key \in Keys \cup {"referralMail"}, Complete(key)
  PROVE  /\ claims' \in [Keys \cup {"referralMail"} -> IdempotencyRecord] /\ retaken' = retaken
         /\ claims'[key].status = "COMPLETED"
         /\ \A other \in Keys \cup {"referralMail"} : other # key => claims'[other] = claims[other]
<1>1. claims \in [Keys \cup {"referralMail"} -> IdempotencyRecord]
  BY DEF TypeOK
<1>2. AfterComplete(claims[key]) \in IdempotencyRecord /\ AfterComplete(claims[key]).status = "COMPLETED"
  BY <1>1 DEF AfterComplete, IdempotencyRecord, ClaimStatus
<1>3. claims' = [claims EXCEPT ![key] = AfterComplete(claims[key])] /\ retaken' = retaken
  BY DEF Complete
<1> QED
  BY <1>1, <1>2, <1>3

\* A claim is granted where there is none or where one has expired.
LEMMA GrantedIs ==
  ASSUME NEW rec \in IdempotencyRecord, NEW at
  PROVE  /\ ShouldExecute(rec, at) => rec.status = "ABSENT" \/ IsClaimable(rec, at)
         /\ ~ ShouldExecute(rec, at) => rec.status # "ABSENT"
BY DEF ShouldExecute, ClaimOutcome

\* Going on changes where the call is, and nothing else.
LEMMA MovesTo ==
  ASSUME TypeOK, NEW d \in Dispatches, NEW place \in DOMAIN AfterDispatch,
         dispatch' = [dispatch EXCEPT ![d].at = place]
  PROVE  /\ dispatch' \in [Dispatches -> Dispatching]
         /\ \A e \in Dispatches : e # d => dispatch'[e] = dispatch[e]
         /\ dispatch'[d].at = place /\ dispatch'[d].state = dispatch[d].state
         /\ dispatch'[d].company = dispatch[d].company /\ dispatch'[d].copy = dispatch[d].copy
         /\ dispatch'[d].late = dispatch[d].late
<1>1. dispatch \in [Dispatches -> Dispatching] /\ dispatch[d] \in Dispatching
  BY DEF TypeOK
<1>2. dispatch' = [dispatch EXCEPT ![d] = [dispatch[d] EXCEPT !.at = place]]
  BY <1>1
<1>3. [dispatch[d] EXCEPT !.at = place] \in Dispatching
  BY <1>1 DEF Dispatching
<1> QED
  BY <1>1, <1>2, <1>3 DEF Dispatching

LEMMA GoesOnEffect ==
  ASSUME TypeOK, NEW d \in Dispatches, NEW step \in DOMAIN AfterDispatch \ {"card"}, At(d, step), GoesOn(d)
  PROVE  /\ dispatch' \in [Dispatches -> Dispatching]
         /\ \A e \in Dispatches : e # d => dispatch'[e] = dispatch[e]
         /\ dispatch'[d].at = AfterDispatch[step] /\ dispatch[d].at = step
         /\ dispatch[d].state = "busy" /\ dispatch'[d].state = "busy"
         /\ dispatch'[d].company = dispatch[d].company /\ dispatch'[d].copy = dispatch[d].copy
         /\ dispatch'[d].late = dispatch[d].late
<1>1. dispatch[d].at = step /\ dispatch[d].state = "busy"
  BY DEF At
<1>2. AfterDispatch[step] \in DOMAIN AfterDispatch
  BY AfterDispatchIs, BookingIs
<1>3. dispatch' = [dispatch EXCEPT ![d].at = AfterDispatch[step]]
  BY <1>1 DEF GoesOn, TypeOK
<1> QED
  BY <1>1, <1>2, <1>3, MovesTo

\* What ending a call leaves.
LEMMA EndsEffect ==
  ASSUME TypeOK, NEW d \in Dispatches, NEW how \in {"answered", "failed", "cut"}, Ends(d, how)
  PROVE  /\ dispatch' \in [Dispatches -> Dispatching]
         /\ \A e \in Dispatches : e # d => dispatch'[e] = dispatch[e]
         /\ dispatch'[d].state = how /\ dispatch'[d].late = dispatch[d].late
         /\ how = "cut" => dispatch'[d].at = dispatch[d].at
<1>1. dispatch \in [Dispatches -> Dispatching]
  BY DEF TypeOK
<1> DEFINE at == IF how = "cut" THEN dispatch[d].at ELSE "end"
           over == [state |-> how, at |-> at, company |-> None, copy |-> None,
                    sees |-> FALSE, late |-> dispatch[d].late]
<1>2. dispatch[d] \in Dispatching /\ at \in DOMAIN AfterDispatch \cup {"end"}
  BY <1>1 DEF Dispatching
<1>3. over \in Dispatching
  BY <1>2 DEF Dispatching, Progress
<1>4. dispatch' = [dispatch EXCEPT ![d] = over]
  BY DEF Ends
<1> QED
  BY <1>1, <1>3, <1>4

\* What calls that take no step rely on only grows.
LEMMA OthersStay ==
  ASSUME IInv, Grows, NEW e \in Dispatches, dispatch'[e] = dispatch[e]
  PROVE  DispatchInv(dispatch[e])'
<1>1. DispatchInv(dispatch[e])
  BY DEF IInv, DispatchesInv
<1> QED
  BY <1>1 DEF DispatchInv, Passed, AllDone, Grows, Kept, Keys

LEMMA ApprovalsStay ==
  ASSUME IInv, Grows, NEW a \in Approvers, approve'[a] = approve[a]
  PROVE  ApproveInv(approve[a])'
<1>1. ApproveInv(approve[a])
  BY DEF IInv, ApprovesInv
<1> QED
  BY <1>1 DEF ApproveInv, Grows, Kept

-----------------------------------------------------------------------------
\* A dispatch that is not about to book, and that leaves the bookings and the
\* claims alone, leaves the keys as they are.
LEMMA AwayFromBooking ==
  ASSUME IInv, Kept, NEW d \in Dispatches, \A e \in Dispatches : e # d => dispatch'[e] = dispatch[e],
         UNCHANGED <<booked, claimVars, mail, approve, recipients>>,
         \A key \in Keys : dispatch'[d].at = SendAt[key] => dispatch'[d].state # "busy",
         \A key \in Keys : dispatch[d].at = SendAt[key] /\ dispatch[d].state \in {"busy", "cut"} =>
           dispatch'[d].at = SendAt[key] /\ dispatch'[d].state \in {"busy", "cut"}
  PROVE  Grows /\ ClaimsInv'
<1>1. ASSUME NEW key \in Keys PROVE Served(key) => Served(key)'
  BY <1>1 DEF Served
<1>2. Mailed => Mailed'
  BY DEF Mailed
<1>3. ASSUME NEW key \in Keys PROVE ClaimInv(key)'
  <2>1. ClaimInv(key) /\ UNCHANGED <<booked, claims, retaken>>
    BY <1>3 DEF IInv, ClaimsInv, claimVars
  <2>2. \A e \in Dispatches : At(e, SendAt[key])' => At(e, SendAt[key])
    BY <1>3 DEF At
  <2> QED
    BY <1>1, <1>3, <2>1, <2>2 DEF ClaimInv, AtMostOne
<1> QED
  BY <1>1, <1>2, <1>3 DEF Grows, ClaimsInv

\* What a step of the dispatch d does to the invariant.
DispatchEffect(d) ==
  /\ TypeOK' /\ Grows /\ ClaimsInv' /\ DispatchInv(dispatch[d])' /\ Booked' /\ AssignedRight(entry)'
  /\ \A e \in Dispatches : e # d => dispatch'[e] = dispatch[e]
  /\ dispatch[d].late => dispatch'[d].late
  /\ UNCHANGED <<approve, survey, case, mail, noted, recipients>>
  /\ claims'["referralMail"] = claims["referralMail"] /\ ("referralMail" \in retaken' <=> "referralMail" \in retaken)
  /\ referral' # referral => referral = None /\ referral'.status # "FILED"
  /\ CardHasReferral' /\ CardNext' /\ StagedIsApprovable'

LEMMA DispatchEffectKeeps ==
  ASSUME IInv, NEW d \in Dispatches, DispatchEffect(d)
  PROVE  IInv'
<1>1. Grows /\ (\A e \in Dispatches : e # d => dispatch'[e] = dispatch[e]) /\ approve' = approve
  BY DEF DispatchEffect
<1>2. DispatchesInv'
  <2>1. ASSUME NEW e \in Dispatches PROVE DispatchInv(dispatch[e])'
    <3>1. CASE e = d
      BY <3>1 DEF DispatchEffect
    <3>2. CASE e # d
      BY <1>1, <3>2, OthersStay
    <3> QED
      BY <3>1, <3>2
  <2> QED
    BY <2>1 DEF DispatchesInv
<1>3. ApprovesInv'
  <2>1. ASSUME NEW a \in Approvers PROVE ApproveInv(approve[a])'
    BY <1>1, ApprovalsStay
  <2> QED
    BY <2>1 DEF ApprovesInv
<1>4. Assigned'
  <2>1. \A e \in Dispatches : dispatch[e].late => dispatch'[e].late
    BY <1>1 DEF DispatchEffect
  <2>2. ASSUME NEW u \in Surveys PROVE AssignedRight(survey[u].copy)'
    <3>1. AssignedRight(survey[u].copy) /\ survey' = survey
      BY DEF IInv, Assigned, DispatchEffect
    <3>2. order # None => order' = order
      BY <1>1 DEF Grows, Kept
    <3> QED
      BY <2>1, <3>1, <3>2 DEF AssignedRight
  <2> QED
    BY <2>2 DEF Assigned, DispatchEffect
<1>5. FilingIsAccounted'
  BY <1>1, ActionsAssumption DEF DispatchEffect, IInv, FilingIsAccounted, AtMostOne, Grows, Kept
<1>6. FollowedUp'
  <2>1. referral' # None /\ referral'.status = "FILED" => referral # None /\ referral.status = "FILED"
    BY DEF DispatchEffect
  <2> QED
    BY <1>1, <2>1 DEF DispatchEffect, IInv, FollowedUp, Grows, Kept
<1>7. ClosingHasEntry'
  BY DEF IInv, ClosingHasEntry, DispatchEffect
<1>8. MailInv'
  BY <1>1 DEF DispatchEffect, IInv, MailInv, Mailed, On, AtMostOne
<1> QED
  BY <1>2, <1>3, <1>4, <1>5, <1>6, <1>7, <1>8 DEF IInv, DispatchEffect

\* Where a dispatch neither claims, books nor completes.
Quiet == DOMAIN AfterDispatch \ {"hold", "holding", "held", "notify", "notifying", "notified", "card"}

\* Going on from such a step leaves the keys as they are.
LEMMA QuietGrows ==
  ASSUME IInv, Kept, NEW d \in Dispatches, NEW step \in Quiet, At(d, step), GoesOn(d),
         UNCHANGED <<booked, claimVars, mail, approve, recipients>>
  PROVE  Grows /\ ClaimsInv'
<1>1. /\ \A e \in Dispatches : e # d => dispatch'[e] = dispatch[e]
      /\ dispatch'[d].at = AfterDispatch[step] /\ dispatch[d].at = step
  BY GoesOnEffect DEF IInv, Quiet
<1>2. ASSUME NEW key \in Keys PROVE dispatch'[d].at # SendAt[key] /\ dispatch[d].at # SendAt[key]
  BY <1>1, <1>2, AfterDispatchIs, BookingIs DEF Quiet
<1> QED
  BY <1>1, <1>2, AwayFromBooking

\* A step that goes on and leaves the entry, the referral and the card alone.
LEMMA GoingOn ==
  ASSUME IInv, NEW d \in Dispatches, \A e \in Dispatches : e # d => dispatch'[e] = dispatch[e],
         dispatch[d].at # "card", dispatch'[d].at # "card", dispatch'[d].late = dispatch[d].late,
         Grows, ClaimsInv', Booked', DispatchInv(dispatch[d])', TypeOK',
         claims'["referralMail"] = claims["referralMail"], "referralMail" \in retaken' <=> "referralMail" \in retaken,
         UNCHANGED <<entry, fileVars, approve, survey, recipients>>
  PROVE  DispatchEffect(d)
<1>1. AssignedRight(entry)'
  <2>1. AssignedRight(entry) /\ (order # None => order' = order) /\ entry' = entry
    BY DEF IInv, Assigned, Grows, Kept
  <2>2. \A e \in Dispatches : dispatch[e].late => dispatch'[e].late
    OBVIOUS
  <2> QED
    BY <2>1, <2>2 DEF AssignedRight
<1>2. CardHasReferral' /\ CardNext' /\ StagedIsApprovable'
  BY DEF IInv, CardHasReferral, CardNext, StagedIsApprovable, fileVars
<1> QED
  BY <1>1, <1>2 DEF DispatchEffect, fileVars

LEMMA QuietStep ==
  ASSUME IInv, Kept, NEW d \in Dispatches, NEW step \in Quiet \ {"add"}, At(d, step), GoesOn(d),
         Booked', Grows => DispatchInv(dispatch[d])', TypeOK',
         UNCHANGED <<booked, entry, fileVars, approve, survey, claimVars, envVars>>
  PROVE  DispatchEffect(d)
<1>1. /\ \A e \in Dispatches : e # d => dispatch'[e] = dispatch[e]
      /\ dispatch'[d].at = AfterDispatch[step] /\ dispatch[d].at = step
      /\ dispatch'[d].late = dispatch[d].late
  BY GoesOnEffect DEF IInv, Quiet
<1>2. dispatch[d].at # "card" /\ dispatch'[d].at # "card"
  BY <1>1, AfterDispatchIs, BookingIs DEF Quiet
<1>3. Grows /\ ClaimsInv'
  BY QuietGrows DEF fileVars, envVars
<1> QED
  BY <1>1, <1>2, <1>3, GoingOn DEF claimVars, envVars

LEMMA DraftOrderKeeps ==
  ASSUME IInv, NEW d \in Dispatches, DraftOrder(d)
  PROVE  DispatchEffect(d)
<1>1. /\ At(d, "draft") /\ GoesOn(d) /\ action' = "DRAFTED"
      /\ UNCHANGED <<queueVars, order, booked, plan, undos, fileVars, approve, survey, claimVars, envVars>>
  BY DEF DraftOrder
<1>2. Kept /\ Booked'
  BY <1>1 DEF Kept, IInv, Booked, fileVars
<1>3. /\ dispatch' \in [Dispatches -> Dispatching]
      /\ dispatch[d].at = "draft" /\ dispatch'[d].at = "execute"
      /\ dispatch[d].state = "busy" /\ dispatch'[d].state = "busy"
      /\ dispatch'[d].company = dispatch[d].company /\ dispatch'[d].copy = dispatch[d].copy
      /\ dispatch'[d].late = dispatch[d].late
  BY <1>1, GoesOnEffect, AfterDispatchIs DEF IInv
<1>4. TypeOK'
  BY <1>1, <1>3 DEF IInv, TypeOK, queueVars, fileVars, claimVars, envVars
<1>5. Grows => DispatchInv(dispatch[d])'
  BY <1>1, <1>3, BookingIs
     DEF IInv, DispatchesInv, DispatchInv, Passed, Ordering, Recording, Holding, Notifying, Planning,
         Undoing, Tail, Grows, Keys
<1> QED
  BY <1>1, <1>2, <1>4, <1>5, AfterDispatchIs, QuietStep DEF Quiet, queueVars

LEMMA RecordOrderKeeps ==
  ASSUME IInv, NEW d \in Dispatches, RecordOrder(d)
  PROVE  DispatchEffect(d)
<1>1. /\ At(d, "executed") /\ GoesOn(d) /\ action' = "EXECUTED"
      /\ UNCHANGED <<queueVars, order, booked, plan, undos, fileVars, approve, survey, claimVars, envVars>>
  BY DEF RecordOrder
<1>2. Kept /\ Booked'
  BY <1>1 DEF Kept, IInv, Booked, fileVars
<1>3. /\ dispatch' \in [Dispatches -> Dispatching]
      /\ dispatch[d].at = "executed" /\ dispatch'[d].at = "undo"
      /\ dispatch[d].state = "busy" /\ dispatch'[d].state = "busy"
      /\ dispatch'[d].company = dispatch[d].company /\ dispatch'[d].copy = dispatch[d].copy
      /\ dispatch'[d].late = dispatch[d].late
  BY <1>1, GoesOnEffect, AfterDispatchIs DEF IInv
<1>4. TypeOK'
  BY <1>1, <1>3 DEF IInv, TypeOK, queueVars, fileVars, claimVars, envVars
<1>5. Grows => DispatchInv(dispatch[d])'
  BY <1>1, <1>3, BookingIs
     DEF IInv, DispatchesInv, DispatchInv, Passed, Ordering, Recording, Holding, Notifying, Planning,
         Undoing, Tail, Grows, Keys
<1> QED
  BY <1>1, <1>2, <1>4, <1>5, AfterDispatchIs, QuietStep DEF Quiet, queueVars

LEMMA WritePlanKeeps ==
  ASSUME IInv, NEW d \in Dispatches, WritePlan(d)
  PROVE  DispatchEffect(d)
<1>1. /\ At(d, "plan") /\ GoesOn(d) /\ plan' = TRUE
      /\ UNCHANGED <<queueVars, action, order, booked, undos, fileVars, approve, survey, claimVars, envVars>>
  BY DEF WritePlan
<1>2. Kept /\ Booked'
  BY <1>1 DEF Kept, IInv, Booked, fileVars
<1>3. /\ dispatch' \in [Dispatches -> Dispatching]
      /\ dispatch[d].at = "plan" /\ dispatch'[d].at = "planUndo"
      /\ dispatch[d].state = "busy" /\ dispatch'[d].state = "busy"
      /\ dispatch'[d].company = dispatch[d].company /\ dispatch'[d].copy = dispatch[d].copy
      /\ dispatch'[d].late = dispatch[d].late
  BY <1>1, GoesOnEffect, AfterDispatchIs DEF IInv
<1>4. TypeOK'
  BY <1>1, <1>3 DEF IInv, TypeOK, queueVars, fileVars, claimVars, envVars
<1>5. Grows => DispatchInv(dispatch[d])'
  BY <1>1, <1>3, BookingIs
     DEF IInv, DispatchesInv, DispatchInv, Passed, Ordering, Recording, Holding, Notifying, Planning,
         Undoing, Tail, Grows, Keys
<1> QED
  BY <1>1, <1>2, <1>4, <1>5, AfterDispatchIs, QuietStep DEF Quiet, queueVars

\* A dispatch in time at one of the steps of a booking has its work order.
LEMMA InTime ==
  ASSUME IInv, NEW d \in Dispatches, NEW key \in Keys,
         At(d, ClaimAt[key]) \/ At(d, SendAt[key]) \/ At(d, DoneAt[key])
  PROVE  /\ dispatch[d].state = "busy" /\ ~ dispatch[d].late /\ Passed(dispatch[d])
         /\ dispatch[d].company \in Companies /\ dispatch[d].copy \in Entry
         /\ order # None /\ order.company = dispatch[d].company
         /\ dispatch[d].at \in {"hold", "holding", "held", "notify", "notifying", "notified"}
<1>1. /\ dispatch[d].state = "busy" /\ DispatchInv(dispatch[d])
      /\ dispatch[d].at \in {"hold", "holding", "held", "notify", "notifying", "notified"}
  BY BookingIs DEF At, IInv, DispatchesInv
<1>2. /\ ~ dispatch[d].late /\ Passed(dispatch[d])
      /\ dispatch[d].company \in Companies /\ dispatch[d].copy \in Entry
  BY <1>1 DEF DispatchInv, Tail
<1> QED
  BY <1>1, <1>2, ActionsAssumption DEF Passed, Ordering

\* A claim is had by the one dispatch that is to book, or it is in the way.
LEMMA ClaimBookingKeeps ==
  ASSUME IInv, NEW d \in Dispatches, NEW key \in Keys, ClaimBooking(d, key)
  PROVE  DispatchEffect(d)
<1>1. /\ At(d, ClaimAt[key]) /\ dispatch[d].at = ClaimAt[key] /\ dispatch[d].state = "busy"
      /\ UNCHANGED <<queueVars, bookVars, undos, fileVars, approve, survey, envVars>>
  BY DEF ClaimBooking, At
<1>2. /\ ~ dispatch[d].late /\ Passed(dispatch[d]) /\ dispatch[d].company \in Companies /\ dispatch[d].copy \in Entry
  BY <1>1, InTime
<1>3. Kept /\ Booked'
  BY <1>1 DEF Kept, IInv, Booked, bookVars, fileVars
<1>4. TypeOK /\ ClaimsInv /\ ClaimInv(key)
  BY DEF IInv, ClaimsInv
<1>5. claims[key] \in IdempotencyRecord
  BY <1>4 DEF TypeOK
<1>6. CASE ShouldExecute(claims[key], now)
  <2>1. Claim(key) /\ GoesOn(d)
    BY <1>6 DEF ClaimBooking
  <2>2. ClaimAt[key] \in DOMAIN AfterDispatch \ {"card"} /\ AfterDispatch[ClaimAt[key]] = SendAt[key]
    BY AfterDispatchIs, BookingIs
  <2>3. /\ dispatch' \in [Dispatches -> Dispatching]
        /\ \A e \in Dispatches : e # d => dispatch'[e] = dispatch[e]
        /\ dispatch'[d].at = SendAt[key] /\ dispatch'[d].state = "busy"
        /\ dispatch'[d].company = dispatch[d].company /\ dispatch'[d].copy = dispatch[d].copy
        /\ dispatch'[d].late = dispatch[d].late
    BY <1>1, <1>4, <2>1, <2>2, GoesOnEffect
  <2>4. /\ claims' \in [Keys \cup {"referralMail"} -> IdempotencyRecord]
        /\ retaken' \subseteq Keys \cup {"referralMail"}
        /\ claims'[key].status = "IN_FLIGHT"
        /\ key \notin retaken' => key \notin retaken /\ ~ IsClaimable(claims[key], now)
        /\ \A other \in Keys \cup {"referralMail"} :
             other # key => claims'[other] = claims[other] /\ (other \in retaken' <=> other \in retaken)
    BY <1>4, <2>1, ClaimEffect
  <2>5. Grows /\ Served(key)'
    <3>1. ASSUME NEW k \in Keys PROVE Served(k) => Served(k)'
      <4>1. dispatch[d].at # SendAt[k]
        BY <1>1, <3>1, BookingIs
      <4> QED
        BY <1>1, <2>3, <4>1 DEF Served, bookVars
    <3>2. Served(key)'
      BY <2>3 DEF Served
    <3>3. Mailed => Mailed'
      BY <1>1 DEF Mailed, fileVars, envVars
    <3> QED
      BY <1>3, <3>1, <3>2, <3>3 DEF Grows
  <2>6. ClaimsInv'
    <3>1. ASSUME NEW k \in Keys, k # key PROVE ClaimInv(k)'
      <4>1. ClaimInv(k) /\ claims'[k] = claims[k] /\ (k \in retaken' <=> k \in retaken) /\ booked' = booked
        BY <1>1, <1>4, <2>4, <3>1 DEF ClaimsInv, bookVars
      <4>2. \A e \in Dispatches : At(e, SendAt[k])' => At(e, SendAt[k])
        BY <2>3, <3>1, BookingIs DEF At
      <4>3. Served(k) => Served(k)'
        BY <2>5, <3>1 DEF Grows
      <4> QED
        BY <4>1, <4>2, <4>3 DEF ClaimInv, AtMostOne
    <3>2. ClaimInv(key)'
      <4>1. key \notin retaken' => booked'[key] = {} /\ \A e \in Dispatches : At(e, SendAt[key])' => e = d
        <5>1. key \notin retaken' => claims[key].status = "ABSENT"
          BY <1>5, <1>6, <2>4, GrantedIs
        <5> QED
          BY <1>1, <1>4, <2>3, <5>1 DEF ClaimInv, At, bookVars
      <4> QED
        BY <2>4, <2>5, <4>1 DEF ClaimInv, AtMostOne
    <3> QED
      BY <3>1, <3>2 DEF ClaimsInv
  <2>7. TypeOK'
    BY <1>1, <2>3, <2>4 DEF IInv, TypeOK, queueVars, bookVars, fileVars, envVars
  <2>8. DispatchInv(dispatch[d])'
    <3>1. key \in {"calendar", "crewMail"}
      BY BookingIs
    <3>2. CASE key = "calendar"
      BY <1>1, <1>2, <2>3, <2>5, <3>2, BookingIs
         DEF DispatchInv, Passed, Grows, bookVars, Ordering, Recording, Holding, Notifying, Planning,
             Undoing, Tail
    <3>3. CASE key = "crewMail"
      BY <1>1, <1>2, <2>3, <2>5, <3>3, BookingIs
         DEF DispatchInv, Passed, Grows, bookVars, Keys, Ordering, Recording, Holding, Notifying, Planning,
             Undoing, Tail
    <3> QED
      BY <3>1, <3>2, <3>3
  <2>9. /\ dispatch[d].at # "card" /\ dispatch'[d].at # "card"
        /\ claims'["referralMail"] = claims["referralMail"]
        /\ "referralMail" \in retaken' <=> "referralMail" \in retaken
    BY <1>1, <2>3, <2>4, BookingIs
  <2> QED
    BY <1>1, <1>3, <2>3, <2>5, <2>6, <2>7, <2>8, <2>9, GoingOn DEF queueVars, envVars
<1>7. CASE ~ ShouldExecute(claims[key], now)
  <2>1. dispatch' = [dispatch EXCEPT ![d].at = AfterDispatch[DoneAt[key]]] /\ UNCHANGED claimVars
    BY <1>7 DEF ClaimBooking
  <2>2. AfterDispatch[DoneAt[key]] \in DOMAIN AfterDispatch
    BY AfterDispatchIs, BookingIs
  <2>3. /\ dispatch' \in [Dispatches -> Dispatching]
        /\ \A e \in Dispatches : e # d => dispatch'[e] = dispatch[e]
        /\ dispatch'[d].at = AfterDispatch[DoneAt[key]] /\ dispatch'[d].state = "busy"
        /\ dispatch'[d].company = dispatch[d].company /\ dispatch'[d].copy = dispatch[d].copy
        /\ dispatch'[d].late = dispatch[d].late
    BY <1>1, <1>4, <2>1, <2>2, MovesTo
  <2>4. Grows /\ ClaimsInv'
    <3>1. ASSUME NEW k \in Keys PROVE dispatch[d].at # SendAt[k] /\ dispatch'[d].at # SendAt[k]
      BY <1>1, <2>3, <3>1, BookingIs
    <3> QED
      BY <1>1, <1>3, <2>1, <2>3, <3>1, AwayFromBooking DEF bookVars, fileVars, envVars
  <2>5. Served(key)'
    <3>1. Served(key)
      BY <1>4, <1>5, <1>7, GrantedIs DEF ClaimInv
    <3> QED
      BY <2>4, <3>1 DEF Grows
  <2>6. TypeOK'
    BY <1>1, <2>1, <2>3 DEF IInv, TypeOK, queueVars, bookVars, fileVars, claimVars, envVars
  <2>7. DispatchInv(dispatch[d])'
    <3>1. key \in {"calendar", "crewMail"}
      BY BookingIs
    <3>2. CASE key = "calendar"
      BY <1>1, <1>2, <2>3, <2>4, <2>5, <3>2, BookingIs
         DEF DispatchInv, Passed, Grows, bookVars, Ordering, Recording, Holding, Notifying, Planning,
             Undoing, Tail
    <3>3. CASE key = "crewMail"
      BY <1>1, <1>2, <2>3, <2>4, <2>5, <3>3, BookingIs
         DEF DispatchInv, Passed, Grows, bookVars, Keys, Ordering, Recording, Holding, Notifying, Planning,
             Undoing, Tail
    <3> QED
      BY <3>1, <3>2, <3>3
  <2>8. dispatch[d].at # "card" /\ dispatch'[d].at # "card"
    BY <1>1, <2>3, BookingIs
  <2> QED
    BY <1>1, <1>3, <2>1, <2>3, <2>4, <2>6, <2>7, <2>8, GoingOn DEF queueVars, claimVars, envVars
<1> QED
  BY <1>6, <1>7

\* The booking is the key's first unless its claim was taken over.
LEMMA BookKeeps ==
  ASSUME IInv, NEW d \in Dispatches, NEW key \in Keys, Book(d, key)
  PROVE  DispatchEffect(d)
<1> DEFINE mine == [by |-> d, company |-> dispatch[d].company]
<1>1. /\ At(d, SendAt[key]) /\ GoesOn(d) /\ dispatch[d].at = SendAt[key] /\ dispatch[d].state = "busy"
      /\ booked' = [booked EXCEPT ![key] = booked[key] \cup {mine}]
      /\ UNCHANGED <<queueVars, action, order, plan, undos, fileVars, approve, survey, claimVars, envVars>>
  BY DEF Book, At
<1>2. /\ ~ dispatch[d].late /\ Passed(dispatch[d]) /\ dispatch[d].company \in Companies /\ dispatch[d].copy \in Entry
      /\ order # None /\ order.company = dispatch[d].company
  BY <1>1, InTime
<1>3. TypeOK /\ ClaimsInv /\ ClaimInv(key) /\ booked \in [Keys -> SUBSET Booking]
  BY DEF IInv, ClaimsInv, TypeOK
<1>4. /\ booked' \in [Keys -> SUBSET Booking] /\ booked'[key] = booked[key] \cup {mine}
      /\ \A k \in Keys : k # key => booked'[k] = booked[k]
  <2>1. mine \in Booking
    BY <1>2 DEF Booking
  <2> HIDE DEF mine
  <2> QED
    BY <1>1, <1>3, <2>1
<1>5. Kept /\ Booked'
  <2>1. Kept
    BY <1>1, <1>4 DEF Kept, fileVars
  <2>2. Booked'
    BY <1>1, <1>2, <1>4 DEF IInv, Booked
  <2> QED
    BY <2>1, <2>2
<1>6. SendAt[key] \in DOMAIN AfterDispatch \ {"card"} /\ AfterDispatch[SendAt[key]] = DoneAt[key]
  BY AfterDispatchIs, BookingIs
<1>7. /\ dispatch' \in [Dispatches -> Dispatching]
      /\ \A e \in Dispatches : e # d => dispatch'[e] = dispatch[e]
      /\ dispatch'[d].at = DoneAt[key] /\ dispatch'[d].state = "busy"
      /\ dispatch'[d].company = dispatch[d].company /\ dispatch'[d].copy = dispatch[d].copy
      /\ dispatch'[d].late = dispatch[d].late
  BY <1>1, <1>3, <1>6, GoesOnEffect
<1>8. Grows /\ Served(key)' /\ booked'[key] # {}
  <2>1. ASSUME NEW k \in Keys, k # key PROVE Served(k) => Served(k)'
    <3>1. dispatch[d].at # SendAt[k]
      BY <1>1, <2>1, BookingIs
    <3> QED
      BY <1>4, <1>7, <2>1, <3>1 DEF Served
  <2>2. booked'[key] # {}
    BY <1>4
  <2>3. Served(key)'
    BY <2>2 DEF Served
  <2>4. Mailed => Mailed'
    BY <1>1 DEF Mailed, fileVars, envVars
  <2> QED
    BY <1>5, <2>1, <2>2, <2>3, <2>4 DEF Grows
<1>9. ClaimsInv'
  <2>1. ASSUME NEW k \in Keys, k # key PROVE ClaimInv(k)'
    <3>1. ClaimInv(k) /\ UNCHANGED <<claims, retaken>> /\ booked'[k] = booked[k]
      BY <1>1, <1>3, <1>4, <2>1 DEF ClaimsInv, claimVars
    <3>2. \A e \in Dispatches : At(e, SendAt[k])' => At(e, SendAt[k])
      BY <1>7, <2>1, BookingIs DEF At
    <3>3. Served(k) => Served(k)'
      BY <1>8, <2>1 DEF Grows
    <3> QED
      BY <3>1, <3>2, <3>3 DEF ClaimInv, AtMostOne
  <2>2. ClaimInv(key)'
    <3>1. claims[key].status # "ABSENT" /\ UNCHANGED <<claims, retaken>>
      BY <1>1, <1>3 DEF ClaimInv, claimVars
    <3>2. key \notin retaken => booked'[key] = {mine} /\ \A e \in Dispatches : ~ At(e, SendAt[key])'
      <4>1. key \notin retaken => booked[key] = {} /\ \A e \in Dispatches : At(e, SendAt[key]) => e = d
        BY <1>1, <1>3 DEF ClaimInv
      <4>2. \A e \in Dispatches : At(e, SendAt[key])' => e # d /\ At(e, SendAt[key])
        BY <1>7, BookingIs DEF At
      <4> QED
        BY <1>4, <4>1, <4>2
    <3> HIDE DEF mine
    <3> QED
      BY <1>8, <3>1, <3>2 DEF ClaimInv, AtMostOne
  <2> QED
    BY <2>1, <2>2 DEF ClaimsInv
<1>10. TypeOK'
  BY <1>1, <1>4, <1>7 DEF IInv, TypeOK, queueVars, fileVars, claimVars, envVars
<1>11. DispatchInv(dispatch[d])'
  <2>1. key \in {"calendar", "crewMail"}
    BY BookingIs
  <2>2. CASE key = "calendar"
    BY <1>1, <1>2, <1>7, <1>8, <2>2, BookingIs
       DEF DispatchInv, Passed, Grows, Kept, Ordering, Recording, Holding, Notifying, Planning, Undoing,
           Tail
  <2>3. CASE key = "crewMail"
    BY <1>1, <1>2, <1>7, <1>8, <2>3, BookingIs
       DEF DispatchInv, Passed, Grows, Kept, Keys, Ordering, Recording, Holding, Notifying, Planning,
           Undoing, Tail
  <2> QED
    BY <2>1, <2>2, <2>3
<1>12. dispatch[d].at # "card" /\ dispatch'[d].at # "card"
  BY <1>1, <1>7, BookingIs
<1> QED
  BY <1>1, <1>5, <1>7, <1>8, <1>9, <1>10, <1>11, <1>12, GoingOn DEF queueVars, claimVars, envVars

\* Whoever completes a claim has booked.
LEMMA CompleteBookingKeeps ==
  ASSUME IInv, NEW d \in Dispatches, NEW key \in Keys, CompleteBooking(d, key)
  PROVE  DispatchEffect(d)
<1>1. /\ At(d, DoneAt[key]) /\ GoesOn(d) /\ dispatch[d].at = DoneAt[key] /\ dispatch[d].state = "busy"
      /\ Complete(key) /\ UNCHANGED <<queueVars, bookVars, undos, fileVars, approve, survey, envVars>>
  BY DEF CompleteBooking, At
<1>2. /\ ~ dispatch[d].late /\ Passed(dispatch[d]) /\ dispatch[d].company \in Companies /\ dispatch[d].copy \in Entry
  BY <1>1, InTime
<1>3. TypeOK /\ ClaimsInv /\ ClaimInv(key) /\ booked[key] # {}
  BY <1>1, <1>2 DEF IInv, ClaimsInv, Passed
<1>4. Kept /\ Booked'
  BY <1>1 DEF Kept, IInv, Booked, bookVars, fileVars
<1>5. DoneAt[key] \in DOMAIN AfterDispatch \ {"card"} /\ AfterDispatch[DoneAt[key]] \in {"notify", "plan"}
  BY AfterDispatchIs, BookingIs
<1>6. /\ dispatch' \in [Dispatches -> Dispatching]
      /\ \A e \in Dispatches : e # d => dispatch'[e] = dispatch[e]
      /\ dispatch'[d].at = AfterDispatch[DoneAt[key]] /\ dispatch'[d].state = "busy"
      /\ dispatch'[d].company = dispatch[d].company /\ dispatch'[d].copy = dispatch[d].copy
      /\ dispatch'[d].late = dispatch[d].late
  BY <1>1, <1>3, <1>5, GoesOnEffect
<1>7. /\ claims' \in [Keys \cup {"referralMail"} -> IdempotencyRecord] /\ retaken' = retaken
      /\ claims'[key].status = "COMPLETED"
      /\ \A other \in Keys \cup {"referralMail"} : other # key => claims'[other] = claims[other]
  BY <1>1, <1>3, CompleteEffect
<1>8. Grows /\ Served(key)
  <2>1. ASSUME NEW k \in Keys PROVE Served(k) => Served(k)'
    <3>1. dispatch[d].at # SendAt[k]
      BY <1>1, <2>1, BookingIs
    <3> QED
      BY <1>1, <1>6, <3>1 DEF Served, bookVars
  <2>2. Mailed => Mailed'
    BY <1>1 DEF Mailed, fileVars, envVars
  <2>3. Served(key)
    BY <1>3 DEF Served
  <2> QED
    BY <1>4, <2>1, <2>2, <2>3 DEF Grows
<1>9. ClaimsInv'
  <2>1. ASSUME NEW k \in Keys PROVE ClaimInv(k)'
    <3>1. /\ ClaimInv(k) /\ retaken' = retaken /\ booked' = booked
          /\ k # key => claims'[k] = claims[k]
          /\ k = key => claims'[k].status # "ABSENT" /\ Served(k)
      BY <1>1, <1>3, <1>7, <1>8, <2>1 DEF ClaimsInv, bookVars
    <3>2. \A e \in Dispatches : At(e, SendAt[k])' => At(e, SendAt[k])
      BY <1>5, <1>6, <2>1, BookingIs DEF At
    <3>3. Served(k) => Served(k)'
      BY <1>8, <2>1 DEF Grows
    <3> QED
      BY <3>1, <3>2, <3>3 DEF ClaimInv, AtMostOne
  <2> QED
    BY <2>1 DEF ClaimsInv
<1>10. TypeOK'
  BY <1>1, <1>6, <1>7 DEF IInv, TypeOK, queueVars, bookVars, fileVars, envVars
<1>11. DispatchInv(dispatch[d])'
  <2>1. key \in {"calendar", "crewMail"}
    BY BookingIs
  <2>2. CASE key = "calendar"
    BY <1>1, <1>2, <1>6, <1>8, <2>2, BookingIs
       DEF DispatchInv, Passed, Grows, bookVars, Ordering, Recording, Holding, Notifying, Planning,
           Undoing, Tail
  <2>3. CASE key = "crewMail"
    BY <1>1, <1>2, <1>6, <1>8, <2>3, BookingIs
       DEF DispatchInv, Passed, Grows, bookVars, Keys, Ordering, Recording, Holding, Notifying, Planning,
           Undoing, Tail
  <2> QED
    BY <2>1, <2>2, <2>3
<1>12. /\ dispatch[d].at # "card" /\ dispatch'[d].at # "card"
       /\ claims'["referralMail"] = claims["referralMail"]
       /\ "referralMail" \in retaken' <=> "referralMail" \in retaken
  BY <1>1, <1>5, <1>6, <1>7, BookingIs
<1> QED
  BY <1>1, <1>4, <1>6, <1>8, <1>9, <1>10, <1>11, <1>12, GoingOn DEF queueVars, envVars

LEMMA RecordUndoKeeps ==
  ASSUME IInv, NEW d \in Dispatches, RecordUndo(d)
  PROVE  DispatchEffect(d)
<1>1. /\ GoesOn(d) /\ undos \subseteq undos' /\ undos' \subseteq {"order", "plan", "filing"}
      /\ UNCHANGED <<queueVars, bookVars, fileVars, approve, survey, claimVars, envVars>>
  BY DEF RecordUndo, IInv, TypeOK
<1>2. Kept /\ Booked'
  BY <1>1 DEF Kept, IInv, Booked, fileVars, bookVars
<1>3. ASSUME NEW step \in {"undo", "planUndo"}, At(d, step), step = "undo" => "order" \in undos',
             step = "planUndo" => "plan" \in undos'
      PROVE  DispatchEffect(d)
  <2>1. /\ dispatch' \in [Dispatches -> Dispatching]
        /\ dispatch[d].at = step /\ dispatch'[d].at = IF step = "undo" THEN "hold" ELSE "save"
        /\ dispatch[d].state = "busy" /\ dispatch'[d].state = "busy"
        /\ dispatch'[d].company = dispatch[d].company /\ dispatch'[d].copy = dispatch[d].copy
        /\ dispatch'[d].late = dispatch[d].late
    BY <1>1, <1>3, GoesOnEffect, AfterDispatchIs DEF IInv
  <2>2. TypeOK'
    BY <1>1, <2>1 DEF IInv, TypeOK, queueVars, fileVars, bookVars, claimVars, envVars
  <2>3. Grows => DispatchInv(dispatch[d])'
    BY <1>1, <1>3, <2>1, BookingIs
       DEF IInv, DispatchesInv, DispatchInv, Passed, Grows, Keys, Ordering, Recording, Holding, Notifying,
           Planning, Undoing, Tail, bookVars
  <2> QED
    BY <1>1, <1>2, <1>3, <2>2, <2>3, AfterDispatchIs, QuietStep DEF Quiet, queueVars, bookVars
<1> QED
  BY <1>3 DEF RecordUndo

\* Skipping leaves the call late, with the tail before it.
LEMMA SkipKeeps ==
  ASSUME IInv, NEW d \in Dispatches, Skip(d)
  PROVE  DispatchEffect(d)
<1> DEFINE r == dispatch[d]
           over == [state |-> "busy", at |-> "save", company |-> r.company,
                    copy |-> r.copy, sees |-> r.sees, late |-> TRUE]
<1>1. /\ r.state = "busy" /\ r.at \in {"draft", "hold", "notify", "plan"}
      /\ dispatch' = [dispatch EXCEPT ![d] = over]
      /\ UNCHANGED <<queueVars, bookVars, undos, fileVars, approve, survey, claimVars, recipients, now, events>>
      /\ cuts < MaxCuts /\ cuts' = cuts + 1
  BY DEF Skip, At
<1>2. dispatch \in [Dispatches -> Dispatching] /\ r \in Dispatching
  BY DEF IInv, TypeOK
<1>3. over \in Dispatching
  BY <1>2, AfterDispatchIs DEF Dispatching, Progress
<1>4. /\ dispatch'[d] = over /\ \A e \in Dispatches : e # d => dispatch'[e] = dispatch[e]
      /\ dispatch' \in [Dispatches -> Dispatching]
  BY <1>1, <1>2, <1>3
<1>5. DispatchInv(dispatch[d])'
  <2>1. r.company \in Companies /\ r.copy \in Entry
    BY <1>1 DEF IInv, DispatchesInv, DispatchInv
  <2> QED
    BY <1>4, <2>1 DEF DispatchInv, Tail
<1>6. TypeOK' /\ Grows /\ ClaimsInv' /\ Booked'
  <2>1. cuts' \in 0..MaxCuts
    BY <1>1, ActionsAssumption DEF IInv, TypeOK
  <2>2. TypeOK' /\ Kept /\ Booked'
    BY <1>1, <1>4, <2>1 DEF IInv, TypeOK, Kept, Booked, queueVars, fileVars, bookVars, claimVars
  <2>3. \A key \in Keys : r.at # SendAt[key] /\ dispatch'[d].at # SendAt[key]
    BY <1>1, <1>4, BookingIs
  <2> QED
    BY <1>1, <1>4, <2>2, <2>3, AwayFromBooking DEF bookVars, fileVars
<1>7. AssignedRight(entry)' /\ CardHasReferral' /\ CardNext' /\ StagedIsApprovable'
  <2>1. r.at # "card" /\ dispatch'[d].at # "card" /\ dispatch'[d].late
    BY <1>1, <1>4
  <2>2. AssignedRight(entry)'
    BY <2>1 DEF AssignedRight
  <2>3. CardHasReferral' /\ CardNext' /\ StagedIsApprovable'
    BY <1>1, <1>4, <2>1 DEF IInv, CardHasReferral, CardNext, StagedIsApprovable, fileVars
  <2> QED
    BY <2>2, <2>3
<1> QED
  BY <1>1, <1>4, <1>5, <1>6, <1>7 DEF DispatchEffect, fileVars, claimVars

\* A call that ends, how it may, and leaves all but the card alone.
LEMMA EndingStep ==
  ASSUME IInv, NEW d \in Dispatches, NEW how \in {"answered", "failed", "cut"}, Ends(d, how),
         dispatch[d].at = "card" => how = "cut" \/ card' # None \/ referral = None,
         how = "answered" /\ ~ dispatch[d].late => AllDone,
         card' = card \/ (referral # None /\ card = None),
         card' \in Approval \cup {None}, card' # None \/ card = None,
         how = "cut" \/ \A key \in Keys : dispatch[d].at # SendAt[key],
         dispatch[d].state \in {"busy", "cut"}, cuts' \in 0..MaxCuts,
         UNCHANGED <<queueVars, bookVars, undos, referral, case, mail, noted, approve, survey, claimVars,
                     recipients, now, events>>
  PROVE  DispatchEffect(d)
<1>1. /\ dispatch' \in [Dispatches -> Dispatching]
      /\ \A e \in Dispatches : e # d => dispatch'[e] = dispatch[e]
      /\ dispatch'[d].state = how /\ dispatch'[d].late = dispatch[d].late
      /\ how = "cut" => dispatch'[d].at = dispatch[d].at
  BY EndsEffect DEF IInv
<1>2. TypeOK' /\ Grows /\ ClaimsInv' /\ Booked'
  <2>1. TypeOK' /\ Kept /\ Booked'
    BY <1>1 DEF IInv, TypeOK, Kept, Booked, queueVars, bookVars, claimVars
  <2> QED
    BY <1>1, <2>1, AwayFromBooking DEF bookVars
<1>3. DispatchInv(dispatch[d])'
  BY <1>1, <1>2 DEF DispatchInv, AllDone, Grows, bookVars
<1>4. AssignedRight(entry)'
  <2>1. AssignedRight(entry) /\ UNCHANGED <<order, entry>>
    BY DEF IInv, Assigned, queueVars, bookVars
  <2>2. \A e \in Dispatches : dispatch[e].late => dispatch'[e].late
    BY <1>1
  <2> QED
    BY <2>1, <2>2 DEF AssignedRight
<1>5. CardHasReferral' /\ CardNext'
  BY <1>1 DEF IInv, CardHasReferral, CardNext
<1>6. StagedIsApprovable'
  <2> SUFFICES ASSUME referral' # None, card' = None
               PROVE  \E e \in Dispatches : dispatch'[e].at = "card" /\ dispatch'[e].state \in {"busy", "cut"}
    BY DEF StagedIsApprovable
  <2>1. PICK e \in Dispatches : dispatch[e].at = "card" /\ dispatch[e].state \in {"busy", "cut"}
    BY DEF IInv, StagedIsApprovable
  <2> QED
    BY <1>1, <2>1
<1> QED
  BY <1>1, <1>2, <1>3, <1>4, <1>5, <1>6 DEF DispatchEffect, claimVars

LEMMA ExecuteOrderKeeps ==
  ASSUME IInv, NEW d \in Dispatches, ExecuteOrder(d)
  PROVE  DispatchEffect(d)
<1>1. /\ At(d, "execute") /\ dispatch[d].at = "execute" /\ dispatch[d].state = "busy"
      /\ UNCHANGED <<queueVars, action, booked, plan, undos, fileVars, approve, survey, claimVars, envVars>>
  BY DEF ExecuteOrder, At
<1>2. /\ ~ dispatch[d].late /\ dispatch[d].company \in Companies /\ dispatch[d].copy \in Entry
  BY <1>1 DEF IInv, DispatchesInv, DispatchInv, Tail
<1>3. Asked(d) \in WorkOrder /\ Asked(d).company = dispatch[d].company
  BY <1>2 DEF Asked, WorkOrder, Entry
<1>4. CASE Accepts(d)
  <2>1. GoesOn(d) /\ order' = IF order = None THEN Asked(d) ELSE order
    BY <1>4 DEF ExecuteOrder
  <2>2. order' = Asked(d) /\ (order # None => order' = order) /\ order' # None
    BY <1>3, <1>4, <2>1, ActionsAssumption DEF Accepts
  <2>3. /\ dispatch' \in [Dispatches -> Dispatching]
        /\ dispatch'[d].at = "executed" /\ dispatch'[d].state = "busy"
        /\ dispatch'[d].company = dispatch[d].company /\ dispatch'[d].copy = dispatch[d].copy
        /\ dispatch'[d].late = dispatch[d].late
    BY <1>1, <2>1, GoesOnEffect, AfterDispatchIs DEF IInv
  <2>4. Kept /\ Booked'
    BY <1>1, <2>2 DEF Kept, IInv, Booked, fileVars
  <2>5. TypeOK'
    BY <1>1, <1>3, <2>2, <2>3 DEF IInv, TypeOK, queueVars, fileVars, claimVars, envVars
  <2>6. Grows => DispatchInv(dispatch[d])'
    BY <1>2, <1>3, <2>2, <2>3, BookingIs
       DEF DispatchInv, Passed, Ordering, Recording, Holding, Notifying, Planning, Undoing, Tail
  <2> QED
    BY <1>1, <2>1, <2>4, <2>5, <2>6, AfterDispatchIs, QuietStep DEF Quiet, queueVars
<1>5. CASE ~ Accepts(d)
  <2>1. Ends(d, "failed") /\ UNCHANGED <<order, bookVars>> /\ UNCHANGED card /\ card \in Approval \cup {None}
    BY <1>1, <1>5 DEF ExecuteOrder, bookVars, fileVars, IInv, TypeOK
  <2>2. cuts' \in 0..MaxCuts /\ \A key \in Keys : dispatch[d].at # SendAt[key]
    BY <1>1, BookingIs DEF IInv, TypeOK, envVars
  <2> QED
    BY <1>1, <2>1, <2>2, EndingStep DEF fileVars, envVars
<1> QED
  BY <1>4, <1>5

LEMMA LookForReferralKeeps ==
  ASSUME IInv, NEW d \in Dispatches, LookForReferral(d)
  PROVE  DispatchEffect(d)
<1>1. /\ At(d, "look") /\ dispatch[d].at = "look" /\ dispatch[d].state = "busy"
      /\ UNCHANGED <<queueVars, bookVars, undos, fileVars, approve, survey, claimVars, envVars>>
  BY DEF LookForReferral, At
<1>2. /\ Kept /\ Booked' /\ card' \in Approval \cup {None} /\ cuts' \in 0..MaxCuts
      /\ \A key \in Keys : dispatch[d].at # SendAt[key]
  BY <1>1, BookingIs DEF Kept, IInv, Booked, TypeOK, fileVars, bookVars, envVars
<1>3. DispatchInv(dispatch[d])
  BY DEF IInv, DispatchesInv
<1>4. CASE GoesOn(d)
  <2>1. /\ dispatch' \in [Dispatches -> Dispatching]
        /\ dispatch'[d].at = "add" /\ dispatch'[d].state = "busy"
        /\ dispatch'[d].company = dispatch[d].company /\ dispatch'[d].copy = dispatch[d].copy
        /\ dispatch'[d].late = dispatch[d].late
    BY <1>1, <1>4, GoesOnEffect, AfterDispatchIs DEF IInv
  <2>2. TypeOK'
    BY <1>1, <2>1 DEF IInv, TypeOK, queueVars, fileVars, bookVars, claimVars, envVars
  <2>3. Grows => DispatchInv(dispatch[d])'
    BY <1>1, <1>3, <2>1, BookingIs
       DEF DispatchInv, Passed, Grows, Keys, Ordering, Recording, Holding, Notifying, Planning, Undoing,
           Tail, bookVars
  <2> QED
    BY <1>1, <1>2, <1>4, <2>2, <2>3, AfterDispatchIs, QuietStep DEF Quiet, queueVars, bookVars
<1>5. CASE Ends(d, "answered")
  <2>1. ~ dispatch[d].late => AllDone
    BY <1>1, <1>3, BookingIs
       DEF DispatchInv, Passed, AllDone, Ordering, Recording, Holding, Notifying, Planning, Undoing, Tail
  <2> QED
    BY <1>1, <1>2, <1>5, <2>1, EndingStep DEF fileVars, envVars
<1> QED
  BY <1>4, <1>5 DEF LookForReferral

LEMMA StageCardKeeps ==
  ASSUME IInv, NEW d \in Dispatches, StageCard(d)
  PROVE  DispatchEffect(d)
<1>1. /\ dispatch[d].at = "card" /\ dispatch[d].state = "busy"
      /\ UNCHANGED <<queueVars, bookVars, undos, referral, case, mail, noted, approve, survey, claimVars, envVars>>
  BY DEF StageCard, At
<1>2. /\ DispatchInv(dispatch[d]) /\ referral # None /\ cuts' \in 0..MaxCuts
      /\ UNCHANGED <<recipients, now, events>> /\ \A key \in Keys : dispatch[d].at # SendAt[key]
  BY <1>1, BookingIs DEF IInv, DispatchesInv, CardNext, TypeOK, envVars
<1>3. ~ dispatch[d].late => AllDone
  BY <1>1, <1>2, BookingIs
     DEF DispatchInv, Passed, AllDone, Ordering, Recording, Holding, Notifying, Planning, Undoing, Tail
<1>4. CASE card = None
  <2> DEFINE staged == [status |-> "STAGED", by |-> None]
  <2>1. card' = staged /\ Ends(d, "answered")
    BY <1>4 DEF StageCard
  <2>2. staged \in Approval /\ staged # None
    BY ActionsAssumption DEF Approval
  <2> QED
    BY <1>1, <1>2, <1>3, <1>4, <2>1, <2>2, EndingStep
<1>5. CASE card # None
  <2>1. UNCHANGED card /\ Ends(d, "failed") /\ card \in Approval
    BY <1>5 DEF StageCard, IInv, TypeOK
  <2> QED
    BY <1>1, <1>2, <1>5, <2>1, EndingStep
<1> QED
  BY <1>4, <1>5

\* Adding the referral leaves the card to stage.
LEMMA AddReferralKeeps ==
  ASSUME IInv, NEW d \in Dispatches, AddReferral(d)
  PROVE  DispatchEffect(d)
<1>1. /\ At(d, "add") /\ dispatch[d].at = "add" /\ dispatch[d].state = "busy"
      /\ UNCHANGED <<queueVars, bookVars, undos, card, case, mail, noted, approve, survey, claimVars, envVars>>
  BY DEF AddReferral, At
<1>2. /\ DispatchInv(dispatch[d]) /\ card \in Approval \cup {None} /\ cuts' \in 0..MaxCuts
      /\ UNCHANGED <<recipients, now, events>> /\ \A key \in Keys : dispatch[d].at # SendAt[key]
  BY <1>1, BookingIs DEF IInv, DispatchesInv, TypeOK, envVars
<1>3. CASE referral = None
  <2> DEFINE drafted == [status |-> "AWAITING_APPROVAL", by |-> None]
  <2>1. referral' = drafted /\ GoesOn(d)
    BY <1>3 DEF AddReferral
  <2>2. drafted \in Referral /\ drafted # None
    BY ActionsAssumption DEF Referral
  <2>3. /\ dispatch' \in [Dispatches -> Dispatching]
        /\ \A e \in Dispatches : e # d => dispatch'[e] = dispatch[e]
        /\ dispatch'[d].at = "card" /\ dispatch'[d].state = "busy"
        /\ dispatch'[d].company = dispatch[d].company /\ dispatch'[d].copy = dispatch[d].copy
        /\ dispatch'[d].late = dispatch[d].late
    BY <1>1, <2>1, GoesOnEffect, AfterDispatchIs DEF IInv
  <2>4. TypeOK' /\ Booked'
    BY <1>1, <2>1, <2>2, <2>3 DEF IInv, TypeOK, Booked, queueVars, bookVars, claimVars, envVars
  <2>5. Grows /\ ClaimsInv'
    <3>1. Kept
      BY <1>1, <1>3, <2>1, <2>2 DEF Kept, bookVars
    <3> QED
      BY <1>1, <1>2, <2>1, <3>1, AfterDispatchIs, QuietGrows DEF Quiet, bookVars
  <2>6. DispatchInv(dispatch[d])'
    BY <1>1, <1>2, <2>3, <2>5, BookingIs
       DEF DispatchInv, Passed, Grows, Keys, Ordering, Recording, Holding, Notifying, Planning, Undoing,
           Tail, bookVars
  <2>7. AssignedRight(entry)'
    <3>1. AssignedRight(entry) /\ UNCHANGED <<order, entry>>
      BY <1>1 DEF IInv, Assigned, queueVars, bookVars
    <3>2. \A e \in Dispatches : dispatch[e].late => dispatch'[e].late
      BY <2>3
    <3> QED
      BY <3>1, <3>2 DEF AssignedRight
  <2>8. CardHasReferral' /\ CardNext' /\ StagedIsApprovable'
    BY <1>1, <2>1, <2>2, <2>3 DEF CardHasReferral, CardNext, StagedIsApprovable
  <2>9. referral' # referral /\ referral'.status # "FILED"
    BY <1>3, <2>1, <2>2
  <2> QED
    BY <1>1, <1>3, <2>3, <2>4, <2>5, <2>6, <2>7, <2>8, <2>9 DEF DispatchEffect, claimVars, envVars
<1>4. CASE referral # None
  <2>1. UNCHANGED referral /\ Ends(d, "failed") /\ UNCHANGED card
    BY <1>1, <1>4 DEF AddReferral
  <2> QED
    BY <1>1, <1>2, <2>1, EndingStep
<1> QED
  BY <1>3, <1>4

LEMMA SaveDispatchedKeeps ==
  ASSUME IInv, NEW d \in Dispatches, SaveDispatched(d)
  PROVE  DispatchEffect(d)
<1>1. /\ At(d, "save") /\ dispatch[d].at = "save" /\ dispatch[d].state = "busy"
      /\ UNCHANGED <<conflict, ranks, bookVars, undos, fileVars, approve, survey, claimVars, envVars>>
  BY DEF SaveDispatched, At
<1>2. /\ DispatchInv(dispatch[d]) /\ card \in Approval \cup {None} /\ cuts' \in 0..MaxCuts
      /\ UNCHANGED <<recipients, now, events>> /\ \A key \in Keys : dispatch[d].at # SendAt[key]
  BY <1>1, BookingIs DEF IInv, DispatchesInv, TypeOK, envVars
<1>3. CASE entry = None
  <2>1. UNCHANGED <<queueVars, card, referral, case, mail, noted>> /\ Ends(d, "failed")
    BY <1>1, <1>3 DEF SaveDispatched, queueVars, fileVars
  <2> QED
    BY <1>1, <1>2, <2>1, EndingStep
<1>4. CASE entry # None
  <2> DEFINE saved == [status |-> "DISPATCHED", rank |-> dispatch[d].copy.rank, company |-> dispatch[d].company]
             over == [state |-> "busy", at |-> "look", company |-> None, copy |-> None,
                      sees |-> dispatch[d].sees, late |-> dispatch[d].late]
  <2>1. entry' = saved /\ dispatch' = [dispatch EXCEPT ![d] = over]
    BY <1>4 DEF SaveDispatched
  <2>2. dispatch[d].company \in Companies /\ dispatch[d].copy \in Entry
    BY <1>1, <1>2 DEF DispatchInv
  <2>3. saved \in Entry /\ saved.company = dispatch[d].company
    BY <2>2 DEF Entry
  <2>4. /\ dispatch' \in [Dispatches -> Dispatching]
        /\ \A e \in Dispatches : e # d => dispatch'[e] = dispatch[e]
        /\ dispatch'[d].at = "look" /\ dispatch'[d].state = "busy"
        /\ dispatch'[d].company = None /\ dispatch'[d].late = dispatch[d].late
    <3>1. dispatch \in [Dispatches -> Dispatching] /\ dispatch[d] \in Dispatching
      BY DEF IInv, TypeOK
    <3>2. over \in Dispatching
      BY <3>1, AfterDispatchIs DEF Dispatching, Progress
    <3> QED
      BY <2>1, <3>1, <3>2
  <2>5. TypeOK' /\ Booked' /\ Grows /\ ClaimsInv'
    <3>1. TypeOK' /\ Booked' /\ Kept
      BY <1>1, <2>1, <2>3, <2>4 DEF IInv, TypeOK, Booked, Kept, fileVars, bookVars, claimVars, envVars
    <3>2. \A key \in Keys : dispatch'[d].at # SendAt[key]
      BY <2>4, BookingIs
    <3> QED
      BY <1>1, <1>2, <2>4, <3>1, <3>2, AwayFromBooking DEF bookVars, fileVars
  <2>6. DispatchInv(dispatch[d])'
    BY <1>1, <1>2, <2>4, <2>5, BookingIs
       DEF DispatchInv, Passed, Grows, Keys, Ordering, Recording, Holding, Notifying, Planning, Undoing,
           Tail, bookVars
  <2>7. AssignedRight(entry)'
    <3>1. dispatch[d].late \/ (order # None /\ order.company = dispatch[d].company)
      BY <1>1, <1>2, ActionsAssumption
         DEF DispatchInv, Passed, Ordering, Recording, Holding, Notifying, Planning, Undoing, Tail
    <3>2. order' = order
      BY <1>1 DEF bookVars
    <3> QED
      BY <2>1, <2>3, <2>4, <3>1, <3>2 DEF AssignedRight
  <2>8. CardHasReferral' /\ CardNext' /\ StagedIsApprovable'
    BY <1>1, <2>4 DEF IInv, CardHasReferral, CardNext, StagedIsApprovable, fileVars
  <2> QED
    BY <1>1, <2>4, <2>5, <2>6, <2>7, <2>8 DEF DispatchEffect, fileVars, claimVars, envVars
<1> QED
  BY <1>3, <1>4

\* Only a call that has not begun begins.
LEMMA BeginKeeps ==
  ASSUME IInv, NEW d \in Dispatches, NEW company \in Companies, Begin(d, company)
  PROVE  DispatchEffect(d)
<1> DEFINE over == [state |-> "busy", at |-> "draft", company |-> company,
                    copy |-> entry, sees |-> conflict, late |-> FALSE]
<1>1. /\ dispatch[d].state = "idle" /\ entry # None /\ dispatch' = [dispatch EXCEPT ![d] = over]
      /\ UNCHANGED <<queueVars, bookVars, undos, fileVars, approve, survey, claimVars, envVars>>
  BY DEF Begin
<1>2. entry \in Entry /\ conflict \in BOOLEAN /\ dispatch \in [Dispatches -> Dispatching]
  BY <1>1 DEF IInv, TypeOK
<1>3. over \in Dispatching
  BY <1>2, AfterDispatchIs DEF Dispatching, Progress
<1>4. /\ dispatch'[d] = over /\ \A e \in Dispatches : e # d => dispatch'[e] = dispatch[e]
      /\ dispatch' \in [Dispatches -> Dispatching]
  BY <1>1, <1>2, <1>3
<1>5. DispatchInv(dispatch[d])'
  BY <1>2, <1>4
     DEF DispatchInv, Passed, Keys, DoneAt, Ordering, Recording, Holding, Notifying, Planning, Undoing, Tail
<1>6. ~ dispatch[d].late
  BY <1>1 DEF IInv, DispatchesInv, DispatchInv
<1>7. TypeOK' /\ Grows /\ ClaimsInv' /\ Booked'
  <2>1. TypeOK' /\ Kept /\ Booked'
    BY <1>1, <1>4 DEF IInv, TypeOK, Kept, Booked, queueVars, fileVars, bookVars, claimVars, envVars
  <2>2. \A key \in Keys : dispatch'[d].at # SendAt[key]
    BY <1>4, BookingIs
  <2> QED
    BY <1>1, <1>4, <2>1, <2>2, AwayFromBooking DEF bookVars, fileVars, envVars
<1>8. AssignedRight(entry)'
  <2>1. AssignedRight(entry) /\ UNCHANGED <<order, entry>>
    BY <1>1 DEF IInv, Assigned, queueVars, bookVars
  <2>2. \A e \in Dispatches : dispatch[e].late => dispatch'[e].late
    BY <1>4, <1>6
  <2> QED
    BY <2>1, <2>2 DEF AssignedRight
<1>9. CardHasReferral' /\ CardNext' /\ StagedIsApprovable'
  BY <1>1, <1>4 DEF IInv, CardHasReferral, CardNext, StagedIsApprovable, fileVars
<1> QED
  BY <1>1, <1>4, <1>5, <1>6, <1>7, <1>8, <1>9 DEF DispatchEffect, fileVars, claimVars, envVars

\* Every step of a dispatch keeps the invariant.
LEMMA DispatchKeeps ==
  ASSUME IInv, NEW d \in Dispatches, DispatchStep(d) \/ \E company \in Companies : Begin(d, company)
  PROVE  IInv'
<1>1. DispatchEffect(d)
  BY SkipKeeps, DraftOrderKeeps, ExecuteOrderKeeps, RecordOrderKeeps, RecordUndoKeeps, 
     ClaimBookingKeeps, BookKeeps, CompleteBookingKeeps, WritePlanKeeps, SaveDispatchedKeeps, LookForReferralKeeps, AddReferralKeeps,
     StageCardKeeps, BeginKeeps DEF DispatchStep
<1> QED
  BY <1>1, DispatchEffectKeeps

-----------------------------------------------------------------------------
\* Going on changes where the approval is, answering ends it.
LEMMA ProceedsEffect ==
  ASSUME TypeOK, NEW a \in Approvers, NEW step \in DOMAIN AfterApproval, On(a, step), Proceeds(a)
  PROVE  /\ approve' \in [Approvers -> Approving]
         /\ \A b \in Approvers : b # a => approve'[b] = approve[b]
         /\ approve'[a].at = AfterApproval[step] /\ approve[a].at = step
         /\ approve[a].state = "busy" /\ approve'[a].state = "busy"
<1>1. approve \in [Approvers -> Approving] /\ approve[a].at = step /\ approve[a].state = "busy"
  BY DEF TypeOK, On
<1>2. AfterApproval[step] \in DOMAIN AfterApproval \cup {"end"}
  BY AfterApprovalIs DEF AfterApproval
<1>3. approve[a] \in Approving /\ approve' = [approve EXCEPT ![a] = [approve[a] EXCEPT !.at = AfterApproval[step]]]
  BY <1>1 DEF Proceeds
<1>4. [approve[a] EXCEPT !.at = AfterApproval[step]] \in Approving
  BY <1>2, <1>3 DEF Approving
<1> QED
  BY <1>1, <1>3, <1>4 DEF Approving

LEMMA AnswersEffect ==
  ASSUME TypeOK, NEW a \in Approvers, Answers(a)
  PROVE  /\ approve' \in [Approvers -> Approving]
         /\ \A b \in Approvers : b # a => approve'[b] = approve[b]
         /\ approve'[a].at = "end" /\ approve'[a].state = "answered"
<1> DEFINE over == [state |-> "answered", at |-> "end"]
<1>1. over \in Approving
  BY DEF Approving, Progress
<1>2. approve' = [approve EXCEPT ![a] = over] /\ approve \in [Approvers -> Approving]
  BY DEF Answers, TypeOK
<1> QED
  BY <1>1, <1>2

\* An approval that is not about to mail, and that leaves the mail and its claim
\* alone, leaves them as they are.
LEMMA AwayFromMailing ==
  ASSUME IInv, Kept, NEW a \in Approvers, \A b \in Approvers : b # a => approve'[b] = approve[b],
         UNCHANGED <<dispatch, booked, mail, claimVars, recipients>>,
         approve'[a].at = "mailing" => approve'[a].state # "busy",
         approve[a].at = "mailing" /\ approve[a].state \in {"busy", "cut"} =>
           approve'[a].at = "mailing" /\ approve'[a].state \in {"busy", "cut"}
  PROVE  Grows /\ MailInv'
<1>1. ASSUME NEW key \in Keys PROVE Served(key) => Served(key)'
  BY DEF Served
<1>2. Mailed => Mailed'
  BY DEF Mailed
<1>3. MailInv'
  <2>1. MailInv /\ UNCHANGED <<mail, claims, retaken>>
    BY DEF IInv, claimVars
  <2>2. \A b \in Approvers : On(b, "mailing")' => On(b, "mailing")
    BY DEF On
  <2> QED
    BY <1>2, <2>1, <2>2 DEF MailInv, AtMostOne
<1> QED
  BY <1>1, <1>2, <1>3 DEF Grows

\* What a step of the approval a does to the invariant.
ApproveEffect(a) ==
  /\ TypeOK' /\ Grows /\ MailInv' /\ ApproveInv(approve[a])' /\ FilingIsAccounted' /\ FollowedUp'
  /\ \A b \in Approvers : b # a => approve'[b] = approve[b]
  /\ UNCHANGED <<entry, order, booked, dispatch, survey>>
  /\ \A key \in Keys : claims'[key] = claims[key] /\ (key \in retaken' <=> key \in retaken)
  /\ (referral' = None <=> referral = None) /\ (card' = None <=> card = None)

LEMMA ApproveEffectKeeps ==
  ASSUME IInv, NEW a \in Approvers, ApproveEffect(a)
  PROVE  IInv'
<1>1. Grows /\ (\A b \in Approvers : b # a => approve'[b] = approve[b]) /\ dispatch' = dispatch
  BY DEF ApproveEffect
<1>2. DispatchesInv'
  <2>1. ASSUME NEW e \in Dispatches PROVE DispatchInv(dispatch[e])'
    BY <1>1, OthersStay
  <2> QED
    BY <2>1 DEF DispatchesInv
<1>3. ApprovesInv'
  <2>1. ASSUME NEW b \in Approvers PROVE ApproveInv(approve[b])'
    <3>1. CASE b = a
      BY <3>1 DEF ApproveEffect
    <3>2. CASE b # a
      BY <1>1, <3>2, ApprovalsStay
    <3> QED
      BY <3>1, <3>2
  <2> QED
    BY <2>1 DEF ApprovesInv
<1>4. Assigned' /\ Booked' /\ ClosingHasEntry'
  BY DEF IInv, Assigned, AssignedRight, Booked, ClosingHasEntry, ApproveEffect
<1>5. CardHasReferral' /\ CardNext' /\ StagedIsApprovable'
  BY DEF IInv, CardHasReferral, CardNext, StagedIsApprovable, ApproveEffect
<1>6. ClaimsInv'
  BY <1>1 DEF IInv, ClaimsInv, ClaimInv, Served, At, AtMostOne, ApproveEffect
<1> QED
  BY <1>2, <1>3, <1>4, <1>5, <1>6 DEF IInv, ApproveEffect

\* A tap begins, or finds the referral filed.
LEMMA TapKeeps ==
  ASSUME IInv, NEW a \in Approvers, Tap(a)
  PROVE  ApproveEffect(a)
<1>1. /\ approve[a].state = "idle" /\ referral # None /\ card # None
      /\ UNCHANGED <<queueVars, bookVars, undos, fileVars, dispatch, survey, claimVars, envVars>>
  BY DEF Tap
<1>2. Kept /\ FilingIsAccounted'
  BY <1>1 DEF Kept, IInv, FilingIsAccounted, AtMostOne, bookVars, fileVars, claimVars
<1>3. CASE Replays
  <2>1. Answers(a) /\ referral.status = "FILED"
    BY <1>3 DEF Tap, Replays
  <2>2. /\ approve' \in [Approvers -> Approving]
        /\ \A b \in Approvers : b # a => approve'[b] = approve[b]
        /\ approve'[a].state = "answered" /\ approve'[a].at = "end"
    BY <2>1, AnswersEffect DEF IInv
  <2>3. TypeOK' /\ ApproveInv(approve[a])'
    BY <1>1, <2>1, <2>2 DEF IInv, TypeOK, ApproveInv, queueVars, bookVars, fileVars, claimVars, envVars
  <2>4. Grows /\ MailInv'
    BY <1>1, <1>2, <2>2, AwayFromMailing DEF bookVars, fileVars, envVars
  <2>5. FollowedUp'
    BY <1>1, <2>2, <2>4 DEF IInv, FollowedUp, Grows, fileVars
  <2> QED
    BY <1>1, <1>2, <2>2, <2>3, <2>4, <2>5 DEF ApproveEffect, queueVars, bookVars, fileVars, claimVars
<1>4. CASE ~ Replays
  <2> DEFINE over == [approve[a] EXCEPT !.state = "busy"]
  <2>1. approve' = [approve EXCEPT ![a] = over] /\ approve \in [Approvers -> Approving]
    BY <1>4 DEF Tap, IInv, TypeOK
  <2>2. over \in Approving /\ over.state = "busy" /\ over.at = approve[a].at /\ approve[a].at = "execute"
    BY <1>1, <2>1 DEF Approving, Progress, IInv, ApprovesInv, ApproveInv
  <2>3. /\ approve' \in [Approvers -> Approving]
        /\ \A b \in Approvers : b # a => approve'[b] = approve[b]
        /\ approve'[a].state = "busy" /\ approve'[a].at = "execute"
    BY <2>1, <2>2
  <2>4. TypeOK' /\ ApproveInv(approve[a])'
    BY <1>1, <2>3 DEF IInv, TypeOK, ApproveInv, queueVars, bookVars, fileVars, claimVars, envVars
  <2>5. Grows /\ MailInv'
    BY <1>1, <1>2, <2>2, <2>3, AwayFromMailing DEF bookVars, fileVars, envVars
  <2>6. FollowedUp'
    BY <1>1, <2>3, <2>5 DEF IInv, FollowedUp, Grows, fileVars
  <2> QED
    BY <1>1, <1>2, <2>3, <2>4, <2>5, <2>6 DEF ApproveEffect, queueVars, bookVars, fileVars, claimVars
<1> QED
  BY <1>3, <1>4

LEMMA OpenCaseKeeps ==
  ASSUME IInv, NEW a \in Approvers, OpenCase(a)
  PROVE  ApproveEffect(a)
<1>1. /\ On(a, "execute") /\ Proceeds(a)
      /\ case' = TRUE
      /\ UNCHANGED <<queueVars, bookVars, undos, referral, card, mail, noted, dispatch, survey, claimVars, envVars>>
  BY DEF OpenCase
<1>2. /\ approve' \in [Approvers -> Approving]
      /\ \A b \in Approvers : b # a => approve'[b] = approve[b]
      /\ approve'[a].at = "grant" /\ approve[a].at = "execute"
      /\ approve[a].state = "busy" /\ approve'[a].state = "busy"
  BY <1>1, ProceedsEffect, AfterApprovalIs DEF IInv
<1>3. ApproveInv(approve[a])
  BY DEF IInv, ApprovesInv
<1>4. /\ referral # None /\ card # None
  BY <1>2, <1>3 DEF ApproveInv
<1>5. TypeOK'
  BY <1>1, <1>2 DEF IInv, TypeOK, queueVars, bookVars, fileVars, claimVars, envVars
<1>6. Grows /\ MailInv'
  <2>1. Kept
    BY <1>1, <1>4 DEF Kept, bookVars, fileVars
  <2> QED
    BY <1>1, <1>2, <2>1, AwayFromMailing DEF bookVars, fileVars, envVars
<1>7. FilingIsAccounted'
  BY <1>1, <1>4, ActionsAssumption DEF IInv, FilingIsAccounted, AtMostOne, fileVars, claimVars
<1>8. FollowedUp'
  BY <1>1, <1>2, <1>4, <1>6, ActionsAssumption DEF IInv, FollowedUp, Grows, fileVars
<1>9. ApproveInv(approve[a])'
  BY <1>1, <1>2, <1>3, <1>4, ActionsAssumption DEF ApproveInv, fileVars
<1> QED
  BY <1>1, <1>2, <1>4, <1>5, <1>6, <1>7, <1>8, <1>9
     DEF ApproveEffect, queueVars, bookVars, fileVars, claimVars

LEMMA GrantKeeps ==
  ASSUME IInv, NEW a \in Approvers, Grant(a)
  PROVE  ApproveEffect(a)
<1> DEFINE new == [status |-> "GRANTED", by |-> a]
<1>1. /\ On(a, "grant") /\ Proceeds(a) /\ card' = new
      /\ UNCHANGED <<queueVars, bookVars, undos, referral, case, mail, noted, dispatch, survey, claimVars, envVars>>
  BY DEF Grant
<1>2. /\ approve' \in [Approvers -> Approving]
      /\ \A b \in Approvers : b # a => approve'[b] = approve[b]
      /\ approve'[a].at = "file" /\ approve[a].at = "grant"
      /\ approve[a].state = "busy" /\ approve'[a].state = "busy"
  BY <1>1, ProceedsEffect, AfterApprovalIs DEF IInv
<1>3. ApproveInv(approve[a])
  BY DEF IInv, ApprovesInv
<1>4. /\ referral # None /\ card # None /\ case
  BY <1>2, <1>3 DEF ApproveInv
<1>5. card' \in Approval /\ card' # None /\ card'.by # None
  BY <1>1, ActionsAssumption DEF Approval
<1>6. TypeOK'
  BY <1>1, <1>2, <1>5 DEF IInv, TypeOK, queueVars, bookVars, claimVars, envVars
<1>7. Grows /\ MailInv'
  <2>1. Kept
    BY <1>1, <1>4, <1>5 DEF Kept, bookVars
  <2> QED
    BY <1>1, <1>2, <2>1, AwayFromMailing DEF bookVars, envVars
<1>8. FilingIsAccounted'
  BY <1>1, <1>4, <1>5 DEF IInv, FilingIsAccounted, AtMostOne, claimVars
<1>9. FollowedUp'
  BY <1>1, <1>2, <1>7 DEF IInv, FollowedUp, Grows
<1>10. ApproveInv(approve[a])'
  BY <1>1, <1>2, <1>3, <1>4, <1>5 DEF ApproveInv
<1> QED
  BY <1>1, <1>2, <1>4, <1>5, <1>6, <1>7, <1>8, <1>9, <1>10 DEF ApproveEffect, queueVars, bookVars, claimVars

\* A referral is filed once its case is open and its card granted.
LEMMA FileKeeps ==
  ASSUME IInv, NEW a \in Approvers, File(a)
  PROVE  ApproveEffect(a)
<1> DEFINE new == [status |-> "FILED", by |-> a]
<1>1. /\ On(a, "file") /\ Proceeds(a) /\ referral' = new
      /\ UNCHANGED <<queueVars, bookVars, undos, card, case, mail, noted, dispatch, survey, claimVars, envVars>>
  BY DEF File
<1>2. /\ approve' \in [Approvers -> Approving]
      /\ \A b \in Approvers : b # a => approve'[b] = approve[b]
      /\ approve'[a].at = "undo" /\ approve[a].at = "file"
      /\ approve[a].state = "busy" /\ approve'[a].state = "busy"
  BY <1>1, ProceedsEffect, AfterApprovalIs DEF IInv
<1>3. ApproveInv(approve[a])
  BY DEF IInv, ApprovesInv
<1>4. /\ referral # None /\ card # None /\ case /\ card.status = "GRANTED" /\ card.by # None
  BY <1>2, <1>3 DEF ApproveInv
<1>5. referral' \in Referral /\ referral' # None /\ referral'.by # None
  BY <1>1, ActionsAssumption DEF Referral
<1>6. TypeOK'
  BY <1>1, <1>2, <1>5 DEF IInv, TypeOK, queueVars, bookVars, claimVars, envVars
<1>7. Grows /\ MailInv'
  <2>1. Kept
    BY <1>1, <1>4, <1>5 DEF Kept, bookVars
  <2> QED
    BY <1>1, <1>2, <2>1, AwayFromMailing DEF bookVars, envVars
<1>8. FilingIsAccounted'
  BY <1>1, <1>4, <1>5 DEF IInv, FilingIsAccounted, AtMostOne, claimVars
<1>9. FollowedUp'
  BY <1>1, <1>2, <1>7 DEF IInv, FollowedUp, Grows
<1>10. ApproveInv(approve[a])'
  BY <1>1, <1>2, <1>3, <1>4, <1>5 DEF ApproveInv
<1> QED
  BY <1>1, <1>2, <1>4, <1>5, <1>6, <1>7, <1>8, <1>9, <1>10 DEF ApproveEffect, queueVars, bookVars, claimVars

LEMMA RecordFilingUndoKeeps ==
  ASSUME IInv, NEW a \in Approvers, RecordFilingUndo(a)
  PROVE  ApproveEffect(a)
<1>1. /\ On(a, "undo") /\ Proceeds(a)
      /\ undos' = undos \cup {"filing"}
      /\ UNCHANGED <<queueVars, bookVars, fileVars, dispatch, survey, claimVars, envVars>>
  BY DEF RecordFilingUndo
<1>2. /\ approve' \in [Approvers -> Approving]
      /\ \A b \in Approvers : b # a => approve'[b] = approve[b]
      /\ approve'[a].at = "mail" /\ approve[a].at = "undo"
      /\ approve[a].state = "busy" /\ approve'[a].state = "busy"
  BY <1>1, ProceedsEffect, AfterApprovalIs DEF IInv
<1>3. ApproveInv(approve[a])
  BY DEF IInv, ApprovesInv
<1>4. /\ referral # None /\ card # None /\ referral.status = "FILED"
  BY <1>2, <1>3 DEF ApproveInv
<1>5. TypeOK'
  BY <1>1, <1>2 DEF IInv, TypeOK, queueVars, bookVars, fileVars, claimVars, envVars
<1>6. Grows /\ MailInv'
  <2>1. Kept
    BY <1>1, <1>4 DEF Kept, bookVars, fileVars
  <2> QED
    BY <1>1, <1>2, <2>1, AwayFromMailing DEF bookVars, fileVars, envVars
<1>7. FilingIsAccounted'
  BY <1>1, <1>4, ActionsAssumption DEF IInv, FilingIsAccounted, AtMostOne, fileVars, claimVars
<1>8. FollowedUp'
  BY <1>1, <1>2, <1>4, <1>6, ActionsAssumption DEF IInv, FollowedUp, Grows, fileVars
<1>9. ApproveInv(approve[a])'
  BY <1>1, <1>2, <1>3, <1>4, ActionsAssumption DEF ApproveInv, fileVars
<1> QED
  BY <1>1, <1>2, <1>4, <1>5, <1>6, <1>7, <1>8, <1>9
     DEF ApproveEffect, queueVars, bookVars, fileVars, claimVars

\* An approval whose referral is filed and can be undone.
LEMMA Filed ==
  ASSUME IInv, NEW a \in Approvers, On(a, "mail") \/ On(a, "mailing") \/ On(a, "mailed")
  PROVE  /\ referral # None /\ card # None /\ referral.status = "FILED" /\ "filing" \in undos
         /\ case /\ card.status = "GRANTED" /\ card.by # None
         /\ On(a, "mailed") => mail # {}
BY DEF IInv, ApprovesInv, ApproveInv, On

\* The mail is claimed by the one approval that is to send it; without
\* recipients there is none, and a claim may be in the way.
LEMMA MailReferralKeeps ==
  ASSUME IInv, NEW a \in Approvers, MailReferral(a)
  PROVE  ApproveEffect(a)
<1>1. /\ On(a, "mail") /\ approve[a].at = "mail" /\ approve[a].state = "busy"
      /\ UNCHANGED <<queueVars, bookVars, undos, fileVars, dispatch, survey, envVars>>
  BY DEF MailReferral, On
<1>2. /\ referral # None /\ card # None /\ referral.status = "FILED" /\ "filing" \in undos
      /\ case /\ card.status = "GRANTED" /\ card.by # None
  BY <1>1, Filed
<1>3. Kept
  BY <1>1 DEF Kept, bookVars, fileVars
<1>4. TypeOK /\ MailInv /\ claims["referralMail"] \in IdempotencyRecord
  BY DEF IInv, TypeOK
<1>5. CASE recipients /\ ShouldExecute(claims["referralMail"], now)
  <2>1. Claim("referralMail") /\ Proceeds(a)
    BY <1>5 DEF MailReferral
  <2>2. /\ approve' \in [Approvers -> Approving]
        /\ \A b \in Approvers : b # a => approve'[b] = approve[b]
        /\ approve'[a].at = "mailing" /\ approve'[a].state = "busy"
    BY <1>1, <1>4, <2>1, ProceedsEffect, AfterApprovalIs
  <2>3. /\ claims' \in [Keys \cup {"referralMail"} -> IdempotencyRecord]
        /\ retaken' \subseteq Keys \cup {"referralMail"}
        /\ claims'["referralMail"].status = "IN_FLIGHT"
        /\ "referralMail" \notin retaken' =>
             "referralMail" \notin retaken /\ ~ IsClaimable(claims["referralMail"], now)
        /\ \A key \in Keys : claims'[key] = claims[key] /\ (key \in retaken' <=> key \in retaken)
    BY <1>4, <2>1, ClaimEffect, BookingIs
  <2>4. Grows /\ Mailed'
    <3>1. ASSUME NEW key \in Keys PROVE Served(key) => Served(key)'
      BY <1>1 DEF Served, bookVars
    <3>2. Mailed'
      BY <2>2 DEF Mailed
    <3> QED
      BY <1>3, <3>1, <3>2 DEF Grows
  <2>5. MailInv'
    <3>1. "referralMail" \notin retaken' => mail' = {} /\ \A b \in Approvers : On(b, "mailing")' => b = a
      <4>1. "referralMail" \notin retaken' => claims["referralMail"].status = "ABSENT"
        BY <1>4, <1>5, <2>3, GrantedIs
      <4> QED
        BY <1>1, <1>4, <2>2, <4>1 DEF MailInv, On, fileVars
    <3> QED
      BY <2>3, <2>4, <3>1 DEF MailInv, AtMostOne
  <2>6. TypeOK'
    BY <1>1, <2>2, <2>3 DEF IInv, TypeOK, queueVars, bookVars, fileVars, envVars
  <2>7. FilingIsAccounted'
    <3>1. AtMostOne(mail') \/ "referralMail" \in retaken'
      BY <2>5 DEF MailInv
    <3> QED
      BY <1>1, <1>2, <3>1 DEF FilingIsAccounted, fileVars
  <2>8. FollowedUp' /\ ApproveInv(approve[a])'
    BY <1>1, <1>2, <2>2, <2>4 DEF FollowedUp, ApproveInv, fileVars
  <2> QED
    BY <1>1, <2>2, <2>3, <2>4, <2>5, <2>6, <2>7, <2>8 DEF ApproveEffect, queueVars, bookVars, fileVars
<1>6. CASE ~ (recipients /\ ShouldExecute(claims["referralMail"], now))
  <2>1. approve' = [approve EXCEPT ![a].at = "writeBack"] /\ UNCHANGED claimVars
    BY <1>6 DEF MailReferral
  <2>2. /\ approve' \in [Approvers -> Approving]
        /\ \A b \in Approvers : b # a => approve'[b] = approve[b]
        /\ approve'[a].at = "writeBack" /\ approve'[a].state = "busy"
    <3>1. approve \in [Approvers -> Approving] /\ approve[a] \in Approving
      BY <1>4 DEF TypeOK
    <3>2. [approve[a] EXCEPT !.at = "writeBack"] \in Approving
      BY <3>1, AfterApprovalIs DEF Approving
    <3>3. approve' = [approve EXCEPT ![a] = [approve[a] EXCEPT !.at = "writeBack"]]
      BY <2>1, <3>1
    <3> QED
      BY <1>1, <3>1, <3>2, <3>3 DEF Approving
  <2>3. Grows /\ MailInv'
    BY <1>1, <1>3, <2>1, <2>2, AwayFromMailing DEF bookVars, fileVars, envVars
  <2>4. Mailed'
    <3>1. CASE ~ recipients
      BY <1>1, <3>1 DEF Mailed, envVars
    <3>2. CASE ~ ShouldExecute(claims["referralMail"], now)
      <4>1. Mailed
        BY <1>4, <3>2, GrantedIs DEF MailInv
      <4> QED
        BY <2>3, <4>1 DEF Grows
    <3> QED
      BY <1>6, <3>1, <3>2
  <2>5. TypeOK'
    BY <1>1, <2>1, <2>2 DEF IInv, TypeOK, queueVars, bookVars, fileVars, claimVars, envVars
  <2>6. FilingIsAccounted'
    BY <1>1, <2>1 DEF IInv, FilingIsAccounted, AtMostOne, fileVars, claimVars
  <2>7. FollowedUp' /\ ApproveInv(approve[a])'
    BY <1>1, <1>2, <2>2, <2>4 DEF FollowedUp, ApproveInv, fileVars
  <2> QED
    BY <1>1, <2>1, <2>2, <2>3, <2>5, <2>6, <2>7 DEF ApproveEffect, queueVars, bookVars, fileVars, claimVars
<1> QED
  BY <1>5, <1>6

\* The mail is the first unless its claim was taken over.
LEMMA PostMailKeeps ==
  ASSUME IInv, NEW a \in Approvers, PostMail(a)
  PROVE  ApproveEffect(a)
<1>1. /\ On(a, "mailing") /\ Proceeds(a)
      /\ mail' \in {mail \cup {a}, IF mail = {} THEN {a} ELSE mail}
      /\ UNCHANGED <<queueVars, bookVars, undos, referral, card, case, noted, dispatch, survey, claimVars, envVars>>
  BY DEF PostMail
<1>2. /\ approve' \in [Approvers -> Approving]
      /\ \A b \in Approvers : b # a => approve'[b] = approve[b]
      /\ approve'[a].at = "mailed" /\ approve[a].at = "mailing"
      /\ approve[a].state = "busy" /\ approve'[a].state = "busy"
  BY <1>1, ProceedsEffect, AfterApprovalIs DEF IInv
<1>3. /\ referral # None /\ card # None /\ referral.status = "FILED" /\ "filing" \in undos
      /\ case /\ card.status = "GRANTED" /\ card.by # None
  BY <1>1, Filed
<1>4. mail' # {} /\ mail \subseteq mail' /\ mail' \subseteq Approvers /\ (mail = {} => mail' = {a})
  BY <1>1 DEF IInv, TypeOK
<1>5. Grows /\ Mailed'
  <2>1. ASSUME NEW key \in Keys PROVE Served(key) => Served(key)'
    BY <1>1 DEF Served, bookVars
  <2>2. Kept
    BY <1>1, <1>4 DEF Kept, bookVars
  <2>3. Mailed'
    BY <1>4 DEF Mailed
  <2> QED
    BY <2>1, <2>2, <2>3 DEF Grows
<1>6. MailInv'
  <2>1. MailInv /\ UNCHANGED <<claims, retaken>>
    BY <1>1 DEF IInv, claimVars
  <2>2. claims["referralMail"].status # "ABSENT"
    BY <1>1, <2>1 DEF MailInv
  <2>3. "referralMail" \notin retaken => mail' = {a} /\ \A b \in Approvers : ~ On(b, "mailing")'
    <3>1. "referralMail" \notin retaken => mail = {} /\ \A b \in Approvers : On(b, "mailing") => b = a
      BY <1>1, <2>1 DEF MailInv
    <3>2. \A b \in Approvers : On(b, "mailing")' => b # a /\ On(b, "mailing")
      BY <1>2 DEF On
    <3> QED
      BY <1>4, <3>1, <3>2
  <2> QED
    BY <1>5, <2>1, <2>2, <2>3 DEF MailInv, AtMostOne
<1>7. TypeOK'
  BY <1>1, <1>2, <1>4 DEF IInv, TypeOK, queueVars, bookVars, claimVars, envVars
<1>8. FilingIsAccounted'
  <2>1. AtMostOne(mail') \/ "referralMail" \in retaken'
    BY <1>6 DEF MailInv
  <2> QED
    BY <1>1, <1>3, <2>1 DEF FilingIsAccounted
<1>9. FollowedUp' /\ ApproveInv(approve[a])'
  BY <1>1, <1>2, <1>3, <1>4, <1>5 DEF FollowedUp, ApproveInv
<1> QED
  BY <1>1, <1>2, <1>5, <1>6, <1>7, <1>8, <1>9 DEF ApproveEffect, queueVars, bookVars, claimVars

LEMMA CompleteMailKeeps ==
  ASSUME IInv, NEW a \in Approvers, CompleteMail(a)
  PROVE  ApproveEffect(a)
<1>1. /\ On(a, "mailed") /\ Proceeds(a) /\ Complete("referralMail")
      /\ UNCHANGED <<queueVars, bookVars, undos, fileVars, dispatch, survey, envVars>>
  BY DEF CompleteMail
<1>2. /\ approve' \in [Approvers -> Approving]
      /\ \A b \in Approvers : b # a => approve'[b] = approve[b]
      /\ approve'[a].at = "writeBack" /\ approve[a].at = "mailed"
      /\ approve[a].state = "busy" /\ approve'[a].state = "busy"
  BY <1>1, ProceedsEffect, AfterApprovalIs DEF IInv
<1>3. /\ referral # None /\ card # None /\ referral.status = "FILED" /\ "filing" \in undos
      /\ case /\ card.status = "GRANTED" /\ card.by # None /\ mail # {}
  BY <1>1, Filed
<1>4. /\ claims' \in [Keys \cup {"referralMail"} -> IdempotencyRecord] /\ retaken' = retaken
      /\ claims'["referralMail"].status = "COMPLETED"
      /\ \A key \in Keys : claims'[key] = claims[key]
  BY <1>1, CompleteEffect, BookingIs DEF IInv
<1>5. Grows /\ Mailed'
  <2>1. ASSUME NEW key \in Keys PROVE Served(key) => Served(key)'
    BY <1>1 DEF Served, bookVars
  <2>2. Kept
    BY <1>1 DEF Kept, bookVars, fileVars
  <2>3. Mailed'
    BY <1>1, <1>3 DEF Mailed, fileVars
  <2> QED
    BY <2>1, <2>2, <2>3 DEF Grows
<1>6. MailInv'
  <2>1. MailInv /\ mail' = mail
    BY <1>1 DEF IInv, fileVars
  <2>2. \A b \in Approvers : On(b, "mailing")' => On(b, "mailing")
    BY <1>2 DEF On
  <2> QED
    BY <1>4, <1>5, <2>1, <2>2 DEF MailInv, AtMostOne
<1>7. TypeOK'
  BY <1>1, <1>2, <1>4 DEF IInv, TypeOK, queueVars, bookVars, fileVars, envVars
<1>8. FilingIsAccounted'
  BY <1>1, <1>4 DEF IInv, FilingIsAccounted, AtMostOne, fileVars
<1>9. FollowedUp' /\ ApproveInv(approve[a])'
  BY <1>1, <1>2, <1>3, <1>5 DEF FollowedUp, ApproveInv, fileVars
<1> QED
  BY <1>1, <1>2, <1>4, <1>5, <1>6, <1>7, <1>8, <1>9 DEF ApproveEffect, queueVars, bookVars, fileVars

LEMMA WriteBackKeeps ==
  ASSUME IInv, NEW a \in Approvers, WriteBack(a)
  PROVE  ApproveEffect(a)
<1>1. /\ approve[a].state = "busy" /\ approve[a].at = "writeBack" /\ Answers(a) /\ noted' \in {noted, TRUE}
      /\ UNCHANGED <<queueVars, bookVars, undos, referral, card, case, mail, dispatch, survey, claimVars, envVars>>
  BY DEF WriteBack, On
<1>2. /\ approve' \in [Approvers -> Approving]
      /\ \A b \in Approvers : b # a => approve'[b] = approve[b]
      /\ approve'[a].state = "answered" /\ approve'[a].at = "end"
  BY <1>1, AnswersEffect DEF IInv
<1>3. referral # None /\ referral.status = "FILED"
  BY <1>1 DEF IInv, ApprovesInv, ApproveInv
<1>4. TypeOK' /\ Grows /\ MailInv'
  <2>1. noted \in BOOLEAN
    BY DEF IInv, TypeOK
  <2>2. noted' \in BOOLEAN
    BY <1>1, <2>1
  <2>3. TypeOK' /\ Kept
    BY <1>1, <1>2, <2>2 DEF IInv, TypeOK, Kept, queueVars, bookVars, claimVars, envVars
  <2> QED
    BY <1>1, <1>2, <2>3, AwayFromMailing DEF bookVars, envVars
<1>5. FilingIsAccounted' /\ FollowedUp' /\ ApproveInv(approve[a])'
  <2>1. FilingIsAccounted'
    BY <1>1, <1>3 DEF IInv, FilingIsAccounted, AtMostOne, claimVars
  <2>2. FollowedUp'
    BY <1>1, <1>2, <1>4 DEF IInv, FollowedUp, Grows
  <2>3. ApproveInv(approve[a])'
    BY <1>1, <1>2, <1>3, AnswersEffect DEF IInv, ApproveInv
  <2> QED
    BY <2>1, <2>2, <2>3
<1> QED
  BY <1>1, <1>2, <1>4, <1>5 DEF ApproveEffect, queueVars, bookVars, claimVars

\* Every step of an approval keeps the invariant.
LEMMA ApprovalKeeps ==
  ASSUME IInv, NEW a \in Approvers, ApproveStep(a)
  PROVE  IInv'
<1>1. ApproveEffect(a)
  BY TapKeeps, OpenCaseKeeps, GrantKeeps, FileKeeps, RecordFilingUndoKeeps, MailReferralKeeps,
     PostMailKeeps,
     CompleteMailKeeps, WriteBackKeeps
     DEF ApproveStep
<1> QED
  BY <1>1, ApproveEffectKeeps

-----------------------------------------------------------------------------
\* What the queue's own steps leave alone keeps all that is not about the entry.
LEMMA QueueStep ==
  ASSUME IInv, TypeOK', Assigned', ClosingHasEntry', 
         UNCHANGED <<bookVars, undos, fileVars, dispatch, approve, claimVars, recipients>>
  PROVE  IInv'
<1>1. Grows
  <2>1. \A key \in Keys : Served(key) => Served(key)'
    BY DEF Served, bookVars
  <2>2. Mailed => Mailed'
    BY DEF Mailed, fileVars
  <2> QED
    BY <2>1, <2>2 DEF Grows, Kept, bookVars, fileVars
<1>2. DispatchesInv'
  <2>1. ASSUME NEW e \in Dispatches PROVE DispatchInv(dispatch[e])'
    BY <1>1, OthersStay
  <2> QED
    BY <2>1 DEF DispatchesInv
<1>3. ApprovesInv'
  <2>1. ASSUME NEW a \in Approvers PROVE ApproveInv(approve[a])'
    BY <1>1, ApprovalsStay
  <2> QED
    BY <2>1 DEF ApprovesInv
<1>4. Booked' /\ FilingIsAccounted' /\ FollowedUp'
  BY <1>1 DEF IInv, Booked, FilingIsAccounted, FollowedUp, AtMostOne, Grows, bookVars, fileVars, claimVars
<1>5. CardHasReferral' /\ CardNext' /\ StagedIsApprovable'
  BY DEF IInv, CardHasReferral, CardNext, StagedIsApprovable, fileVars
<1>6. ClaimsInv'
  <2>1. ASSUME NEW key \in Keys PROVE ClaimInv(key)'
    BY <1>1, <2>1 DEF IInv, ClaimsInv, ClaimInv, At, AtMostOne, Grows, bookVars, claimVars
  <2> QED
    BY <2>1 DEF ClaimsInv
<1>7. MailInv'
  BY <1>1 DEF IInv, MailInv, On, AtMostOne, Grows, fileVars, claimVars
<1> QED
  BY <1>2, <1>3, <1>4, <1>5, <1>6, <1>7 DEF IInv

\* An entry ranked anew is nobody's.
LEMMA RerankKeeps ==
  ASSUME IInv, Rerank
  PROVE  IInv'
<1>1. /\ ranks' = ranks + 1 /\ entry' \in {Ranked(ranks' + 1), None} /\ events' \in 0..MaxEvents
      /\ UNCHANGED <<conflict, bookVars, undos, fileVars, callVars, claimVars, recipients, now, cuts>>
  BY ActionsAssumption DEF Rerank, Event, IInv, TypeOK
<1>2. ranks \in Nat /\ ranks' \in Nat /\ ranks' + 1 \in Nat \ {0}
  BY <1>1 DEF IInv, TypeOK
<1>3. Ranked(ranks' + 1) \in Entry /\ Ranked(ranks' + 1).company = None
  BY <1>2 DEF Ranked, Entry
<1>4. TypeOK'
  BY <1>1, <1>2, <1>3 DEF IInv, TypeOK, bookVars, fileVars, callVars, claimVars
<1>5. Assigned' /\ ClosingHasEntry'
  BY <1>1, <1>3 DEF IInv, Assigned, AssignedRight, ClosingHasEntry, bookVars, callVars
<1> QED
  BY <1>1, <1>4, <1>5, QueueStep DEF callVars

\* A survey writes back the entry it read, whoever it was assigned to then.
LEMMA SurveyKeeps ==
  ASSUME IInv, NEW s \in Surveys, Settle(s) \/ ReadEntry(s) \/ CloseEntry(s)
  PROVE  IInv'
<1>1. /\ UNCHANGED <<ranks, bookVars, undos, fileVars, dispatch, approve, claimVars, recipients, now, cuts>>
      /\ events' \in 0..MaxEvents
  BY ActionsAssumption DEF Settle, ReadEntry, CloseEntry, Event, queueVars, envVars, IInv, TypeOK
<1>2. survey \in [Surveys -> Surveying] /\ survey[s].copy \in Entry \cup {None} /\ entry \in Entry \cup {None}
  BY DEF IInv, TypeOK, Surveying
<1>3. AssignedRight(entry) /\ \A u \in Surveys : AssignedRight(survey[u].copy)
  BY DEF IInv, Assigned
<1>4. CASE Settle(s)
  <2> DEFINE new == [survey[s] EXCEPT !.at = "settled"]
  <2>1. survey' = [survey EXCEPT ![s] = new] /\ conflict' = FALSE /\ entry' = entry
    BY <1>4 DEF Settle
  <2>2. new \in Surveying /\ new.copy = survey[s].copy
    BY <1>2 DEF Surveying
  <2>3. TypeOK'
    <3>1. survey' \in [Surveys -> Surveying] /\ conflict' \in BOOLEAN
      BY <1>2, <2>1, <2>2
    <3>2. entry' \in Entry \cup {None}
      BY <1>2, <2>1
    <3> QED
      BY <1>1, <3>1, <3>2 DEF IInv, TypeOK, bookVars, fileVars, claimVars
  <2>4. Assigned'
    BY <1>1, <1>2, <1>3, <2>1, <2>2 DEF Assigned, AssignedRight, bookVars
  <2>5. ClosingHasEntry'
    BY <1>2, <2>1 DEF IInv, ClosingHasEntry
  <2> QED
    BY <1>1, <2>3, <2>4, <2>5, QueueStep
<1>5. CASE ReadEntry(s)
  <2> DEFINE new == [at |-> IF entry = None THEN "end" ELSE "closing", copy |-> entry]
  <2>1. survey' = [survey EXCEPT ![s] = new] /\ conflict' = conflict /\ entry' = entry
    BY <1>5 DEF ReadEntry, queueVars
  <2>2. new \in Surveying /\ new.copy = entry
    BY <1>2 DEF Surveying
  <2>3. TypeOK'
    <3>1. survey' \in [Surveys -> Surveying]
      BY <1>2, <2>1, <2>2
    <3> QED
      BY <1>1, <2>1, <3>1 DEF IInv, TypeOK, bookVars, fileVars, claimVars
  <2>4. Assigned'
    BY <1>1, <1>2, <1>3, <2>1, <2>2 DEF Assigned, AssignedRight, bookVars
  <2>5. ClosingHasEntry'
    BY <1>2, <2>1 DEF IInv, ClosingHasEntry
  <2> QED
    BY <1>1, <2>3, <2>4, <2>5, QueueStep
<1>6. CASE CloseEntry(s)
  <2> DEFINE new == [at |-> "end", copy |-> None]
             closed == [survey[s].copy EXCEPT !.status = "SURVEYED"]
  <2>1. survey' = [survey EXCEPT ![s] = new] /\ conflict' = conflict /\ entry' \in {None, closed}
    BY <1>6 DEF CloseEntry
  <2>2. new \in Surveying /\ new.copy = None
    BY DEF Surveying
  <2>3. /\ closed \in Entry /\ closed.company = survey[s].copy.company
        /\ survey[s].copy # None
    <3>1. survey[s].copy \in Entry
      BY <1>2, <1>6 DEF CloseEntry, IInv, ClosingHasEntry
    <3> QED
      BY <3>1, ActionsAssumption DEF Entry
  <2>4. TypeOK'
    <3>1. survey' \in [Surveys -> Surveying] /\ entry' \in Entry \cup {None}
      BY <1>2, <2>1, <2>2, <2>3
    <3> QED
      BY <1>1, <2>1, <3>1 DEF IInv, TypeOK, bookVars, fileVars, claimVars
  <2>5. Assigned'
    BY <1>1, <1>2, <1>3, <2>1, <2>2, <2>3 DEF Assigned, AssignedRight, bookVars
  <2>6. ClosingHasEntry'
    BY <1>2, <2>1 DEF IInv, ClosingHasEntry
  <2> QED
    BY <1>1, <2>4, <2>5, <2>6, QueueStep
<1> QED
  BY <1>4, <1>5, <1>6

\* A call cut off stays where it was.
LEMMA CutKeeps ==
  ASSUME IInv, Cut
  PROVE  IInv'
<1>1. /\ cuts < MaxCuts /\ cuts' = cuts + 1 
      /\ UNCHANGED <<queueVars, bookVars, undos, fileVars, survey, claimVars, recipients, now, events>>
  BY DEF Cut
<1>2. cuts' \in 0..MaxCuts
  BY <1>1, ActionsAssumption DEF IInv, TypeOK
<1>3. ASSUME NEW d \in Dispatches, dispatch[d].state = "busy", Ends(d, "cut"), UNCHANGED approve
      PROVE  IInv'
  <2>1. UNCHANGED <<card, referral, case, mail, noted>> /\ card \in Approval \cup {None}
    BY <1>1 DEF fileVars, IInv, TypeOK
  <2>2. DispatchEffect(d)
    BY <1>1, <1>2, <1>3, <2>1, EndingStep
  <2> QED
    BY <2>2, DispatchEffectKeeps
<1>4. ASSUME NEW a \in Approvers, approve[a].state = "busy",
             approve' = [approve EXCEPT ![a].state = "cut"], UNCHANGED dispatch
      PROVE  IInv'
  <2> DEFINE over == [approve[a] EXCEPT !.state = "cut"]
  <2>1. approve' = [approve EXCEPT ![a] = over] /\ approve \in [Approvers -> Approving]
    BY <1>4 DEF IInv, TypeOK
  <2>2. over \in Approving /\ over.state = "cut" /\ over.at = approve[a].at
    BY <2>1 DEF Approving, Progress
  <2>3. /\ approve' \in [Approvers -> Approving]
        /\ \A b \in Approvers : b # a => approve'[b] = approve[b]
        /\ approve'[a].state = "cut" /\ approve'[a].at = approve[a].at
    BY <2>1, <2>2
  <2>4. TypeOK' /\ Grows /\ MailInv'
    <3>1. TypeOK' /\ Kept
      BY <1>1, <1>2, <1>4, <2>3 DEF IInv, TypeOK, Kept, queueVars, bookVars, fileVars, claimVars
    <3> QED
      BY <1>1, <1>4, <2>3, <3>1, AwayFromMailing DEF bookVars, fileVars
  <2>5. ApproveInv(approve[a])'
    BY <2>3 DEF ApproveInv
  <2>6. FilingIsAccounted' /\ FollowedUp'
    BY <1>1, <2>3, <2>4 DEF IInv, FilingIsAccounted, AtMostOne, FollowedUp, Grows, fileVars, claimVars
  <2>7. ApproveEffect(a)
    BY <1>1, <1>4, <2>3, <2>4, <2>5, <2>6 DEF ApproveEffect, queueVars, bookVars, fileVars, claimVars
  <2> QED
    BY <2>7, ApproveEffectKeeps
<1> QED
  BY <1>3, <1>4 DEF Cut

\* The clock is nobody's but the claims'.
LEMMA TickKeeps ==
  ASSUME IInv, Tick
  PROVE  IInv'
<1>1. /\ now' = now + 1 /\ events' \in 0..MaxEvents
      /\ UNCHANGED <<queueVars, bookVars, undos, fileVars, callVars, claimVars, recipients, cuts>>
  BY ActionsAssumption DEF Tick, Event, IInv, TypeOK
<1>2. TypeOK'
  <2>1. now' \in Nat
    BY <1>1 DEF IInv, TypeOK
  <2> QED
    BY <1>1, <2>1 DEF IInv, TypeOK, queueVars, bookVars, fileVars, callVars, claimVars
<1>3. Assigned' /\ ClosingHasEntry'
  BY <1>1 DEF IInv, Assigned, AssignedRight, ClosingHasEntry, queueVars, bookVars, callVars
<1> QED
  BY <1>1, <1>2, <1>3, QueueStep DEF callVars

-----------------------------------------------------------------------------
LEMMA InitInv == Init => IInv
<1> SUFFICES ASSUME Init PROVE IInv
  OBVIOUS
<1> DEFINE idle == [state |-> "idle", at |-> "draft", company |-> None, copy |-> None, sees |-> FALSE, late |-> FALSE]
           untapped == [state |-> "idle", at |-> "execute"]
           away == [at |-> "idle", copy |-> None]
<1>1. idle \in Dispatching /\ untapped \in Approving /\ away \in Surveying
  BY AfterDispatchIs, AfterApprovalIs DEF Dispatching, Approving, Surveying, Progress
<1>2. /\ \A d \in Dispatches : dispatch[d] = idle
      /\ \A a \in Approvers : approve[a] = untapped
      /\ \A s \in Surveys : survey[s] = away
  BY DEF Init
<1>3. Ranked(1) \in Entry /\ Ranked(1).company = None /\ MaxCuts \in Nat /\ MaxEvents \in Nat
  BY ActionsAssumption DEF Ranked, Entry
<1>4. TypeOK
  <2>1. /\ dispatch \in [Dispatches -> Dispatching] /\ approve \in [Approvers -> Approving]
        /\ survey \in [Surveys -> Surveying]
    BY <1>1 DEF Init
  <2>2. /\ entry \in Entry /\ ranks \in Nat /\ now \in Nat /\ recipients \in BOOLEAN
        /\ cuts \in 0..MaxCuts /\ events \in 0..MaxEvents
    BY <1>3 DEF Init
  <2>3. /\ claims \in [Keys \cup {"referralMail"} -> IdempotencyRecord]
        /\ booked \in [Keys -> SUBSET Booking]
    BY DEF Init, NoRecord, IdempotencyRecord, ClaimStatus
  <2> QED
    BY <2>1, <2>2, <2>3 DEF Init, TypeOK
<1>5. DispatchesInv /\ ApprovesInv
  BY <1>2 DEF DispatchesInv, DispatchInv, ApprovesInv, ApproveInv
<1>6. Booked /\ Assigned /\ ClosingHasEntry
  BY <1>2, <1>3 DEF Init, Booked, Assigned, AssignedRight, ClosingHasEntry
<1>7. FilingIsAccounted /\ FollowedUp /\ CardHasReferral /\ CardNext /\ StagedIsApprovable
  BY <1>2 DEF Init, FilingIsAccounted, AtMostOne, FollowedUp, CardHasReferral, CardNext, StagedIsApprovable
<1>8. ClaimsInv
  <2>1. ASSUME NEW key \in Keys PROVE ClaimInv(key)
    BY <1>2, <2>1 DEF Init, ClaimInv, NoRecord, AtMostOne, At
  <2> QED
    BY <2>1 DEF ClaimsInv
<1>9. MailInv
  BY <1>2 DEF Init, MailInv, NoRecord, AtMostOne, On
<1> QED
  BY <1>4, <1>5, <1>6, <1>7, <1>8, <1>9 DEF IInv

LEMMA StepInv == IInv /\ [Next]_vars => IInv'
<1> SUFFICES ASSUME IInv, [Next]_vars PROVE IInv'
  OBVIOUS
<1>1. CASE Next
  BY <1>1, DispatchKeeps, ApprovalKeeps, SurveyKeeps, RerankKeeps, CutKeeps, TickKeeps DEF Next
<1>2. CASE UNCHANGED vars
  <2>1. UNCHANGED <<queueVars, bookVars, undos, fileVars, dispatch, approve, survey, claimVars, envVars>>
    BY <1>2 DEF vars, callVars
  <2>2. TypeOK' /\ Assigned' /\ ClosingHasEntry'
    BY <2>1
       DEF IInv, TypeOK, Assigned, AssignedRight, ClosingHasEntry, queueVars, bookVars, fileVars,
           claimVars, envVars
  <2> QED
    BY <2>1, <2>2, QueueStep DEF envVars
<1> QED
  BY <1>1, <1>2

LEMMA InvAlways == Spec => []IInv
  BY InitInv, StepInv, PTL DEF Spec

\* The model's types, for any number of calls.
THEOREM TypeCorrect == Spec => []TypeOK
<1>1. IInv => TypeOK
  BY DEF IInv
<1> QED
  BY <1>1, InvAlways, PTL

\* A structure is booked for one company: the calendar, the crew's mail and the
\* queue agree with the one work order, whatever is cut off, and nothing is
\* booked twice under a key whose claim was never taken over
\* (ActionFlow.dispatch, DurableArtifactDedupe).
THEOREM CompanyIsOne == Spec => []OneCompany
<1>1. IInv => OneCompany
  BY DEF IInv, Booked, ClaimsInv, ClaimInv, Assigned, AssignedRight, OneCompany
<1> QED
  BY <1>1, InvAlways, PTL

\* A filed referral has its case and its granted approval, for good, a mail or
\* a note is about a filed one, and the mail is one unless its claim was taken
\* over (approve_referral).
THEOREM FilingAccountedFor == Spec => []FilingIsAccounted
<1>1. IInv => FilingIsAccounted
  BY DEF IInv
<1> QED
  BY <1>1, InvAlways, PTL

\* What a call answers for is done, whichever call did it; what is missing of
\* its bookings and its mail another call has claimed and is about to make, or
\* was cut off there (dispatch, approve_referral and their replays).
THEOREM AnswersAreDone == Spec => []AnsweredIsDone
<1>1. IInv => AnsweredIsDone
  <2> SUFFICES ASSUME IInv PROVE AnsweredIsDone
    OBVIOUS
  <2>1. ASSUME NEW d \in Dispatches, dispatch[d].state = "answered", ~ dispatch[d].late
        PROVE  AllDone
    BY <2>1 DEF IInv, DispatchesInv, DispatchInv
  <2>2. ASSUME NEW a \in Approvers, approve[a].state = "answered"
        PROVE  /\ referral.status = "FILED"
               /\ \/ Mailed /\ "filing" \in undos
                  \/ \E b \in Approvers : approve[b].state \in {"busy", "cut"} /\ approve[b].at \in {"undo", "mail"}
    BY <2>2 DEF IInv, ApprovesInv, ApproveInv, FollowedUp
  <2> QED
    BY <2>1, <2>2 DEF AnsweredIsDone, AllDone
<1> QED
  BY <1>1, InvAlways, PTL

\* A referral on file has its card, or a dispatch is at it or was cut off there
\* (_stage_referral).
THEOREM ReferralsAreApprovable == Spec => []StagedIsApprovable
<1>1. IInv => StagedIsApprovable
  BY DEF IInv
<1> QED
  BY <1>1, InvAlways, PTL
=============================================================================
