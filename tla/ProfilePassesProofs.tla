------------------------ MODULE ProfilePassesProofs ------------------------
(***************************************************************************)
(* ProfilePasses: for any number of passes, facts and conflicts, no write  *)
(* undoes another's, nothing is cited that is not stored, every conflict   *)
(* saved is announced unless something fails, what facts amount to has     *)
(* been derived when the watchers rest, and the lock excludes.             *)
(***************************************************************************)
EXTENDS ProfilePasses, TLAPS, FiniteSetTheorems

-----------------------------------------------------------------------------
(***************************************************************************)
(* Profiles and passes are closed under the operators that build them.     *)
(***************************************************************************)
LEMMA WithFactClosure ==
  ASSUME NEW p \in Profile, NEW f \in Facts
  PROVE  WithFact(p, f) \in Profile
<1>1. p.version + 1 \in Nat /\ p.facts \cup {f} \subseteq Facts
  BY DEF Profile
<1> QED
  BY <1>1 DEF WithFact, Profile

LEMMA WithResolvedClosure ==
  ASSUME NEW p \in Profile, NEW c \in Conflicts
  PROVE  WithResolved(p, c) \in Profile
<1>1. p.version + 1 \in Nat /\ p.resolved \cup {c} \subseteq Conflicts
  BY DEF Profile
<1> QED
  BY <1>1 DEF WithResolved, Profile

LEMMA NewConflictsType ==
  ASSUME NEW p \in Profile
  PROVE  NewConflicts(p) \subseteq Conflicts /\ Cardinality(NewConflicts(p)) \in Nat
<1>1. NewConflicts(p) \subseteq Conflicts
  BY PassesAssumption DEF NewConflicts, Profile
<1>2. IsFiniteSet(NewConflicts(p))
  BY <1>1, PassesAssumption, FS_Subset
<1> QED
  BY <1>1, <1>2, FS_CardinalityType

LEMMA MaterializedClosure ==
  ASSUME NEW p \in Profile, NEW aged \in BOOLEAN
  PROVE  Materialized(p, NewConflicts(p), aged) \in Profile
<1>1. NewConflicts(p) \subseteq Conflicts /\ Cardinality(NewConflicts(p)) \in Nat
  BY NewConflictsType
<1>2. p.version + Cardinality(NewConflicts(p)) + (IF aged THEN 1 ELSE 0) \in Nat
  <2>1. p.version \in Nat
    BY DEF Profile
  <2> QED
    BY <1>1, <2>1
<1>3. p.conflicts \cup NewConflicts(p) \subseteq Conflicts
  BY <1>1 DEF Profile
<1> QED
  BY <1>2, <1>3 DEF Materialized, Profile

LEMMA IdleClosure == Idle \in Pass /\ Idle.draft = EmptyProfile /\ Idle.pc = "idle"
<1>1. EmptyProfile \in Profile
  BY DEF EmptyProfile, Profile
<1>2. 0 \in 0..MaxWaits /\ 0 \in 0..MaxSaves
  BY PassesAssumption
<1> QED
  BY <1>1, <1>2 DEF Idle, Pass, Steps, Locked

\* A pass at work differs from an idle one in a few fields.
LEMMA EndedClosure ==
  ASSUME NEW w \in Passes, pass[w] \in Pass
  PROVE  /\ Ended(w) \in Pass
         /\ Ended(w).pc = IF Critical(w) THEN "release" ELSE "idle"
         /\ Critical(w) => Ended(w).asked = pass[w].asked
         /\ Ended(w).draft = EmptyProfile /\ Ended(w).fresh = {} /\ Ended(w).todo = {}
<1>1. Idle \in Pass /\ Idle.draft = EmptyProfile /\ Idle.fresh = {} /\ Idle.todo = {}
      /\ Idle.pc = "idle"
  BY IdleClosure DEF Idle
<1>2. "release" \in Steps
  BY DEF Steps, Locked
<1> QED
  BY <1>1, <1>2 DEF Ended, Pass

LEMMA AnnouncingClosure ==
  ASSUME NEW w \in Passes, pass[w] \in Pass
  PROVE  /\ Announcing(w) \in Pass
         /\ Announcing(w).draft = EmptyProfile /\ Announcing(w).fresh = {}
         /\ Announcing(w).todo = pass[w].fresh
         /\ Critical(w) => Announcing(w).asked = pass[w].asked
         /\ Announcing(w).pc = IF pass[w].fresh # {} THEN "announce"
                               ELSE IF Critical(w) THEN "release" ELSE "idle"
<1>1. Idle \in Pass /\ Idle.draft = EmptyProfile /\ Idle.fresh = {}
  BY IdleClosure DEF Idle
<1>2. "announce" \in Steps
  BY DEF Steps, Locked
<1>3. CASE pass[w].fresh = {}
  BY <1>3, EndedClosure DEF Announcing
<1>4. CASE pass[w].fresh # {}
  BY <1>1, <1>2, <1>4 DEF Announcing, Pass
<1> QED
  BY <1>3, <1>4

-----------------------------------------------------------------------------
LEMMA InitType == Init => TypeOK
<1> SUFFICES ASSUME Init PROVE TypeOK
  OBVIOUS
<1>1. EmptyProfile \in Profile
  BY DEF EmptyProfile, Profile
<1>2. FreeLock \in LockLease
  BY DEF FreeLock, LockLease
<1> QED
  BY <1>1, <1>2, IdleClosure, PassesAssumption DEF Init, TypeOK

LEMMA LockType ==
  ASSUME TypeOK, NEW w \in Watchers, AcquireLock(OwnerOf[w], pass[w].asked) \/ ReleaseLock(OwnerOf[w])
  PROVE  lock' \in LockLease
<1>1. pass[w].asked \in Nat /\ OwnerOf[w] \in Owners /\ Lease \in Nat
  BY PassesAssumption, LockAssumption DEF TypeOK, Pass, Passes
<1> QED
  BY <1>1 DEF TypeOK, AcquireLock, ReleaseLock, LockLease, FreeLock

LEMMA WriteType ==
  ASSUME TypeOK, NEW w \in Passes,
         \/ Begin(w) \/ StoreFacts(w) \/ LoseFacts(w)
         \/ \E f \in Facts : AppendFact(w, f)
         \/ \E c \in Conflicts : SettleConflict(w, c) \/ SettleRefused(w, c)
  PROVE  TypeOK'
<1>1. pass[w] \in Pass /\ profile \in Profile
  BY DEF TypeOK
<1>2. {"append", "settle", "store", "ask", "idle"} \subseteq Steps
  BY DEF Steps
<1>3. CASE Begin(w)
  <2>1. Reads[w] \subseteq Facts
    BY <1>3, PassesAssumption DEF Begin
  <2>2. [Idle EXCEPT !.pc = "append", !.draft = profile, !.base = profile.version,
                     !.todo = Reads[w]] \in Pass
    BY <1>1, <1>2, <2>1, IdleClosure DEF Pass, Profile
  <2> QED
    BY <1>3, <2>2 DEF Begin, Become, TypeOK, stores
<1>4. ASSUME NEW f \in Facts, AppendFact(w, f) PROVE TypeOK'
  <2> DEFINE draft == IF f \in factStore \cup pass[w].draft.facts THEN pass[w].draft
                      ELSE WithFact(pass[w].draft, f)
             local == [pass[w] EXCEPT
               !.draft = draft,
               !.todo = IF pass[w].todo = {f} THEN ToSettle(w, draft) ELSE @ \ {f},
               !.pc = IF pass[w].todo = {f} THEN AfterAppends(w, draft) ELSE "append"]
  <2>1. draft \in Profile
    BY <1>1, WithFactClosure DEF Pass
  <2>2. ToSettle(w, draft) \subseteq Conflicts
    BY <2>1 DEF ToSettle, Profile
  <2>3. AfterAppends(w, draft) \in Steps
    BY <1>2 DEF AfterAppends
  <2>4. local \in Pass
    <3> HIDE DEF draft
    <3> QED
      BY <1>1, <1>2, <2>1, <2>2, <2>3 DEF Pass
  <2>5. pass' = [pass EXCEPT ![w] = local] /\ factStore' = factStore \cup {f}
    BY <1>4 DEF AppendFact, Become
  <2> HIDE DEF local
  <2> QED
    BY <1>4, <2>4, <2>5 DEF AppendFact, TypeOK
<1>5. ASSUME NEW c \in Conflicts, SettleConflict(w, c) PROVE TypeOK'
  <2>1. WithResolved(pass[w].draft, c) \in Profile
    BY <1>1, WithResolvedClosure DEF Pass
  <2>2. [pass[w] EXCEPT !.draft = WithResolved(@, c), !.todo = @ \ {c},
                        !.pc = IF pass[w].todo = {c} THEN "store" ELSE "settle"] \in Pass
    BY <1>1, <1>2, <2>1 DEF Pass
  <2> QED
    BY <1>5, <2>2 DEF SettleConflict, Resolve, Become, TypeOK
<1>6. ASSUME NEW c \in Conflicts, SettleRefused(w, c) PROVE TypeOK'
  BY <1>6, IdleClosure DEF SettleRefused, Become, TypeOK, stores
<1>7. AfterStore(w) \in Pass
  BY <1>2, IdleClosure DEF AfterStore, Pass
<1>8. CASE StoreFacts(w)
  <2>1. pass[w].draft \in Profile
    BY <1>1 DEF Pass
  <2> QED
    BY <1>7, <1>8, <2>1 DEF StoreFacts, Become, TypeOK
<1>9. CASE LoseFacts(w)
  BY <1>7, <1>9 DEF LoseFacts, Become, TypeOK, stores
<1> QED
  BY <1>3, <1>4, <1>5, <1>6, <1>8, <1>9

LEMMA DeriveType ==
  ASSUME TypeOK, NEW w \in Passes, Derive(w) PROVE TypeOK'
<1>1. pass[w] \in Pass /\ profile \in Profile
  BY DEF TypeOK
<1>2. {"persist", "save"} \subseteq Steps
  BY DEF Steps, Locked
<1>3. PICK aged \in BOOLEAN :
        pass' = [pass EXCEPT ![w] =
          IF NewConflicts(profile) = {} /\ ~aged THEN Ended(w)
          ELSE [pass[w] EXCEPT
            !.draft = Materialized(profile, NewConflicts(profile), aged),
            !.base = profile.version,
            !.todo = NewConflicts(profile), !.fresh = NewConflicts(profile),
            !.pc = IF PersistFirst(NewConflicts(profile)) THEN "persist" ELSE "save"]]
  BY DEF Derive, Become
<1>4. Materialized(profile, NewConflicts(profile), aged) \in Profile
  BY <1>1, MaterializedClosure
<1>5. NewConflicts(profile) \subseteq Conflicts
  BY <1>1, NewConflictsType
<1>6. [pass[w] EXCEPT
            !.draft = Materialized(profile, NewConflicts(profile), aged),
            !.base = profile.version,
            !.todo = NewConflicts(profile), !.fresh = NewConflicts(profile),
            !.pc = IF PersistFirst(NewConflicts(profile)) THEN "persist" ELSE "save"] \in Pass
  BY <1>1, <1>2, <1>4, <1>5 DEF Pass, Profile
<1>7. pass' \in [Passes -> Pass]
  BY <1>1, <1>3, <1>6, EndedClosure DEF TypeOK
<1> QED
  BY <1>7 DEF Derive, TypeOK, stores

LEMMA MaterializeType ==
  ASSUME TypeOK, NEW w \in Passes,
         \/ SaveDerived(w) \/ LoseSave(w)
         \/ \E c \in Conflicts : PersistConflict(w, c) \/ Announce(w, c)
  PROVE  TypeOK'
<1>1. pass[w] \in Pass
  BY DEF TypeOK
<1>2. {"persist", "save", "read"} \subseteq Steps
  BY DEF Steps, Locked
<1>3. CASE SaveDerived(w)
  <2>1. pass[w].draft \in Profile
    BY <1>1 DEF Pass
  <2> QED
    BY <1>1, <1>3, <2>1, AnnouncingClosure DEF SaveDerived, Become, TypeOK
<1>4. CASE LoseSave(w)
  <2>1. ASSUME pass[w].saves + 1 < MaxSaves
        PROVE  [Idle EXCEPT !.pc = "read", !.asked = pass[w].asked,
                            !.saves = pass[w].saves + 1] \in Pass
    <3>1. pass[w].saves + 1 \in 0..MaxSaves /\ pass[w].asked \in Nat
      BY <1>1, <2>1, PassesAssumption DEF Pass
    <3> QED
      BY <1>2, <3>1, IdleClosure DEF Pass
  <2>2. pass' \in [Passes -> Pass] /\ gaveUp' \subseteq Passes
    BY <1>1, <1>4, <2>1, AnnouncingClosure, EndedClosure
       DEF LoseSave, AfterLostSave, Become, TypeOK
  <2> QED
    BY <1>4, <2>2 DEF LoseSave, TypeOK, stores
<1>5. ASSUME NEW c \in Conflicts, PersistConflict(w, c) PROVE TypeOK'
  <2>1. [pass[w] EXCEPT !.todo = @ \ {c},
                        !.pc = IF pass[w].todo = {c} THEN "save" ELSE "persist"] \in Pass
    BY <1>1, <1>2 DEF Pass
  <2> QED
    BY <1>5, <2>1 DEF PersistConflict, Become, TypeOK
<1>6. ASSUME NEW c \in Conflicts, Announce(w, c) PROVE TypeOK'
  <2>1. [pass[w] EXCEPT !.todo = @ \ {c}] \in Pass
    BY <1>1 DEF Pass
  <2> QED
    BY <1>1, <1>6, <2>1, EndedClosure DEF Announce, Become, TypeOK
<1> QED
  BY <1>3, <1>4, <1>5, <1>6

\* Only watchers come to the lock.
InRole(w) ==
  /\ w \in Rankers => pass[w].pc \in {"idle", "persist", "save", "announce"}
  /\ w \in Surveyors => pass[w].pc \in {"idle", "append", "settle", "store"}
  /\ w \in Watchers => pass[w].pc # "settle"

LEMMA WaitType ==
  ASSUME TypeOK, NEW w \in Passes, InRole(w), Ask(w) \/ Acquire(w) \/ Refused(w) \/ Release(w)
  PROVE  TypeOK'
<1>1. pass[w] \in Pass /\ now \in Nat
  BY PassesAssumption DEF TypeOK
<1>2. w \in Watchers
  BY DEF InRole, Ask, Acquire, Refused, Release, Passes
<1>3. {"ask", "acquire", "read"} \subseteq Steps /\ 0 \in 0..MaxWaits
  BY PassesAssumption DEF Steps, Locked
<1>4. CASE Ask(w)
  <2>1. [pass[w] EXCEPT !.pc = "acquire", !.asked = now] \in Pass
    BY <1>1, <1>3 DEF Pass
  <2> QED
    BY <1>4, <2>1 DEF Ask, Become, TypeOK, stores
<1>5. CASE Acquire(w)
  <2>1. [pass[w] EXCEPT !.pc = "read", !.waits = 0] \in Pass
    BY <1>1, <1>3 DEF Pass
  <2>2. lock' \in LockLease
    BY <1>2, <1>5, LockType DEF Acquire
  <2> QED
    BY <1>5, <2>1, <2>2 DEF Acquire, Become, TypeOK, stores
<1>6. CASE Refused(w)
  <2>1. ASSUME pass[w].waits < MaxWaits
        PROVE  [pass[w] EXCEPT !.pc = "ask", !.waits = @ + 1, !.asked = 0] \in Pass
    <3>1. pass[w].waits + 1 \in 0..MaxWaits
      BY <1>1, <2>1, PassesAssumption DEF Pass
    <3> QED
      BY <1>1, <1>3, <3>1 DEF Pass
  <2>2. pass' \in [Passes -> Pass] /\ gaveUp' \subseteq Passes
    BY <1>6, <2>1, IdleClosure DEF Refused, WaitOrGiveUp, Become, TypeOK
  <2> QED
    BY <1>6, <2>2 DEF Refused, TypeOK, stores
<1>7. CASE Release(w)
  <2>1. lock' \in LockLease
    BY <1>2, <1>7, LockType DEF Release, TypeOK
  <2> QED
    BY <1>7, <2>1, IdleClosure DEF Release, Become, TypeOK, stores
<1> QED
  BY <1>4, <1>5, <1>6, <1>7

LEMMA OtherType ==
  ASSUME TypeOK, Tick \/ \E w \in Passes : Fail(w) PROVE TypeOK'
<1>1. CASE Tick
  BY <1>1, PassesAssumption DEF Tick, TypeOK, stores
<1>2. ASSUME NEW w \in Passes, Fail(w) PROVE TypeOK'
  <2>1. pass' \in [Passes -> Pass]
    BY <1>2, EndedClosure, IdleClosure DEF Fail, Become, TypeOK
  <2>2. failures' \in 0..MaxFailures
    BY <1>2, PassesAssumption DEF Fail, TypeOK
  <2> QED
    BY <1>2, <2>1, <2>2 DEF Fail, TypeOK, stores
<1> QED
  BY <1>1, <1>2
-----------------------------------------------------------------------------
(***************************************************************************)
(* The inductive invariant, one part per property, each about one pass:    *)
(* what a draft may add to the profile it was read from, what it cites,    *)
(* what it has derived, and when the pass holds the lock.                  *)
(***************************************************************************)
Drafting == {"append", "settle", "store", "persist", "save"}

Adds(w) ==
  /\ profile.facts \subseteq pass[w].draft.facts
  /\ profile.conflicts \subseteq pass[w].draft.conflicts
  /\ profile.resolved \subseteq pass[w].draft.resolved
  /\ pass[w].draft.conflicts \subseteq profile.conflicts \cup pass[w].fresh
  /\ w \in Surveyors => pass[w].draft.facts \subseteq profile.facts \cup Reads[w]

Based(w) ==
  /\ pass[w].pc \in Drafting => pass[w].base <= profile.version
  /\ pass[w].pc \in Drafting /\ pass[w].base = profile.version => Adds(w)
  /\ pass[w].pc \in {"append", "settle", "store"} => pass[w].fresh = {}
  /\ pass[w].pc = "append" /\ w \in Surveyors => pass[w].todo \subseteq Reads[w]

Sourced(w) ==
  /\ pass[w].draft.facts \subseteq factStore
  /\ pass[w].draft.resolved \subseteq resolvedStore
  /\ pass[w].draft.conflicts \cup pass[w].fresh \subseteq
       conflictStore \cup (IF pass[w].pc = "persist" THEN pass[w].todo ELSE {})
  /\ pass[w].pc = "announce" => pass[w].todo \subseteq conflictStore

Complete(w) ==
  pass[w].pc \in {"persist", "save"} => Findings[pass[w].draft.facts] \subseteq pass[w].draft.conflicts

Leased(w) ==
  /\ pass[w].pc = "acquire" => pass[w].asked <= now
  /\ DistinctOwners /\ Critical(w) =>
       Expired(w) \/ (lock.owner = OwnerOf[w] /\ lock.expires = pass[w].asked + Lease)

\* While the watchers have not come to rest.
Deriving == \E w \in Watchers : pass[w].pc \in {"ask", "acquire", "read", "persist", "save"}

DerivedInv ==
  failures = 0 /\ gaveUp = {} /\ profile.facts \cap Surveyed = {} =>
    Deriving \/ NewConflicts(profile) = {}

LocalInv(w) == InRole(w) /\ Based(w) /\ Sourced(w) /\ Complete(w) /\ Leased(w)

IInv ==
  /\ TypeOK
  /\ \A w \in Passes : LocalInv(w)
  /\ Provenance
  /\ AnnouncedUnlessFailed
  /\ DerivedInv
-----------------------------------------------------------------------------
(***************************************************************************)
(* What a step leaves of the other passes, and what it makes of its own.   *)
(***************************************************************************)
Grows ==
  /\ factStore \subseteq factStore'
  /\ conflictStore \subseteq conflictStore'
  /\ resolvedStore \subseteq resolvedStore'
  /\ now <= now'
  /\ profile' = profile \/ profile.version < profile'.version

LEMMA StepGrows ==
  ASSUME TypeOK, NEW w \in Passes, Work(w) \/ Fail(w) \/ Tick
  PROVE  Grows
<1>1. now \in Nat
  BY PassesAssumption DEF TypeOK
<1>2. CASE Tick
  BY <1>1, <1>2 DEF Tick, Grows, stores
<1>3. CASE Fail(w)
  BY <1>1, <1>3 DEF Fail, Grows, stores
<1>4. CASE Work(w)
  <2>1. CASE Begin(w) \/ Ask(w) \/ Acquire(w) \/ Refused(w) \/ Release(w)
    BY <1>1, <2>1 DEF Begin, Ask, Acquire, Refused, Release, Grows, stores
  <2>2. CASE StoreFacts(w) \/ LoseFacts(w) \/ SaveDerived(w) \/ LoseSave(w)
    BY <1>1, <2>2 DEF StoreFacts, LoseFacts, SaveDerived, LoseSave, SaveAccepted, Grows, stores
  <2>3. CASE Derive(w)
    BY <1>1, <2>3 DEF Derive, Grows, stores
  <2>4. ASSUME NEW f \in Facts, AppendFact(w, f) PROVE Grows
    BY <1>1, <2>4 DEF AppendFact, Grows
  <2>5. ASSUME NEW c \in Conflicts, SettleConflict(w, c) \/ SettleRefused(w, c) PROVE Grows
    BY <1>1, <2>5 DEF SettleConflict, Resolve, SettleRefused, Grows, stores
  <2>6. ASSUME NEW c \in Conflicts, PersistConflict(w, c) \/ Announce(w, c) PROVE Grows
    BY <1>1, <2>6 DEF PersistConflict, Announce, Grows
  <2> QED
    BY <1>4, <2>1, <2>2, <2>3, <2>4, <2>5, <2>6 DEF Work
<1> QED
  BY <1>2, <1>3, <1>4

LEMMA OnlyItsPass ==
  ASSUME TypeOK, NEW w \in Passes, NEW u \in Passes, u # w, Work(w) \/ Fail(w)
  PROVE  pass'[u] = pass[u]
<1>1. CASE Fail(w)
  BY <1>1 DEF Fail, Become, TypeOK
<1>2. CASE Work(w)
  <2>1. CASE Begin(w) \/ Ask(w) \/ Acquire(w) \/ Refused(w) \/ Release(w)
    BY <2>1 DEF Begin, Ask, Acquire, Refused, WaitOrGiveUp, Release, Become, TypeOK
  <2>2. CASE StoreFacts(w) \/ LoseFacts(w) \/ SaveDerived(w) \/ LoseSave(w)
    BY <2>2 DEF StoreFacts, LoseFacts, SaveDerived, LoseSave, AfterLostSave, Become, TypeOK
  <2>3. CASE Derive(w)
    BY <2>3 DEF Derive, Become, TypeOK
  <2>4. ASSUME NEW f \in Facts, AppendFact(w, f) PROVE pass'[u] = pass[u]
    BY <2>4 DEF AppendFact, Become, TypeOK
  <2>5. ASSUME NEW c \in Conflicts, \/ SettleConflict(w, c) \/ SettleRefused(w, c)
                                    \/ PersistConflict(w, c) \/ Announce(w, c)
        PROVE  pass'[u] = pass[u]
    BY <2>5 DEF SettleConflict, SettleRefused, PersistConflict, Announce, Become, TypeOK
  <2> QED
    BY <1>2, <2>1, <2>2, <2>3, <2>4, <2>5 DEF Work
<1> QED
  BY <1>1, <1>2

\* A pass that does not move keeps its part of the invariant, but for the lock.
LEMMA UntouchedPass ==
  ASSUME TypeOK, TypeOK', NEW u \in Passes, pass'[u] = pass[u], Grows,
         InRole(u), Based(u), Sourced(u), Complete(u)
  PROVE  InRole(u)' /\ Based(u)' /\ Sourced(u)' /\ Complete(u)'
<1>1. pass[u].base \in Nat /\ profile.version \in Nat /\ profile'.version \in Nat
  BY DEF TypeOK, Pass, Profile
<1>2. InRole(u)' /\ Complete(u)'
  BY DEF InRole, Complete
<1>3. Sourced(u)'
  BY DEF Sourced, Grows
<1>4. CASE profile' = profile
  BY <1>2, <1>3, <1>4 DEF Based, Adds
<1>5. CASE profile.version < profile'.version
  <2>1. pass[u].pc \in Drafting => pass[u].base < profile'.version
    BY <1>1, <1>5 DEF Based
  <2> QED
    BY <1>1, <1>2, <1>3, <2>1 DEF Based
<1> QED
  BY <1>4, <1>5 DEF Grows

-----------------------------------------------------------------------------
\* A pass with nothing in hand.
Bare(w) ==
  /\ pass[w].draft = EmptyProfile
  /\ pass[w].fresh = {}
  /\ pass[w].pc \notin Drafting
  /\ pass[w].pc = "announce" => pass[w].todo \subseteq conflictStore

LEMMA BareInv ==
  ASSUME NEW w \in Passes, Bare(w)' PROVE Based(w)' /\ Sourced(w)' /\ Complete(w)'
<1>1. pass'[w].pc # "persist" /\ pass'[w].pc \notin {"append", "settle", "store", "save"}
  BY DEF Bare, Drafting
<1>2. EmptyProfile.facts = {} /\ EmptyProfile.conflicts = {} /\ EmptyProfile.resolved = {}
  BY DEF EmptyProfile
<1>3. Based(w)'
  BY <1>1 DEF Based, Bare
<1>4. Sourced(w)'
  BY <1>1, <1>2 DEF Sourced, Bare
<1> QED
  BY <1>1, <1>3, <1>4 DEF Complete

LEMMA BeginInv ==
  ASSUME TypeOK, NEW w \in Passes, Begin(w)
  PROVE  InRole(w)' /\ Based(w)' /\ Complete(w)' /\ (Provenance => Sourced(w)')
<1>1. /\ pass'[w].pc = "append" /\ pass'[w].draft = profile /\ pass'[w].fresh = {}
      /\ pass'[w].base = profile.version /\ pass'[w].todo = Reads[w]
      /\ profile' = profile /\ factStore' = factStore
      /\ conflictStore' = conflictStore /\ resolvedStore' = resolvedStore
  BY DEF Begin, Become, Idle, TypeOK, stores
<1>2. profile.version \in Nat
  BY DEF TypeOK, Profile
<1>3. InRole(w)'
  BY <1>1, PassesAssumption DEF InRole, Begin
<1>4. Based(w)'
  BY <1>1, <1>2 DEF Based, Adds, Drafting
<1>5. Complete(w)'
  BY <1>1 DEF Complete
<1>6. Provenance => Sourced(w)'
  BY <1>1 DEF Provenance, Sourced
<1> QED
  BY <1>3, <1>4, <1>5, <1>6
LEMMA AppendInv ==
  ASSUME TypeOK, NEW w \in Passes, NEW f \in Facts, AppendFact(w, f),
         InRole(w), Based(w), Sourced(w)
  PROVE  InRole(w)' /\ Based(w)' /\ Complete(w)' /\ Sourced(w)'
<1> DEFINE draft == IF f \in factStore \cup pass[w].draft.facts THEN pass[w].draft
                    ELSE WithFact(pass[w].draft, f)
           last == pass[w].todo = {f}
<1>1. /\ pass'[w].draft = draft
      /\ pass'[w].fresh = pass[w].fresh
      /\ pass'[w].base = pass[w].base
      /\ pass'[w].todo = IF last THEN ToSettle(w, draft) ELSE pass[w].todo \ {f}
      /\ pass'[w].pc = IF last THEN AfterAppends(w, draft) ELSE "append"
  BY DEF AppendFact, Become, TypeOK, Pass
<1>2. /\ profile' = profile /\ factStore' = factStore \cup {f}
      /\ conflictStore' = conflictStore /\ resolvedStore' = resolvedStore
      /\ f \in pass[w].todo /\ pass[w].pc = "append"
  BY DEF AppendFact
<1>3. pass[w].draft \in Profile
  BY DEF TypeOK, Pass
<1>4. /\ pass[w].draft.facts \subseteq draft.facts
      /\ draft.facts \subseteq pass[w].draft.facts \cup {f}
      /\ draft.conflicts = pass[w].draft.conflicts
      /\ draft.resolved = pass[w].draft.resolved
  <2>1. /\ WithFact(pass[w].draft, f).facts = pass[w].draft.facts \cup {f}
        /\ WithFact(pass[w].draft, f).conflicts = pass[w].draft.conflicts
        /\ WithFact(pass[w].draft, f).resolved = pass[w].draft.resolved
    BY <1>3 DEF WithFact, Profile
  <2> QED
    BY <2>1
<1> HIDE DEF draft
<1>5. w \in Watchers \cup Surveyors
  BY <1>2 DEF InRole, Passes
<1>6. pass'[w].pc \in {"append", "settle", "store", "ask"}
      /\ (w \in Surveyors => pass'[w].pc # "ask")
      /\ (w \notin Surveyors => pass'[w].pc # "settle")
  BY <1>1 DEF AfterAppends, ToSettle
<1>7. InRole(w)'
  BY <1>5, <1>6, PassesAssumption DEF InRole
<1>8. Based(w)'
  <2>1. pass'[w].base <= profile'.version
    BY <1>1, <1>2 DEF Based, Drafting
  <2>2. pass'[w].base = profile'.version => Adds(w)'
    <3>1. ASSUME pass[w].base = profile.version PROVE Adds(w)
      BY <1>2, <3>1 DEF Based, Drafting
    <3>2. w \in Surveyors => f \in Reads[w]
      BY <1>2 DEF Based
    <3> QED
      BY <1>1, <1>2, <1>4, <3>1, <3>2 DEF Adds
  <2>3. pass'[w].fresh = {}
    BY <1>1, <1>2 DEF Based
  <2>4. pass'[w].pc = "append" /\ w \in Surveyors => pass'[w].todo \subseteq Reads[w]
    <3>1. pass'[w].pc = "append" => ~last
      BY <1>1 DEF AfterAppends
    <3> QED
      BY <1>1, <1>2, <3>1 DEF Based
  <2> QED
    BY <2>1, <2>2, <2>3, <2>4 DEF Based
<1>9. Sourced(w)'
  BY <1>1, <1>2, <1>4, <1>6 DEF Sourced
<1>10. Complete(w)'
  BY <1>6 DEF Complete
<1> QED
  BY <1>7, <1>8, <1>9, <1>10

LEMMA SettleInv ==
  ASSUME TypeOK, NEW w \in Passes, NEW c \in Conflicts, SettleConflict(w, c),
         InRole(w), Based(w), Sourced(w)
  PROVE  InRole(w)' /\ Based(w)' /\ Complete(w)' /\ Sourced(w)'
<1>1. /\ pass'[w].draft = WithResolved(pass[w].draft, c)
      /\ pass'[w].fresh = pass[w].fresh
      /\ pass'[w].base = pass[w].base
      /\ pass'[w].pc \in {"settle", "store"}
  BY DEF SettleConflict, Become, TypeOK, Pass
<1>2. /\ profile' = profile /\ factStore' = factStore
      /\ conflictStore' = conflictStore /\ resolvedStore' = resolvedStore \cup {c}
      /\ pass[w].pc = "settle"
  BY DEF SettleConflict, Resolve
<1>3. pass[w].draft \in Profile
  BY DEF TypeOK, Pass
<1>4. /\ WithResolved(pass[w].draft, c).facts = pass[w].draft.facts
      /\ WithResolved(pass[w].draft, c).conflicts = pass[w].draft.conflicts
      /\ WithResolved(pass[w].draft, c).resolved = pass[w].draft.resolved \cup {c}
  BY <1>3 DEF WithResolved, Profile
<1>5. InRole(w)'
  BY <1>1, <1>2, PassesAssumption DEF InRole
<1>6. Based(w)'
  <2>1. pass[w].base = profile.version => Adds(w)
    BY <1>2 DEF Based, Drafting
  <2>2. pass'[w].base = profile'.version => Adds(w)'
    BY <1>1, <1>2, <1>4, <2>1 DEF Adds
  <2>3. pass'[w].base <= profile'.version /\ pass'[w].fresh = {}
    BY <1>1, <1>2 DEF Based, Drafting
  <2> QED
    BY <1>1, <2>2, <2>3 DEF Based
<1>7. Sourced(w)'
  BY <1>1, <1>2, <1>4 DEF Sourced
<1>8. Complete(w)'
  BY <1>1 DEF Complete
<1> QED
  BY <1>5, <1>6, <1>7, <1>8

LEMMA StoreInv ==
  ASSUME TypeOK, NEW w \in Passes, InRole(w),
         \/ StoreFacts(w) \/ LoseFacts(w)
         \/ \E c \in Conflicts : SettleRefused(w, c)
  PROVE  InRole(w)' /\ Based(w)' /\ Complete(w)' /\ Sourced(w)'
<1>1. pass'[w] = Idle \/ (pass'[w] = [Idle EXCEPT !.pc = "ask"] /\ w \in Watchers)
  <2>1. ASSUME NEW c \in Conflicts, SettleRefused(w, c) PROVE pass'[w] = Idle
    BY <2>1 DEF SettleRefused, Become, TypeOK
  <2>2. CASE StoreFacts(w) \/ LoseFacts(w)
    <3>1. pass'[w] = AfterStore(w)
      BY <2>2 DEF StoreFacts, LoseFacts, Become, TypeOK
    <3>2. w \in Watchers \cup Surveyors
      BY <2>2 DEF StoreFacts, LoseFacts, InRole, Passes
    <3> QED
      BY <3>1, <3>2 DEF AfterStore
  <2> QED
    BY <2>1, <2>2
<1>2. Bare(w)'
  BY <1>1 DEF Bare, Idle, Drafting
<1>3. Based(w)' /\ Sourced(w)' /\ Complete(w)'
  BY <1>2, BareInv
<1>4. InRole(w)'
  BY <1>1, PassesAssumption DEF InRole, Idle
<1> QED
  BY <1>3, <1>4

LEMMA WaitInv ==
  ASSUME TypeOK, NEW w \in Passes, InRole(w), Based(w), Sourced(w),
         Ask(w) \/ Acquire(w) \/ Refused(w) \/ Release(w)
  PROVE  InRole(w)' /\ Based(w)' /\ Complete(w)' /\ Sourced(w)'
<1>1. /\ profile' = profile /\ factStore' = factStore
      /\ conflictStore' = conflictStore /\ resolvedStore' = resolvedStore
  BY DEF Ask, Acquire, Refused, Release, stores
<1>2. w \in Watchers
  BY DEF InRole, Ask, Acquire, Refused, Release, Passes
<1>3. pass[w].pc \in {"ask", "acquire", "release"}
  BY DEF Ask, Acquire, Refused, Release
<1>4. \/ pass'[w] = Idle
      \/ /\ pass'[w].draft = pass[w].draft /\ pass'[w].fresh = pass[w].fresh
         /\ pass'[w].pc \in {"ask", "acquire", "read"}
  <2>1. CASE Ask(w)
    BY <2>1 DEF Ask, Become, TypeOK, Pass
  <2>2. CASE Acquire(w)
    BY <2>2 DEF Acquire, Become, TypeOK, Pass
  <2>3. CASE Refused(w)
    <3>1. pass[w] \in Pass
      BY DEF TypeOK
    <3>2. \/ pass' = [pass EXCEPT ![w] = Idle]
          \/ pass' = [pass EXCEPT ![w] = [pass[w] EXCEPT !.pc = "ask", !.waits = @ + 1, !.asked = 0]]
      BY <2>3 DEF Refused, WaitOrGiveUp, Become
    <3>3. CASE pass' = [pass EXCEPT ![w] = Idle]
      BY <3>3 DEF TypeOK
    <3>4. CASE pass' = [pass EXCEPT ![w] =
                          [pass[w] EXCEPT !.pc = "ask", !.waits = @ + 1, !.asked = 0]]
      <4>1. pass'[w] = [pass[w] EXCEPT !.pc = "ask", !.waits = @ + 1, !.asked = 0]
        BY <3>4 DEF TypeOK
      <4> QED
        BY <3>1, <4>1 DEF Pass
    <3> QED
      BY <3>2, <3>3, <3>4
  <2>4. CASE Release(w)
    BY <2>4 DEF Release, Become, TypeOK
  <2> QED
    BY <2>1, <2>2, <2>3, <2>4
<1>5. CASE pass'[w] = Idle
  <2>1. Bare(w)'
    BY <1>5 DEF Bare, Idle, Drafting
  <2> QED
    BY <1>2, <1>5, <2>1, BareInv, PassesAssumption DEF InRole, Idle
<1>6. CASE pass'[w].draft = pass[w].draft /\ pass'[w].fresh = pass[w].fresh
           /\ pass'[w].pc \in {"ask", "acquire", "read"}
  <2>1. InRole(w)'
    BY <1>2, <1>6, PassesAssumption DEF InRole
  <2>2. Based(w)' /\ Complete(w)'
    BY <1>6 DEF Based, Complete, Drafting
  <2>3. Sourced(w)'
    BY <1>1, <1>3, <1>6 DEF Sourced
  <2> QED
    BY <2>1, <2>2, <2>3
<1> QED
  BY <1>4, <1>5, <1>6

\* The end of a pass's work, and of what remains to be announced.
LEMMA EndedInv ==
  ASSUME NEW w \in Passes, InRole(w), pass[w] \in Pass, pass'[w] = Ended(w)
  PROVE  InRole(w)' /\ Based(w)' /\ Complete(w)' /\ Sourced(w)'
<1>1. /\ pass'[w].pc = IF Critical(w) THEN "release" ELSE "idle"
      /\ pass'[w].draft = EmptyProfile /\ pass'[w].fresh = {}
  BY EndedClosure
<1>2. Bare(w)'
  BY <1>1 DEF Bare, Drafting
<1>3. InRole(w)'
  BY <1>1, PassesAssumption DEF InRole, Critical
<1> QED
  BY <1>2, <1>3, BareInv

LEMMA AnnouncingInv ==
  ASSUME NEW w \in Passes, InRole(w), Sourced(w), pass[w] \in Pass, pass[w].pc = "save",
         pass'[w] = Announcing(w), conflictStore' = conflictStore
  PROVE  InRole(w)' /\ Based(w)' /\ Complete(w)' /\ Sourced(w)'
<1>1. /\ pass'[w].pc = IF pass[w].fresh # {} THEN "announce"
                        ELSE IF Critical(w) THEN "release" ELSE "idle"
      /\ pass'[w].draft = EmptyProfile /\ pass'[w].fresh = {}
      /\ pass'[w].todo = pass[w].fresh
  BY AnnouncingClosure
<1>2. pass[w].fresh \subseteq conflictStore
  BY DEF Sourced
<1>3. Bare(w)'
  BY <1>1, <1>2 DEF Bare, Drafting
<1>4. InRole(w)'
  BY <1>1, PassesAssumption DEF InRole, Critical
<1> QED
  BY <1>3, <1>4, BareInv
LEMMA DeriveEffect ==
  ASSUME TypeOK, NEW w \in Passes, Derive(w)
  PROVE  \/ NewConflicts(profile) = {} /\ pass'[w] = Ended(w)
         \/ /\ pass'[w].draft.facts = profile.facts
            /\ pass'[w].draft.conflicts = profile.conflicts \cup NewConflicts(profile)
            /\ pass'[w].draft.resolved = profile.resolved
            /\ pass'[w].base = profile.version
            /\ pass'[w].todo = NewConflicts(profile)
            /\ pass'[w].fresh = NewConflicts(profile)
            /\ pass'[w].pc = IF NewConflicts(profile) # {} THEN "persist" ELSE "save"
<1>1. pass[w] \in Pass /\ profile \in Profile
  BY DEF TypeOK
<1> DEFINE new == NewConflicts(profile)
<1>2. PICK aged \in BOOLEAN :
        pass' = [pass EXCEPT ![w] =
          IF new = {} /\ ~aged THEN Ended(w)
          ELSE [pass[w] EXCEPT !.draft = Materialized(profile, new, aged),
                               !.base = profile.version, !.todo = new, !.fresh = new,
                               !.pc = IF PersistFirst(new) THEN "persist" ELSE "save"]]
  BY DEF Derive, Become
<1>3. /\ Materialized(profile, new, aged).facts = profile.facts
      /\ Materialized(profile, new, aged).conflicts = profile.conflicts \cup new
      /\ Materialized(profile, new, aged).resolved = profile.resolved
  BY <1>1 DEF Materialized, Profile
<1> HIDE DEF new
<1>4. CASE new = {} /\ ~aged
  BY <1>2, <1>4 DEF TypeOK, new
<1>5. CASE ~(new = {} /\ ~aged)
  <2>1. pass'[w] = [pass[w] EXCEPT !.draft = Materialized(profile, new, aged),
                               !.base = profile.version, !.todo = new, !.fresh = new,
                               !.pc = IF PersistFirst(new) THEN "persist" ELSE "save"]
    BY <1>2, <1>5 DEF TypeOK
  <2>2. /\ pass'[w].draft = Materialized(profile, new, aged)
        /\ pass'[w].base = profile.version
        /\ pass'[w].todo = new /\ pass'[w].fresh = new
        /\ pass'[w].pc = IF new # {} THEN "persist" ELSE "save"
    BY <1>1, <2>1 DEF Pass, PersistFirst
  <2> QED
    BY <1>3, <2>2 DEF new
<1> QED
  BY <1>4, <1>5

LEMMA DeriveInv ==
  ASSUME TypeOK, NEW w \in Passes, Derive(w), InRole(w), Provenance
  PROVE  InRole(w)' /\ Based(w)' /\ Complete(w)' /\ Sourced(w)'
<1>1. /\ profile' = profile /\ factStore' = factStore
      /\ conflictStore' = conflictStore /\ resolvedStore' = resolvedStore
      /\ pass[w] \in Pass /\ profile.version \in Nat
      /\ w \in Watchers \cup Rankers
  BY DEF Derive, stores, TypeOK, Profile
<1>2. CASE pass'[w] = Ended(w)
  BY <1>1, <1>2, EndedInv
<1>3. CASE /\ pass'[w].draft.facts = profile.facts
           /\ pass'[w].draft.conflicts = profile.conflicts \cup NewConflicts(profile)
           /\ pass'[w].draft.resolved = profile.resolved
           /\ pass'[w].base = profile.version
           /\ pass'[w].todo = NewConflicts(profile)
           /\ pass'[w].fresh = NewConflicts(profile)
           /\ pass'[w].pc = IF NewConflicts(profile) # {} THEN "persist" ELSE "save"
  <2>1. InRole(w)'
    BY <1>1, <1>3, PassesAssumption DEF InRole
  <2>2. w \notin Surveyors
    BY <1>1, PassesAssumption
  <2>3. Based(w)'
    BY <1>1, <1>3, <2>2 DEF Based, Adds
  <2>4. Sourced(w)'
    BY <1>1, <1>3 DEF Sourced, Provenance
  <2>5. Complete(w)'
    BY <1>3 DEF Complete, NewConflicts
  <2> QED
    BY <2>1, <2>3, <2>4, <2>5
<1> QED
  BY <1>2, <1>3, DeriveEffect

LEMMA PersistInv ==
  ASSUME TypeOK, NEW w \in Passes, NEW c \in Conflicts, PersistConflict(w, c),
         InRole(w), Based(w), Sourced(w), Complete(w)
  PROVE  InRole(w)' /\ Based(w)' /\ Complete(w)' /\ Sourced(w)'
<1>1. /\ pass'[w].draft = pass[w].draft
      /\ pass'[w].fresh = pass[w].fresh
      /\ pass'[w].base = pass[w].base
      /\ pass'[w].todo = pass[w].todo \ {c}
      /\ pass'[w].pc = IF pass[w].todo = {c} THEN "save" ELSE "persist"
  BY DEF PersistConflict, Become, TypeOK, Pass
<1>2. /\ profile' = profile /\ factStore' = factStore
      /\ conflictStore' = conflictStore \cup {c} /\ resolvedStore' = resolvedStore
      /\ pass[w].pc = "persist"
  BY DEF PersistConflict
<1>3. InRole(w)'
  BY <1>1, <1>2 DEF InRole
<1>4. Based(w)'
  BY <1>1, <1>2 DEF Based, Drafting, Adds
<1>5. Sourced(w)'
  BY <1>1, <1>2 DEF Sourced
<1>6. Complete(w)'
  BY <1>1, <1>2 DEF Complete
<1> QED
  BY <1>3, <1>4, <1>5, <1>6

LEMMA SaveInv ==
  ASSUME TypeOK, NEW w \in Passes, SaveDerived(w) \/ LoseSave(w), InRole(w), Sourced(w)
  PROVE  InRole(w)' /\ Based(w)' /\ Complete(w)' /\ Sourced(w)'
<1>1. pass[w] \in Pass /\ pass[w].pc = "save" /\ conflictStore' = conflictStore
  BY DEF SaveDerived, LoseSave, TypeOK, stores
<1>2. \/ pass'[w] = Announcing(w)
      \/ pass'[w] = Ended(w)
      \/ (w \in Watchers /\ pass'[w].pc = "read" /\ pass'[w].draft = EmptyProfile
          /\ pass'[w].fresh = {})
  <2>1. CASE SaveDerived(w)
    BY <2>1 DEF SaveDerived, Become, TypeOK
  <2>2. CASE LoseSave(w)
    <3>1. w \notin Rankers => w \in Watchers
      BY <1>1 DEF InRole, Passes
    <3> QED
      BY <2>2, <3>1 DEF LoseSave, AfterLostSave, Become, TypeOK, Idle
  <2> QED
    BY <2>1, <2>2
<1>3. CASE pass'[w] = Announcing(w)
  BY <1>1, <1>3, AnnouncingInv
<1>4. CASE pass'[w] = Ended(w)
  BY <1>1, <1>4, EndedInv
<1>5. CASE w \in Watchers /\ pass'[w].pc = "read" /\ pass'[w].draft = EmptyProfile
           /\ pass'[w].fresh = {}
  <2>1. Bare(w)'
    BY <1>5 DEF Bare, Drafting
  <2>2. InRole(w)'
    BY <1>5, PassesAssumption DEF InRole
  <2> QED
    BY <2>1, <2>2, BareInv
<1> QED
  BY <1>2, <1>3, <1>4, <1>5

LEMMA AnnounceInv ==
  ASSUME TypeOK, NEW w \in Passes, NEW c \in Conflicts, Announce(w, c),
         InRole(w), Based(w), Sourced(w), Complete(w)
  PROVE  InRole(w)' /\ Based(w)' /\ Complete(w)' /\ Sourced(w)'
<1>1. /\ factStore' = factStore /\ conflictStore' = conflictStore
      /\ resolvedStore' = resolvedStore
      /\ pass[w] \in Pass /\ pass[w].pc = "announce"
  BY DEF Announce, TypeOK
<1>2. CASE pass[w].todo = {c}
  <2>1. pass'[w] = Ended(w)
    BY <1>2 DEF Announce, Become, TypeOK
  <2> QED
    BY <1>1, <2>1, EndedInv
<1>3. CASE pass[w].todo # {c}
  <2>1. /\ pass'[w].draft = pass[w].draft /\ pass'[w].fresh = pass[w].fresh
        /\ pass'[w].todo = pass[w].todo \ {c} /\ pass'[w].pc = "announce"
    BY <1>1, <1>3 DEF Announce, Become, TypeOK, Pass
  <2>2. InRole(w)'
    BY <1>1, <2>1 DEF InRole
  <2>3. Based(w)' /\ Complete(w)'
    BY <2>1 DEF Based, Drafting, Complete
  <2>4. Sourced(w)'
    BY <1>1, <2>1 DEF Sourced
  <2> QED
    BY <2>2, <2>3, <2>4
<1> QED
  BY <1>2, <1>3

LEMMA FailInv ==
  ASSUME TypeOK, NEW w \in Passes, Fail(w), InRole(w)
  PROVE  InRole(w)' /\ Based(w)' /\ Complete(w)' /\ Sourced(w)'
<1>1. pass[w] \in Pass /\ (pass'[w] = Ended(w) \/ pass'[w] = Idle)
  BY DEF Fail, Become, TypeOK
<1>2. CASE pass'[w] = Ended(w)
  BY <1>1, <1>2, EndedInv
<1>3. CASE pass'[w] = Idle
  <2>1. Bare(w)' /\ InRole(w)'
    BY <1>3, PassesAssumption DEF Bare, Idle, Drafting, InRole
  <2> QED
    BY <2>1, BareInv
<1> QED
  BY <1>1, <1>2, <1>3

LEMMA OwnPass ==
  ASSUME TypeOK, NEW w \in Passes, Work(w) \/ Fail(w), Provenance,
         InRole(w), Based(w), Sourced(w), Complete(w)
  PROVE  InRole(w)' /\ Based(w)' /\ Complete(w)' /\ Sourced(w)'
<1>1. CASE Fail(w)
  BY <1>1, FailInv
<1>2. CASE Work(w)
  <2>1. ASSUME NEW f \in Facts, AppendFact(w, f)
        PROVE  InRole(w)' /\ Based(w)' /\ Complete(w)' /\ Sourced(w)'
    BY <2>1, AppendInv
  <2>2. ASSUME NEW c \in Conflicts, \/ SettleConflict(w, c) \/ SettleRefused(w, c)
                                    \/ PersistConflict(w, c) \/ Announce(w, c)
        PROVE  InRole(w)' /\ Based(w)' /\ Complete(w)' /\ Sourced(w)'
    BY <2>2, SettleInv, StoreInv, PersistInv, AnnounceInv
  <2>3. CASE Begin(w)
    BY <2>3, BeginInv
  <2>4. CASE StoreFacts(w) \/ LoseFacts(w)
    BY <2>4, StoreInv
  <2>5. CASE Ask(w) \/ Acquire(w) \/ Refused(w) \/ Release(w)
    BY <2>5, WaitInv
  <2>6. CASE Derive(w) \/ SaveDerived(w) \/ LoseSave(w)
    BY <2>6, DeriveInv, SaveInv
  <2> QED
    BY <1>2, <2>1, <2>2, <2>3, <2>4, <2>5, <2>6 DEF Work
<1> QED
  BY <1>1, <1>2
-----------------------------------------------------------------------------
(***************************************************************************)
(* The lock: a pass in the locked part holds it, or its lease has run out. *)
(***************************************************************************)
\* A step that neither touches the lock nor enters the locked part.
LEMMA LeaseKept ==
  ASSUME NEW w \in Passes, Leased(w), lock' = lock, now' = now, pass'[w].pc # "acquire",
         Critical(w)' => Critical(w) /\ pass'[w].asked = pass[w].asked
  PROVE  Leased(w)'
  BY DEF Leased, Expired

LEMMA OwnLease ==
  ASSUME TypeOK, NEW w \in Passes, Work(w) \/ Fail(w), InRole(w), Leased(w)
  PROVE  Leased(w)'
<1>1. pass[w] \in Pass
  BY DEF TypeOK
<1> DEFINE Kept == /\ lock' = lock /\ now' = now /\ pass'[w].pc # "acquire"
                   /\ Critical(w)' => Critical(w) /\ pass'[w].asked = pass[w].asked
<1>2. Kept => Leased(w)'
  BY LeaseKept
<1>3. pass'[w] = Ended(w) => pass'[w].pc # "acquire"
         /\ (Critical(w)' => Critical(w) /\ pass'[w].asked = pass[w].asked)
  BY <1>1, EndedClosure DEF Critical, Locked
<1>4. pass'[w] = Announcing(w) /\ pass[w].pc = "save" => pass'[w].pc # "acquire"
         /\ (Critical(w)' => Critical(w) /\ pass'[w].asked = pass[w].asked)
  BY <1>1, AnnouncingClosure DEF Critical, Locked
<1>5. pass'[w].pc \notin Locked \cup {"acquire"} => pass'[w].pc # "acquire"
         /\ (Critical(w)' => Critical(w) /\ pass'[w].asked = pass[w].asked)
  BY DEF Critical
<1>6. Idle.pc \notin Locked \cup {"acquire"}
  BY IdleClosure DEF Locked
<1>7. CASE Fail(w)
  <2>1. lock' = lock /\ now' = now /\ (pass'[w] = Ended(w) \/ pass'[w] = Idle)
    BY <1>7 DEF Fail, Become, TypeOK
  <2> QED
    BY <1>2, <1>3, <1>5, <1>6, <2>1
<1>8. CASE Work(w)
  <2>1. CASE Begin(w)
    <3>1. lock' = lock /\ now' = now /\ pass'[w].pc = "append"
      BY <2>1 DEF Begin, Become, TypeOK, Idle
    <3> QED
      BY <1>2, <1>5, <3>1 DEF Locked
  <2>2. ASSUME NEW f \in Facts, AppendFact(w, f) PROVE Leased(w)'
    <3>1. lock' = lock /\ now' = now /\ pass'[w].pc \in {"append", "settle", "store", "ask"}
      BY <1>1, <2>2 DEF AppendFact, AfterAppends, Become, TypeOK, Pass
    <3> QED
      BY <1>2, <1>5, <3>1 DEF Locked
  <2>3. ASSUME NEW c \in Conflicts, SettleConflict(w, c) \/ SettleRefused(w, c)
        PROVE  Leased(w)'
    <3>1. lock' = lock /\ now' = now /\ pass'[w].pc \in {"settle", "store", "idle"}
      <4>1. CASE SettleConflict(w, c)
        BY <1>1, <4>1 DEF SettleConflict, Become, TypeOK, Pass
      <4>2. CASE SettleRefused(w, c)
        BY <4>2, IdleClosure DEF SettleRefused, Become, TypeOK
      <4> QED
        BY <2>3, <4>1, <4>2
    <3> QED
      BY <1>2, <1>5, <3>1 DEF Locked
  <2>4. CASE StoreFacts(w) \/ LoseFacts(w)
    <3>1. lock' = lock /\ now' = now /\ pass'[w].pc \in {"ask", "idle"}
      BY <2>4 DEF StoreFacts, LoseFacts, AfterStore, Become, TypeOK, Idle
    <3> QED
      BY <1>2, <1>5, <3>1 DEF Locked
  <2>5. CASE Ask(w)
    <3>1. pass'[w].pc = "acquire" /\ pass'[w].asked = now /\ now' = now /\ now \in Nat
      BY <1>1, <2>5, PassesAssumption DEF Ask, Become, TypeOK, Pass
    <3> QED
      BY <3>1 DEF Leased, Critical, Locked
  <2>6. CASE Acquire(w)
    <3>1. /\ pass'[w].pc = "read" /\ pass'[w].asked = pass[w].asked
          /\ lock' = [owner |-> OwnerOf[w], expires |-> pass[w].asked + Lease]
      BY <1>1, <2>6 DEF Acquire, AcquireLock, Become, TypeOK, Pass
    <3> QED
      BY <3>1 DEF Leased
  <2>7. CASE Refused(w)
    <3>1. lock' = lock /\ now' = now /\ pass'[w].pc \in {"ask", "idle"}
      BY <1>1, <2>7, IdleClosure DEF Refused, WaitOrGiveUp, Become, TypeOK, Pass
    <3> QED
      BY <1>2, <1>5, <3>1 DEF Locked
  <2>8. CASE Release(w)
    <3>1. pass'[w] = Idle
      BY <2>8 DEF Release, Become, TypeOK
    <3> QED
      BY <1>6, <3>1 DEF Leased, Critical
  <2>9. CASE Derive(w)
    <3>1. lock' = lock /\ now' = now
      BY <2>9 DEF Derive
    <3>2. CASE pass'[w] = Ended(w)
      BY <1>2, <1>3, <3>1, <3>2
    <3>3. CASE pass'[w] # Ended(w)
      <4>1. pass'[w].asked = pass[w].asked /\ pass'[w].pc \in {"persist", "save"}
        <5>1. PICK aged \in BOOLEAN :
                pass' = [pass EXCEPT ![w] = [pass[w] EXCEPT
                  !.draft = Materialized(profile, NewConflicts(profile), aged),
                  !.base = profile.version,
                  !.todo = NewConflicts(profile), !.fresh = NewConflicts(profile),
                  !.pc = IF PersistFirst(NewConflicts(profile)) THEN "persist" ELSE "save"]]
          BY <2>9, <3>3 DEF Derive, Become, TypeOK
        <5> QED
          BY <1>1, <5>1 DEF TypeOK, Pass
      <4>2. w \in Watchers => pass[w].pc = "read"
        BY <2>9, PassesAssumption DEF Derive
      <4> QED
        BY <1>2, <3>1, <4>1, <4>2 DEF Critical, Locked
    <3> QED
      BY <3>2, <3>3
  <2>10. CASE SaveDerived(w)
    <3>1. lock' = lock /\ now' = now /\ pass'[w] = Announcing(w) /\ pass[w].pc = "save"
      BY <2>10 DEF SaveDerived, Become, TypeOK
    <3> QED
      BY <1>2, <1>4, <3>1
  <2>11. CASE LoseSave(w)
    <3>1. lock' = lock /\ now' = now /\ pass[w].pc = "save"
      BY <2>11 DEF LoseSave
    <3>2. \/ pass'[w] = Announcing(w) \/ pass'[w] = Ended(w)
          \/ (pass'[w].pc = "read" /\ pass'[w].asked = pass[w].asked)
      BY <2>11 DEF LoseSave, AfterLostSave, Become, TypeOK, Idle
    <3> QED
      BY <1>2, <1>3, <1>4, <3>1, <3>2 DEF Critical, Locked
  <2>12. ASSUME NEW c \in Conflicts, PersistConflict(w, c) PROVE Leased(w)'
    <3>1. /\ lock' = lock /\ now' = now /\ pass[w].pc = "persist"
          /\ pass'[w].asked = pass[w].asked /\ pass'[w].pc \in {"persist", "save"}
      BY <1>1, <2>12 DEF PersistConflict, Become, TypeOK, Pass
    <3> QED
      BY <1>2, <3>1 DEF Critical, Locked
  <2>13. ASSUME NEW c \in Conflicts, Announce(w, c) PROVE Leased(w)'
    <3>1. /\ lock' = lock /\ now' = now /\ pass[w].pc = "announce"
          /\ \/ pass'[w] = Ended(w)
             \/ (pass'[w].asked = pass[w].asked /\ pass'[w].pc = "announce")
      BY <1>1, <2>13 DEF Announce, Become, TypeOK, Pass
    <3> QED
      BY <1>2, <1>3, <3>1 DEF Critical, Locked
  <2> QED
    BY <1>8, <2>1, <2>2, <2>3, <2>4, <2>5, <2>6, <2>7, <2>8, <2>9, <2>10, <2>11, <2>12, <2>13
       DEF Work
<1> QED
  BY <1>7, <1>8

LEMMA LockMoves ==
  ASSUME NEW v \in Passes, Work(v) \/ Fail(v), ~Acquire(v), ~Release(v)
  PROVE  lock' = lock /\ now' = now
<1>1. CASE Fail(v)
  BY <1>1 DEF Fail
<1>2. CASE Work(v)
  BY <1>2 DEF Work, Begin, AppendFact, SettleConflict, SettleRefused, StoreFacts, LoseFacts, Ask,
              Refused, Derive, PersistConflict, SaveDerived, LoseSave, Announce
<1> QED
  BY <1>1, <1>2

LEMMA OthersLease ==
  ASSUME TypeOK, NEW v \in Passes, NEW w \in Passes, v # w, Work(v) \/ Fail(v),
         InRole(v), Leased(v), Leased(w)
  PROVE  Leased(w)'
<1>1. pass'[w] = pass[w]
  BY OnlyItsPass
<1>2. CASE ~Acquire(v) /\ ~Release(v)
  <2>1. lock' = lock /\ now' = now
    BY <1>2, LockMoves
  <2> QED
    BY <1>1, <2>1 DEF Leased, Critical, Expired
<1>3. CASE Acquire(v) \/ Release(v)
  <2>1. now' = now /\ v \in Watchers
    BY <1>3 DEF Acquire, Release, InRole, Passes
  <2>2. SUFFICES ASSUME DistinctOwners, Critical(w)
                 PROVE  Expired(w) \/ (lock'.owner = OwnerOf[w] /\ lock'.expires = pass[w].asked + Lease)
    BY <1>1, <2>1 DEF Leased, Critical, Expired
  <2>3. Expired(w) \/ (lock.owner = OwnerOf[w] /\ lock.expires = pass[w].asked + Lease)
    BY <2>2 DEF Leased
  <2>4. /\ OwnerOf[w] # OwnerOf[v]
        /\ OwnerOf[w] \in Owners /\ OwnerOf[w] # Nobody
        /\ now \in Nat /\ Lease \in Nat /\ pass[v].asked \in Nat /\ pass[w].asked \in Nat
    BY <2>1, <2>2, PassesAssumption, LockAssumption DEF DistinctOwners, Critical, TypeOK, Pass
  <2>5. CASE Acquire(v)
    <3>1. lock.owner \in {Nobody, OwnerOf[v]} \/ pass[v].asked >= lock.expires
      BY <2>5 DEF Acquire, AcquireLock, Grantable
    <3>2. pass[v].asked <= now
      BY <2>5 DEF Acquire, Leased
    <3> QED
      BY <2>3, <2>4, <3>1, <3>2 DEF Expired
  <2>6. CASE Release(v)
    BY <2>3, <2>4, <2>6 DEF Release, ReleaseLock
  <2> QED
    BY <1>3, <2>5, <2>6
<1> QED
  BY <1>2, <1>3

LEMMA TickLease ==
  ASSUME TypeOK, NEW w \in Passes, Tick, Leased(w) PROVE Leased(w)'
<1>1. now' = now + 1 /\ lock' = lock /\ pass' = pass
  BY DEF Tick
<1>2. now \in Nat /\ Lease \in Nat /\ pass[w].asked \in Nat
  BY PassesAssumption, LockAssumption DEF TypeOK, Pass
<1> QED
  BY <1>1, <1>2 DEF Leased, Critical, Expired
-----------------------------------------------------------------------------
(***************************************************************************)
(* The profile and the stores.  Only saves write the profile, and what a   *)
(* save writes was read from the very version it replaces.                 *)
(***************************************************************************)
Saves(w) == StoreFacts(w) \/ SaveDerived(w)

LEMMA ProfileMoves ==
  ASSUME NEW w \in Passes, Work(w) \/ Fail(w), ~Saves(w) PROVE profile' = profile
<1>1. CASE Fail(w)
  BY <1>1 DEF Fail, stores
<1>2. CASE Work(w)
  BY <1>2 DEF Work, Saves, Begin, AppendFact, SettleConflict, SettleRefused, LoseFacts, Ask,
              Acquire, Refused, Release, Derive, PersistConflict, LoseSave, Announce, stores
<1> QED
  BY <1>1, <1>2

LEMMA SaveEffect ==
  ASSUME TypeOK, NEW w \in Passes, Saves(w), Based(w)
  PROVE  /\ profile' = pass[w].draft /\ profile.version < profile'.version /\ Adds(w)
         /\ factStore' = factStore /\ conflictStore' = conflictStore
         /\ resolvedStore' = resolvedStore /\ announced' = announced
         /\ failures' = failures /\ gaveUp' = gaveUp
<1>1. SaveAccepted(w) /\ profile' = pass[w].draft /\ pass[w].pc \in {"store", "save"}
      /\ factStore' = factStore /\ conflictStore' = conflictStore
      /\ resolvedStore' = resolvedStore /\ announced' = announced
      /\ failures' = failures /\ gaveUp' = gaveUp
  BY DEF Saves, StoreFacts, SaveDerived
<1>2. pass[w].base = profile.version /\ profile.version < profile'.version
  BY <1>1 DEF SaveAccepted, TypeOK, Pass, Profile
<1> QED
  BY <1>1, <1>2 DEF Based, Drafting

LEMMA ProvenanceStep ==
  ASSUME TypeOK, NEW w \in Passes, Work(w) \/ Fail(w), Provenance, Based(w), Sourced(w)
  PROVE  Provenance'
<1>1. Grows
  BY StepGrows
<1>2. announced' \subseteq conflictStore'
  <2>1. CASE announced' = announced
    BY <1>1, <2>1 DEF Provenance, Grows
  <2>2. ASSUME NEW c \in Conflicts, Announce(w, c) PROVE announced' \subseteq conflictStore'
    BY <2>2 DEF Announce, Sourced, Provenance
  <2>3. announced' = announced \/ \E c \in Conflicts : Announce(w, c)
    BY DEF Work, Fail, Begin, AppendFact, SettleConflict, SettleRefused, StoreFacts, LoseFacts,
           Ask, Acquire, Refused, Release, Derive, PersistConflict, SaveDerived, LoseSave, stores
  <2> QED
    BY <2>1, <2>2, <2>3
<1>3. CASE ~Saves(w)
  BY <1>1, <1>2, <1>3, ProfileMoves DEF Provenance, Grows
<1>4. CASE Saves(w)
  <2>1. pass[w].pc # "persist"
    BY <1>4 DEF Saves, StoreFacts, SaveDerived
  <2> QED
    BY <1>2, <1>4, <2>1, SaveEffect DEF Provenance, Sourced
<1> QED
  BY <1>3, <1>4

\* Whoever is announcing goes on; what it has announced is announced.
LEMMA AnnouncedStep ==
  ASSUME TypeOK, NEW w \in Passes, Work(w) \/ Fail(w), AnnouncedUnlessFailed, Based(w)
  PROVE  AnnouncedUnlessFailed'
<1> SUFFICES ASSUME failures' = 0, NEW c \in Conflicts, c \in profile'.conflicts
             PROVE  c \in announced' \/ \E u \in Passes : pass'[u].pc = "announce" /\ c \in pass'[u].todo
  <2>1. profile'.conflicts \subseteq Conflicts
    <3>1. CASE Saves(w)
      BY <3>1, SaveEffect DEF TypeOK, Pass, Profile
    <3>2. CASE ~Saves(w)
      BY <3>2, ProfileMoves DEF TypeOK, Profile
    <3> QED
      BY <3>1, <3>2
  <2> QED
    BY <2>1 DEF AnnouncedUnlessFailed
<1>1. failures \in Nat
  BY PassesAssumption DEF TypeOK
<1>2. Work(w) /\ failures = 0
  <2>1. ~Fail(w)
    BY <1>1 DEF Fail
  <2>2. Work(w) => failures' = failures
    BY DEF Work, Begin, AppendFact, SettleConflict, SettleRefused, StoreFacts, LoseFacts, Ask,
           Acquire, Refused, Release, Derive, PersistConflict, SaveDerived, LoseSave, Announce
  <2> QED
    BY <2>1, <2>2
<1>3. announced \subseteq announced'
  BY <1>2 DEF Work, Begin, AppendFact, SettleConflict, SettleRefused, StoreFacts, LoseFacts,
           Ask, Acquire, Refused, Release, Derive, PersistConflict, SaveDerived, LoseSave,
           Announce, stores
<1>4. ASSUME NEW u \in Passes, pass[u].pc = "announce", c \in pass[u].todo
      PROVE  c \in announced' \/ (pass'[u].pc = "announce" /\ c \in pass'[u].todo)
  <2>1. CASE u # w
    BY <1>4, <2>1, OnlyItsPass
  <2>2. CASE u = w
    <3>1. PICK d \in Conflicts : Announce(w, d)
      BY <1>2, <1>4, <2>2, PassesAssumption DEF Work, Begin, AppendFact, SettleConflict,
         SettleRefused, StoreFacts, LoseFacts, Ask, Acquire, Refused, Release, Derive,
         PersistConflict, SaveDerived, LoseSave
    <3>2. CASE d = c
      BY <3>1, <3>2 DEF Announce
    <3>3. CASE d # c
      <4>1. pass[w].todo # {d} /\ pass[w] \in Pass
        BY <1>4, <2>2, <3>3 DEF TypeOK
      <4>2. pass'[w] = [pass[w] EXCEPT !.todo = @ \ {d}]
        BY <3>1, <4>1 DEF Announce, Become, TypeOK
      <4> QED
        BY <1>4, <2>2, <3>3, <4>1, <4>2 DEF Pass
    <3> QED
      BY <3>2, <3>3
  <2> QED
    BY <2>1, <2>2
<1>5. CASE c \in profile.conflicts
  BY <1>2, <1>3, <1>4, <1>5 DEF AnnouncedUnlessFailed
<1>6. CASE c \notin profile.conflicts
  <2>1. Saves(w)
    BY <1>6, ProfileMoves
  <2>2. c \in pass[w].fresh
    BY <1>6, <2>1, SaveEffect DEF Adds
  <2>3. SaveDerived(w)
    BY <2>1, <2>2 DEF Saves, StoreFacts, Based
  <2>4. pass'[w] = Announcing(w) /\ pass[w] \in Pass
    BY <2>3 DEF SaveDerived, Become, TypeOK
  <2> QED
    BY <2>2, <2>4, AnnouncingClosure
<1> QED
  BY <1>5, <1>6
-----------------------------------------------------------------------------
(***************************************************************************)
(* What the facts amount to is derived, or a watcher is on its way.        *)
(***************************************************************************)
NeverWrong == failures = 0 /\ gaveUp = {} /\ profile.facts \cap Surveyed = {}

LEMMA WorkKeepsHistory ==
  ASSUME NEW w \in Passes, Work(w) \/ Fail(w), TypeOK, failures' = 0, gaveUp' = {}
  PROVE  Work(w) /\ failures = 0 /\ gaveUp = {}
<1>1. failures \in Nat
  BY PassesAssumption DEF TypeOK
<1>2. ~Fail(w)
  BY <1>1 DEF Fail
<1>3. Work(w) => failures' = failures
  BY DEF Work, Begin, AppendFact, SettleConflict, SettleRefused, StoreFacts, LoseFacts, Ask,
         Acquire, Refused, Release, Derive, PersistConflict, SaveDerived, LoseSave, Announce
<1>4. Work(w) => gaveUp \subseteq gaveUp'
  BY DEF Work, Begin, AppendFact, SettleConflict, SettleRefused, StoreFacts, LoseFacts, Ask,
         Acquire, Refused, WaitOrGiveUp, Release, Derive, PersistConflict, SaveDerived, LoseSave,
         AfterLostSave, Announce
<1> QED
  BY <1>2, <1>3, <1>4

\* A watcher that is on its way stays so, gives up, or finds nothing to do.
LEMMA DerivingStep ==
  ASSUME TypeOK, NEW w \in Watchers, Work(w), ~Saves(w), gaveUp' = {},
         pass[w].pc \in {"ask", "acquire", "read", "persist", "save"}
  PROVE  \/ pass'[w].pc \in {"ask", "acquire", "read", "persist", "save"}
         \/ NewConflicts(profile') = {}
<1>1. w \in Passes /\ pass[w] \in Pass /\ w \notin Rankers
  BY PassesAssumption DEF TypeOK, Passes
<1>2. profile' = profile
  BY <1>1, ProfileMoves
<1>3. CASE Ask(w)
  BY <1>1, <1>3 DEF Ask, Become, TypeOK, Pass
<1>4. CASE Acquire(w)
  BY <1>1, <1>4 DEF Acquire, Become, TypeOK, Pass
<1>5. CASE Refused(w)
  <2>1. pass' = [pass EXCEPT ![w] = [pass[w] EXCEPT !.pc = "ask", !.waits = @ + 1, !.asked = 0]]
    BY <1>5 DEF Refused, WaitOrGiveUp, Become
  <2>2. pass'[w] = [pass[w] EXCEPT !.pc = "ask", !.waits = @ + 1, !.asked = 0]
    BY <1>1, <2>1 DEF TypeOK
  <2> QED
    BY <1>1, <2>2 DEF Pass
<1>6. CASE Derive(w)
  BY <1>1, <1>2, <1>6, DeriveEffect
<1>7. CASE LoseSave(w)
  BY <1>1, <1>7 DEF LoseSave, AfterLostSave, Become, TypeOK, Idle
<1>8. ASSUME NEW c \in Conflicts, PersistConflict(w, c)
      PROVE  pass'[w].pc \in {"persist", "save"}
  BY <1>1, <1>8 DEF PersistConflict, Become, TypeOK, Pass
<1> QED
  BY <1>3, <1>4, <1>5, <1>6, <1>7, <1>8
     DEF Work, Saves, Begin, AppendFact, SettleConflict, SettleRefused, LoseFacts, Announce, Release

LEMMA DerivedStep ==
  ASSUME TypeOK, NEW w \in Passes, Work(w) \/ Fail(w), DerivedInv,
         InRole(w), Based(w), Complete(w)
  PROVE  DerivedInv'
<1> SUFFICES ASSUME NeverWrong' PROVE Deriving' \/ NewConflicts(profile') = {}
  BY DEF DerivedInv, NeverWrong, NewConflicts
<1>1. Work(w) /\ failures = 0 /\ gaveUp = {} /\ gaveUp' = {}
  BY WorkKeepsHistory DEF NeverWrong
<1>2. CASE SaveDerived(w)
  <2>1. profile' = pass[w].draft /\ pass[w].pc = "save"
    BY <1>2 DEF SaveDerived
  <2> QED
    BY <2>1 DEF Complete, NewConflicts
<1>3. CASE StoreFacts(w)
  <2>1. CASE w \in Watchers
    <3>1. pass'[w].pc = "ask"
      BY <1>3, <2>1, PassesAssumption DEF StoreFacts, AfterStore, Become, TypeOK, Idle
    <3> QED
      BY <2>1, <3>1 DEF Deriving
  <2>2. CASE w \notin Watchers
    <3>1. w \in Surveyors
      BY <1>3, <2>2 DEF StoreFacts, InRole, Passes
    <3>2. profile' = pass[w].draft /\ Adds(w)
      BY <1>3, SaveEffect DEF Saves
    <3>3. Reads[w] \subseteq Surveyed /\ profile'.facts \cap Surveyed = {}
      BY <3>1 DEF Surveyed, NeverWrong
    <3>4. profile'.facts = profile.facts /\ profile.conflicts \subseteq profile'.conflicts
      BY <3>1, <3>2, <3>3 DEF Adds
    <3>5. Deriving \/ NewConflicts(profile) = {}
      BY <1>1, <3>3, <3>4 DEF DerivedInv
    <3>6. \A u \in Watchers : pass'[u] = pass[u]
      BY <1>1, <2>2, OnlyItsPass DEF Passes
    <3> QED
      BY <3>4, <3>5, <3>6 DEF Deriving, NewConflicts
  <2> QED
    BY <2>1, <2>2
<1>4. CASE ~Saves(w)
  <2>1. profile' = profile
    BY <1>4, ProfileMoves
  <2>2. Deriving \/ NewConflicts(profile) = {}
    BY <1>1, <2>1 DEF DerivedInv, NeverWrong
  <2>3. CASE NewConflicts(profile) = {}
    BY <2>1, <2>3
  <2>4. ASSUME NEW u \in Watchers, pass[u].pc \in {"ask", "acquire", "read", "persist", "save"}
        PROVE  Deriving' \/ NewConflicts(profile') = {}
    <3>1. CASE u # w
      <4>1. pass'[u] = pass[u]
        BY <1>1, <2>4, <3>1, OnlyItsPass DEF Passes
      <4> QED
        BY <2>4, <4>1 DEF Deriving
    <3>2. CASE u = w
      BY <1>1, <1>4, <2>4, <3>2, DerivingStep DEF Deriving
    <3> QED
      BY <3>1, <3>2
  <2> QED
    BY <2>2, <2>3, <2>4 DEF Deriving
<1> QED
  BY <1>2, <1>3, <1>4 DEF Saves

-----------------------------------------------------------------------------
LEMMA InitInv == Init => IInv
<1> SUFFICES ASSUME Init PROVE IInv
  OBVIOUS
<1>1. TypeOK
  BY InitType
<1>2. EmptyProfile.facts = {} /\ EmptyProfile.conflicts = {} /\ EmptyProfile.resolved = {}
  BY DEF EmptyProfile
<1>3. ASSUME NEW w \in Passes PROVE LocalInv(w)
  <2>1. pass[w] = Idle /\ Idle.pc = "idle" /\ Idle.draft = EmptyProfile /\ Idle.fresh = {}
    BY IdleClosure DEF Init, Idle
  <2>2. InRole(w) /\ Based(w) /\ Complete(w)
    BY <2>1 DEF InRole, Based, Drafting, Complete
  <2>3. Sourced(w)
    BY <1>2, <2>1 DEF Sourced
  <2>4. Leased(w)
    BY <2>1 DEF Leased, Critical, Locked
  <2> QED
    BY <2>2, <2>3, <2>4 DEF LocalInv
<1>4. Provenance /\ AnnouncedUnlessFailed
  BY <1>2 DEF Init, Provenance, AnnouncedUnlessFailed
<1>5. NewConflicts(profile) = {}
  BY <1>2, PassesAssumption DEF Init, NewConflicts
<1> QED
  BY <1>1, <1>3, <1>4, <1>5 DEF IInv, DerivedInv
LEMMA TypeStep ==
  ASSUME TypeOK, NEW w \in Passes, Work(w) \/ Fail(w), InRole(w) PROVE TypeOK'
<1>1. CASE Fail(w)
  BY <1>1, OtherType
<1>2. CASE Work(w)
  <2>1. ASSUME NEW f \in Facts, AppendFact(w, f) PROVE TypeOK'
    BY <2>1, WriteType
  <2>2. ASSUME NEW c \in Conflicts, \/ SettleConflict(w, c) \/ SettleRefused(w, c)
                                    \/ PersistConflict(w, c) \/ Announce(w, c)
        PROVE  TypeOK'
    BY <2>2, WriteType, MaterializeType
  <2>3. CASE Begin(w) \/ StoreFacts(w) \/ LoseFacts(w)
    BY <2>3, WriteType
  <2>4. CASE Ask(w) \/ Acquire(w) \/ Refused(w) \/ Release(w)
    BY <2>4, WaitType
  <2>5. CASE Derive(w) \/ SaveDerived(w) \/ LoseSave(w)
    BY <2>5, DeriveType, MaterializeType
  <2> QED
    BY <1>2, <2>1, <2>2, <2>3, <2>4, <2>5 DEF Work
<1> QED
  BY <1>1, <1>2

LEMMA TickInv == ASSUME IInv, Tick PROVE IInv'
<1>1. TypeOK /\ TypeOK'
  BY OtherType DEF IInv
<1>2. pass' = pass /\ profile' = profile /\ conflictStore' = conflictStore
      /\ factStore' = factStore /\ resolvedStore' = resolvedStore
      /\ announced' = announced /\ failures' = failures /\ gaveUp' = gaveUp
  BY DEF Tick, stores
<1>3. ASSUME NEW u \in Passes PROVE LocalInv(u)'
  <2>1. LocalInv(u)
    BY DEF IInv
  <2>2. Leased(u)'
    BY <1>1, <2>1, TickLease DEF LocalInv
  <2>3. InRole(u)' /\ Based(u)' /\ Sourced(u)' /\ Complete(u)'
    BY <1>2, <2>1 DEF LocalInv, InRole, Based, Adds, Sourced, Complete
  <2> QED
    BY <2>2, <2>3 DEF LocalInv
<1>4. Provenance' /\ AnnouncedUnlessFailed'
  BY <1>2 DEF IInv, Provenance, AnnouncedUnlessFailed
<1>5. DerivedInv'
  BY <1>2 DEF IInv, DerivedInv, Deriving, NewConflicts
<1> QED
  BY <1>1, <1>3, <1>4, <1>5 DEF IInv

LEMMA WorkInv ==
  ASSUME IInv, NEW w \in Passes, Work(w) \/ Fail(w) PROVE IInv'
<1>1. TypeOK /\ Provenance /\ AnnouncedUnlessFailed /\ DerivedInv
  BY DEF IInv
<1>2. InRole(w) /\ Based(w) /\ Sourced(w) /\ Complete(w) /\ Leased(w)
  BY DEF IInv, LocalInv
<1>3. TypeOK'
  BY <1>1, <1>2, TypeStep
<1>4. Grows
  BY <1>1, StepGrows
<1>5. ASSUME NEW u \in Passes PROVE LocalInv(u)'
  <2>1. InRole(u) /\ Based(u) /\ Sourced(u) /\ Complete(u) /\ Leased(u)
    BY DEF IInv, LocalInv
  <2>2. CASE u = w
    BY <1>1, <2>1, <2>2, OwnPass, OwnLease DEF LocalInv
  <2>3. CASE u # w
    <3>1. pass'[u] = pass[u]
      BY <1>1, <2>3, OnlyItsPass
    <3>2. Leased(u)'
      BY <1>1, <1>2, <2>1, <2>3, OthersLease
    <3> QED
      BY <1>1, <1>3, <1>4, <2>1, <3>1, <3>2, UntouchedPass DEF LocalInv
  <2> QED
    BY <2>2, <2>3
<1>6. Provenance'
  BY <1>1, <1>2, ProvenanceStep
<1>7. AnnouncedUnlessFailed'
  BY <1>1, <1>2, AnnouncedStep
<1>8. DerivedInv'
  BY <1>1, <1>2, DerivedStep
<1> QED
  BY <1>3, <1>5, <1>6, <1>7, <1>8 DEF IInv

LEMMA StutterInv == ASSUME IInv, UNCHANGED vars PROVE IInv'
<1>1. /\ now' = now /\ lock' = lock /\ pass' = pass /\ profile' = profile
      /\ conflictStore' = conflictStore /\ factStore' = factStore
      /\ resolvedStore' = resolvedStore
      /\ announced' = announced /\ failures' = failures /\ gaveUp' = gaveUp
  BY DEF vars, stores
<1>2. TypeOK'
  BY <1>1 DEF IInv, TypeOK
<1>3. ASSUME NEW u \in Passes PROVE LocalInv(u)'
  BY <1>1 DEF IInv, LocalInv, InRole, Based, Adds, Sourced, Complete, Leased, Critical, Expired
<1>4. Provenance' /\ AnnouncedUnlessFailed' /\ DerivedInv'
  BY <1>1 DEF IInv, Provenance, AnnouncedUnlessFailed, DerivedInv, Deriving, NewConflicts
<1> QED
  BY <1>2, <1>3, <1>4 DEF IInv

LEMMA Inductive == Spec => []IInv
<1>1. IInv /\ [Next]_vars => IInv'
  BY TickInv, WorkInv, StutterInv DEF Next
<1> QED
  BY InitInv, <1>1, PTL DEF Spec

-----------------------------------------------------------------------------
\* Every variable keeps its type, for any number of passes, facts, conflicts
\* and versions.
THEOREM TypeCorrect == Spec => []TypeOK
<1>1. IInv => TypeOK
  BY DEF IInv
<1> QED
  BY Inductive, <1>1, PTL

\* No pass undoes another's write of the profile, with or without the lock
\* (the version check of the profile repository).
THEOREM NoLostWrite == Spec => ProfileOnlyGrows
<1> DEFINE Step == /\ profile.facts \subseteq profile'.facts
                   /\ profile.conflicts \subseteq profile'.conflicts
                   /\ profile.resolved \subseteq profile'.resolved
                   /\ profile.version < profile'.version
<1>1. IInv /\ [Next]_vars => [Step]_profile
  <2> SUFFICES ASSUME IInv, [Next]_vars, profile' # profile PROVE Step
    OBVIOUS
  <2>1. PICK w \in Passes : Work(w) \/ Fail(w)
    BY DEF Next, Tick, vars, stores
  <2>2. Saves(w)
    BY <2>1, ProfileMoves
  <2>3. TypeOK /\ Based(w)
    BY DEF IInv, LocalInv
  <2> QED
    BY <2>2, <2>3, SaveEffect DEF Adds
<1> QED
  BY Inductive, <1>1, PTL DEF Spec, ProfileOnlyGrows

\* The profile and the announcements cite only what the stores hold.
THEOREM CitedIsStored == Spec => []Provenance
<1>1. IInv => Provenance
  BY DEF IInv
<1> QED
  BY Inductive, <1>1, PTL

\* Unless something fails, each conflict on the profile is announced or being
\* announced by the pass that saved it.
THEOREM SavedIsAnnounced == Spec => []AnnouncedUnlessFailed
<1>1. IInv => AnnouncedUnlessFailed
  BY DEF IInv
<1> QED
  BY Inductive, <1>1, PTL

\* Unless something fails or a pass gives up, the profile at rest has all the
\* conflicts its facts amount to.
THEOREM RestIsDerived == Spec => []DerivedAtRest
<1>1. IInv => DerivedAtRest
  BY DEF IInv, DerivedInv, Deriving, DerivedAtRest
<1> QED
  BY Inductive, <1>1, PTL

\* Under distinct identities two passes are in the locked part together only
\* after the lease of one has run out.
THEOREM LockIsExclusive == Spec => []LockExcludes
<1>1. IInv => LockExcludes
  <2> SUFFICES ASSUME IInv, DistinctOwners, NEW v \in Watchers, NEW w \in Watchers,
                      v # w, Critical(v), Critical(w), ~Expired(v), ~Expired(w)
               PROVE  FALSE
    BY DEF LockExcludes, OnePassAtATime
  <2>1. Leased(v) /\ Leased(w)
    BY DEF IInv, LocalInv, Passes
  <2>2. lock.owner = OwnerOf[v] /\ lock.owner = OwnerOf[w]
    BY <2>1 DEF Leased
  <2> QED
    BY <2>2 DEF DistinctOwners
<1> QED
  BY Inductive, <1>1, PTL
=============================================================================
