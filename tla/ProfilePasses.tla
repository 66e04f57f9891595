--------------------------- MODULE ProfilePasses ---------------------------
(***************************************************************************)
(* The slow loop at one address: passes of the watchers that record facts  *)
(* and materialize what follows from them, of structure-watch that ranks   *)
(* from its own reading, and surveys that settle conflicts.  They run      *)
(* concurrently, on several instances, and share four stores: the facts,   *)
(* the conflicts, the profile with its version check and the lock.  Each   *)
(* step below is what one pass does between two awaits.                    *)
(***************************************************************************)
EXTENDS LeaseLock, FiniteSets

CONSTANTS Facts,          \* observations, by their derived id
          Conflicts,      \* findings of the conflict engine, by derived id
          Findings,       \* the engine: what it finds in a set of facts
          Watchers,       \* passes that write facts and materialize
          Rankers,        \* passes of structure-watch
          Surveyors,      \* surveys being recorded
          Reads,          \* the facts a watcher or a survey comes with
          Settles,        \* the conflicts on attributes a survey verified
          OwnerOf,        \* the identity a watcher takes the lock under
          Contention,     \* the store aborts transactions others contend for
          MaxWaits,       \* LOCK_WAIT_ATTEMPTS
          MaxSaves,       \* MAX_MATERIALIZE_ATTEMPTS
          MaxFailures,    \* bound on failing calls and dying processes
          MaxVersion,     \* bound on the versions at which decay may move
          MaxTime         \* bound on the clock

Passes == Watchers \cup Rankers \cup Surveyors

ASSUME PassesAssumption ==
  /\ IsFiniteSet(Conflicts)
  /\ Findings \in [SUBSET Facts -> SUBSET Conflicts]
  /\ Findings[{}] = {}
  /\ Reads \in [Watchers \cup Surveyors -> SUBSET Facts \ {{}}]
  /\ Settles \in [Surveyors -> SUBSET Conflicts]
  /\ OwnerOf \in [Watchers -> Owners]
  /\ Watchers \cap (Rankers \cup Surveyors) = {}
  /\ Rankers \cap Surveyors = {}
  /\ Contention \in BOOLEAN
  /\ MaxSaves \in Nat \ {0}
  /\ {MaxWaits, MaxFailures, MaxVersion, MaxTime} \subseteq Nat

VARIABLES
  now,            \* the clock
  factStore,      \* the append-only fact store
  conflictStore,  \* the conflicts recorded
  resolvedStore,  \* those of them recorded as resolved
  profile,        \* the stored profile
  announced,      \* conflicts for which conflict.detected was published
  pass,           \* what each pass is doing
  gaveUp,         \* history: passes that ended without the lock or the save
  failures        \* failures so far

stores == <<factStore, conflictStore, resolvedStore, profile, announced>>
vars == <<now, lock, stores, pass, gaveUp, failures>>

-----------------------------------------------------------------------------
Profile == [version: Nat, facts: SUBSET Facts, conflicts: SUBSET Conflicts,
            resolved: SUBSET Conflicts]

EmptyProfile == [version |-> 0, facts |-> {}, conflicts |-> {}, resolved |-> {}]

WithFact(p, f) == [p EXCEPT !.version = @ + 1, !.facts = @ \cup {f}]
WithResolved(p, c) == [p EXCEPT !.version = @ + 1, !.resolved = @ \cup {c}]

\* Every conflict is one event on the timeline; new decay values are one more
\* write.  What decay does to a value is left out, only that it may move.
Materialized(p, new, aged) ==
  [p EXCEPT !.version = @ + Cardinality(new) + (IF aged THEN 1 ELSE 0),
            !.conflicts = @ \cup new]

NewConflicts(p) == Findings[p.facts] \ p.conflicts

\* draft: what the pass would save; base: the version it read; todo: what it
\* still has to append, settle, persist or announce; asked: the clock it read
\* for its lease.
Idle == [pc |-> "idle", draft |-> EmptyProfile, base |-> 0, todo |-> {}, fresh |-> {},
         asked |-> 0, waits |-> 0, saves |-> 0]

Locked == {"read", "persist", "save", "announce", "release"}
Critical(w) == w \in Watchers /\ pass[w].pc \in Locked

\* The end of a pass's work: a lock that is held is released on the way out.
Ended(w) == IF Critical(w) THEN [Idle EXCEPT !.pc = "release", !.asked = pass[w].asked]
                           ELSE Idle

Become(w, local) == pass' = [pass EXCEPT ![w] = local]
Goto(w, step) == Become(w, [pass[w] EXCEPT !.pc = step])

\* The store may abort a transaction while another pass is at the same document.
Contended(w, steps) == Contention /\ \E v \in Passes \ {w} : pass[v].pc \in steps
AtProfile == {"store", "save"}
AtLock == {"acquire", "release"}

Init ==
  /\ now = 0
  /\ lock = FreeLock
  /\ factStore = {}
  /\ conflictStore = {}
  /\ resolvedStore = {}
  /\ profile = EmptyProfile
  /\ announced = {}
  /\ pass = [w \in Passes |-> Idle]
  /\ gaveUp = {}
  /\ failures = 0

-----------------------------------------------------------------------------
(***************************************************************************)
(* Writing facts: read the profile, append each fact to the store, and     *)
(* save the profile with those that were new to the store.                 *)
(***************************************************************************)
Begin(w) ==
  /\ w \in Watchers \cup Surveyors
  /\ pass[w].pc = "idle"
  /\ Become(w, [Idle EXCEPT !.pc = "append", !.draft = profile, !.base = profile.version,
                            !.todo = Reads[w]])
  /\ UNCHANGED <<now, lock, stores, gaveUp, failures>>

\* The conflicts a survey settles: open in the profile it read, and verified.
ToSettle(w, draft) ==
  IF w \in Surveyors THEN (Settles[w] \cap draft.conflicts) \ draft.resolved ELSE {}

\* A survey saves in any case, a watcher only what has changed.
AfterAppends(w, draft) ==
  IF ToSettle(w, draft) # {} THEN "settle"
  ELSE IF w \in Surveyors \/ draft.version # pass[w].base THEN "store" ELSE "ask"

AppendFact(w, f) ==
  LET known == f \in factStore \cup pass[w].draft.facts
      draft == IF known THEN pass[w].draft ELSE WithFact(pass[w].draft, f)
      last == pass[w].todo = {f}
  IN  /\ pass[w].pc = "append"
      /\ f \in pass[w].todo
      /\ factStore' = factStore \cup {f}
      /\ Become(w, [pass[w] EXCEPT
           !.draft = draft,
           !.todo = IF last THEN ToSettle(w, draft) ELSE @ \ {f},
           !.pc = IF last THEN AfterAppends(w, draft) ELSE "append"])
      /\ UNCHANGED <<now, lock, conflictStore, resolvedStore, profile, announced,
                     gaveUp, failures>>

\* Mutant: the resolution is on the profile alone.
ProfileAlone(c) == UNCHANGED resolvedStore

Resolve(c) == resolvedStore' = resolvedStore \cup {c}

SettleConflict(s, c) ==
  /\ pass[s].pc = "settle"
  /\ c \in pass[s].todo \ resolvedStore
  /\ Resolve(c)
  /\ Become(s, [pass[s] EXCEPT !.draft = WithResolved(@, c), !.todo = @ \ {c},
                               !.pc = IF pass[s].todo = {c} THEN "store" ELSE "settle"])
  /\ UNCHANGED <<now, lock, factStore, conflictStore, profile, announced, gaveUp, failures>>

\* resolve() raises for a conflict that is resolved by now, and in contention.
SettleRefused(s, c) ==
  /\ pass[s].pc = "settle"
  /\ c \in pass[s].todo
  /\ c \in resolvedStore \/ Contended(s, {"settle"})
  /\ Become(s, Idle)
  /\ UNCHANGED <<now, lock, stores, gaveUp, failures>>

\* Mutant: the profile is put, not compared and set.
PlainPut(w) == TRUE

SaveAccepted(w) ==
  profile.version = pass[w].base /\ pass[w].draft.version > profile.version

AfterStore(w) == IF w \in Surveyors THEN Idle ELSE [Idle EXCEPT !.pc = "ask"]

StoreFacts(w) ==
  /\ pass[w].pc = "store"
  /\ SaveAccepted(w)
  /\ profile' = pass[w].draft
  /\ Become(w, AfterStore(w))
  /\ UNCHANGED <<now, lock, factStore, conflictStore, resolvedStore, announced,
                 gaveUp, failures>>

\* A lost save is logged, and the pass goes on without it.
LoseFacts(w) ==
  /\ pass[w].pc = "store"
  /\ ~SaveAccepted(w) \/ Contended(w, AtProfile)
  /\ Become(w, AfterStore(w))
  /\ UNCHANGED <<now, lock, stores, gaveUp, failures>>

-----------------------------------------------------------------------------
(***************************************************************************)
(* Materializing: take the lock, or wait a bounded time for it; derive     *)
(* what follows from the profile; persist the new conflicts, save, and     *)
(* announce them; and release the lock.  structure-watch takes no lock.    *)
(***************************************************************************)
Ask(w) ==
  /\ pass[w].pc = "ask"
  /\ Become(w, [pass[w] EXCEPT !.pc = "acquire", !.asked = now])
  /\ UNCHANGED <<now, lock, stores, gaveUp, failures>>

Acquire(w) ==
  /\ pass[w].pc = "acquire"
  /\ AcquireLock(OwnerOf[w], pass[w].asked)
  /\ Become(w, [pass[w] EXCEPT !.pc = "read", !.waits = 0])
  /\ UNCHANGED <<now, stores, gaveUp, failures>>

WaitOrGiveUp(w) ==
  IF pass[w].waits < MaxWaits
    THEN /\ Become(w, [pass[w] EXCEPT !.pc = "ask", !.waits = @ + 1, !.asked = 0])
         /\ UNCHANGED gaveUp
    ELSE Become(w, Idle) /\ gaveUp' = gaveUp \cup {w}

Refused(w) ==
  /\ pass[w].pc = "acquire"
  /\ ~Grantable(OwnerOf[w], pass[w].asked) \/ Contended(w, AtLock)
  /\ WaitOrGiveUp(w)
  /\ UNCHANGED <<now, lock, stores, failures>>

\* Whether there are conflicts to store before the profile is saved.
PersistFirst(new) == new # {}

Derive(w) ==
  \E aged \in BOOLEAN :
    LET new == NewConflicts(profile)
    IN  /\ \/ w \in Watchers /\ pass[w].pc = "read"
           \/ w \in Rankers /\ pass[w].pc = "idle"
        /\ aged => profile.facts # {} /\ profile.version < MaxVersion
        /\ IF new = {} /\ ~aged
             THEN Become(w, Ended(w))
             ELSE Become(w, [pass[w] EXCEPT
                    !.draft = Materialized(profile, new, aged), !.base = profile.version,
                    !.todo = new, !.fresh = new,
                    !.pc = IF PersistFirst(new) THEN "persist" ELSE "save"])
        /\ UNCHANGED <<now, lock, stores, gaveUp, failures>>

\* A conflict that is stored already is success.
PersistConflict(w, c) ==
  /\ pass[w].pc = "persist"
  /\ c \in pass[w].todo
  /\ conflictStore' = conflictStore \cup {c}
  /\ Become(w, [pass[w] EXCEPT !.todo = @ \ {c},
                               !.pc = IF pass[w].todo = {c} THEN "save" ELSE "persist"])
  /\ UNCHANGED <<now, lock, factStore, resolvedStore, profile, announced, gaveUp, failures>>

\* Mutant: what was saved is not announced.
SayNothing(w) == Ended(w)

\* What remains is to announce the new conflicts.
Announcing(w) ==
  IF pass[w].fresh = {} THEN Ended(w)
  ELSE [Idle EXCEPT !.pc = "announce", !.todo = pass[w].fresh, !.asked = pass[w].asked]

SaveDerived(w) ==
  /\ pass[w].pc = "save"
  /\ SaveAccepted(w)
  /\ profile' = pass[w].draft
  /\ Become(w, Announcing(w))
  /\ UNCHANGED <<now, lock, factStore, conflictStore, resolvedStore, announced,
                 gaveUp, failures>>

\* Mutant: the other writer is taken to have derived the same.
TakeAsDerived(w) == Become(w, Ended(w)) /\ UNCHANGED gaveUp

\* The watcher reads again and derives anew; structure-watch, which has no
\* retry, announces what it found although its save was lost.
AfterLostSave(w) ==
  IF w \in Rankers THEN Become(w, Announcing(w)) /\ UNCHANGED gaveUp
  ELSE IF pass[w].saves + 1 < MaxSaves
    THEN /\ Become(w, [Idle EXCEPT !.pc = "read", !.asked = pass[w].asked,
                                   !.saves = pass[w].saves + 1])
         /\ UNCHANGED gaveUp
    ELSE Become(w, Ended(w)) /\ gaveUp' = gaveUp \cup {w}

LoseSave(w) ==
  /\ pass[w].pc = "save"
  /\ ~SaveAccepted(w) \/ Contended(w, AtProfile)
  /\ AfterLostSave(w)
  /\ UNCHANGED <<now, lock, stores, failures>>

Announce(w, c) ==
  /\ pass[w].pc = "announce"
  /\ c \in pass[w].todo
  /\ announced' = announced \cup {c}
  /\ Become(w, IF pass[w].todo = {c} THEN Ended(w) ELSE [pass[w] EXCEPT !.todo = @ \ {c}])
  /\ UNCHANGED <<now, lock, factStore, conflictStore, resolvedStore, profile,
                 gaveUp, failures>>

Release(w) ==
  /\ pass[w].pc = "release"
  /\ ReleaseLock(OwnerOf[w]) \/ (Contended(w, AtLock) /\ UNCHANGED lock)
  /\ Become(w, Idle)
  /\ UNCHANGED <<now, stores, gaveUp, failures>>

-----------------------------------------------------------------------------
\* A call raises, and the lock is released on the way out; or the process dies,
\* and the lock stays until its lease runs out.
Fail(w) ==
  /\ failures < MaxFailures
  /\ pass[w].pc # "idle"
  /\ failures' = failures + 1
  /\ Become(w, Ended(w)) \/ Become(w, Idle)
  /\ UNCHANGED <<now, lock, stores, gaveUp>>

Tick ==
  /\ now < MaxTime
  /\ now' = now + 1
  /\ UNCHANGED <<lock, stores, pass, gaveUp, failures>>

Work(w) ==
  \/ Begin(w)
  \/ \E f \in Facts : AppendFact(w, f)
  \/ \E c \in Conflicts : SettleConflict(w, c) \/ SettleRefused(w, c)
  \/ StoreFacts(w) \/ LoseFacts(w)
  \/ Ask(w) \/ Acquire(w) \/ Refused(w)
  \/ Derive(w) \/ SaveDerived(w) \/ LoseSave(w)
  \/ \E c \in Conflicts : PersistConflict(w, c) \/ Announce(w, c)
  \/ Release(w)

Next == (\E w \in Passes : Work(w) \/ Fail(w)) \/ Tick

Spec == Init /\ [][Next]_vars

-----------------------------------------------------------------------------
Steps == Locked \cup {"idle", "append", "settle", "store", "ask", "acquire"}

Pass == [pc: Steps, draft: Profile, base: Nat, todo: SUBSET (Facts \cup Conflicts),
         fresh: SUBSET Conflicts, asked: Nat, waits: 0..MaxWaits, saves: 0..MaxSaves]

TypeOK ==
  /\ now \in 0..MaxTime
  /\ lock \in LockLease
  /\ factStore \subseteq Facts
  /\ {conflictStore, resolvedStore, announced} \subseteq SUBSET Conflicts
  /\ profile \in Profile
  /\ pass \in [Passes -> Pass]
  /\ gaveUp \subseteq Passes
  /\ failures \in 0..MaxFailures

\* No write of one pass undoes another's: whatever was read before and saved
\* after, with or without the lock, the profile keeps every fact, conflict and
\* resolution it has, and its version grows with every change.
ProfileOnlyGrows ==
  [][/\ profile.facts \subseteq profile'.facts
     /\ profile.conflicts \subseteq profile'.conflicts
     /\ profile.resolved \subseteq profile'.resolved
     /\ profile.version < profile'.version]_profile

\* The profile cites nothing the stores do not hold, and nothing is announced
\* that a consumer could not look up: facts and conflicts are stored first.
Provenance ==
  /\ profile.facts \subseteq factStore
  /\ profile.conflicts \cup announced \subseteq conflictStore
  /\ profile.resolved \subseteq resolvedStore

\* As long as nothing fails, each conflict on the profile is announced or about
\* to be by the pass that won the save, though several derived it.
AnnouncedUnlessFailed ==
  failures = 0 =>
    \A c \in profile.conflicts :
      c \in announced \/ \E w \in Passes : pass[w].pc = "announce" /\ c \in pass[w].todo

\* As long as nothing fails and nobody gave up, a profile no watcher is working
\* on has all the conflicts its facts amount to: who loses a race derives anew,
\* and who finds the lock held waits.  A survey leaves that to the next pass.
Surveyed == UNION {Reads[s] : s \in Surveyors}

DerivedAtRest ==
  (/\ failures = 0
   /\ gaveUp = {}
   /\ profile.facts \cap Surveyed = {}
   /\ \A w \in Watchers : pass[w].pc \in {"idle", "append", "store"})
  => NewConflicts(profile) = {}

\* Two watchers materialize the address together only after the lease of one
\* has run out, provided no two share an identity (see OnePassAtATime).
Expired(w) == now >= pass[w].asked + Lease

OnePassAtATime ==
  \A v, w \in Watchers : v # w /\ Critical(v) /\ Critical(w) => Expired(v) \/ Expired(w)

DistinctOwners == \A v, w \in Watchers : v # w => OwnerOf[v] # OwnerOf[w]

LockExcludes == DistinctOwners => OnePassAtATime

=============================================================================
