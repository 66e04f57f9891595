------------------------- MODULE RecordsRetrieval --------------------------
(***************************************************************************)
(* The records watcher's retrieval (agents/graphs/records.py and the part  *)
(* of agents/records_watcher.py that asks): which feeds are read, which    *)
(* cited filings are gone after, and what is asked of a person.  A filing  *)
(* is its number and the numbers it cites; a feed shows some of them in    *)
(* the window of a pass, and more when it is read whole.  A memory bank is *)
(* wired; the extraction is not modelled here.                             *)
(***************************************************************************)
EXTENDS GraphDriver, Sequences

CONSTANTS Feeds,
          Filings,       \* filing numbers, published somewhere or not
          Number,        \* their order
          Cites,         \* what each one cites in its columns
          Tails,         \* the numbers that end a number after a "/", itself included
          Archives,      \* what the feeds may hold, in the window and whole
          MaxReferences  \* MAX_REFERENCES

WellFormed ==
  /\ Number \in [Filings -> Nat] /\ \A f, g \in Filings : Number[f] = Number[g] => f = g
  /\ Cites \in [Filings -> SUBSET Filings]
  /\ Tails \in [Filings -> SUBSET Filings] /\ \A f \in Filings : f \in Tails[f]
  /\ None \notin Feeds \cup Filings /\ MaxReferences \in Nat \ {0}
  /\ IsFiniteSet(Feeds) /\ IsFiniteSet(Filings)
  /\ Archives \subseteq [Feeds -> [window : SUBSET Filings, whole : SUBSET Filings]]

VARIABLES wired,     \* the feeds this pass was given
          archive,   \* what each of them holds
          queried, unavailable,
          snapshots, \* the pulls that are kept: a feed, and how much of it
          outstanding, \* cited and not yet found
          followedThrough,
          chosen

graphVars == <<queried, unavailable, snapshots, outstanding, followedThrough, chosen>>
recordsVars == <<wired, archive, graphVars>>

Untried == wired \ (queried \cup unavailable)

Blank ==
  /\ queried = {} /\ unavailable = {} /\ snapshots = <<>>
  /\ outstanding = {} /\ followedThrough = 0 /\ chosen = None

Init == Begins("plan") /\ Blank /\ wired \in SUBSET Feeds /\ archive \in Archives

-----------------------------------------------------------------------------
Held(snapshot) == archive[snapshot.feed][snapshot.extent]
Published == UNION {Held(snapshots[i]) : i \in DOMAIN snapshots}
Cited == UNION {Cites[f] : f \in Published}

Lowest(S, n) == {f \in S : Cardinality({g \in S : Number[g] < Number[f]}) < n}

\* Mutant: what was asked for tonight is asked for again.
NeverTried(f) == FALSE

\* A token ends with the reference it is about.
Tried(f) == \E token \in ruledOut : f \in Tails[token[2]]

Chaseable == {f \in outstanding : ~ Tried(f)}

\* Mutant: nothing is gone after.
ParksUnchased ==
  IF chosen # None THEN "fetch" ELSE IF followedThrough # Len(snapshots) THEN "follow"
  ELSE IF Untried # {} THEN "plan" ELSE IF outstanding # {} THEN "park" ELSE "close"

NextNode ==
  IF chosen # None THEN "fetch"
  ELSE IF followedThrough # Len(snapshots) THEN "follow"
  ELSE IF Untried # {} THEN "plan"
  ELSE IF Chaseable # {} THEN "chase"
  ELSE IF outstanding # {} THEN "park" ELSE "close"

Router == Routed(NextNode)

Goes == UNCHANGED <<wired, archive>> /\ at' = Router'

\* The planner may take any feed that was not tried.  Without one the node
\* decides nothing: a pass that was given no feed goes through it once.
Plan ==
  /\ Charge("plan")
  /\ IF Untried = {} THEN UNCHANGED chosen ELSE \E f \in Untried : chosen' = f
  /\ UNCHANGED <<stop, ruledOut, queried, unavailable, snapshots, outstanding, followedThrough>>
  /\ Goes

Fetch ==
  /\ Charge("fetch")
  /\ \/ /\ queried' = queried \cup {chosen}
        /\ snapshots' = Append(snapshots, [feed |-> chosen, extent |-> "window"])
        /\ UNCHANGED unavailable
     \/ unavailable' = unavailable \cup {chosen} /\ UNCHANGED <<queried, snapshots>>
  /\ chosen' = None
  /\ UNCHANGED <<stop, ruledOut, outstanding, followedThrough>>
  /\ Goes

\* Cited by anything read, and published by nothing read.
Follow ==
  /\ Charge("follow")
  /\ outstanding' = Lowest(Cited \ Published, MaxReferences) /\ followedThrough' = Len(snapshots)
  /\ UNCHANGED <<stop, ruledOut, queried, unavailable, snapshots, chosen>>
  /\ Goes

\* _citing_source(): the feed of the first pull that cites it.
CitingFeed(f) ==
  LET citing == {i \in DOMAIN snapshots : \E g \in Held(snapshots[i]) : f \in Cites[g]}
  IN snapshots[CHOOSE i \in citing : \A j \in citing : i <= j].feed

\* The first reference not tried yet is looked for in the whole of the feed
\* that cites it.  A feed that refuses and a feed that does not have it are
\* one to the token.
Chase ==
  /\ Charge("chase")
  /\ \E f \in Lowest(Chaseable, 1) :
       LET feed == CitingFeed(f) IN
       \/ /\ f \in archive[feed].whole
          /\ snapshots' = Append(snapshots, [feed |-> feed, extent |-> "whole"])
          /\ outstanding' = outstanding \ {f} /\ UNCHANGED ruledOut
       \/ ruledOut' = ruledOut \cup {<<feed, f>>} /\ UNCHANGED <<snapshots, outstanding>>
  /\ UNCHANGED <<stop, queried, unavailable, followedThrough, chosen>>
  /\ Goes

Park == Charge("park") /\ Parks /\ UNCHANGED <<ruledOut, graphVars>> /\ Goes

Close == Charge("close") /\ stop' = "CLOSED" /\ UNCHANGED <<ruledOut, graphVars>> /\ Goes

-----------------------------------------------------------------------------
\* _open_reference_questions().
Questions ==
  {<<"missing", f>> : f \in outstanding}
    \cup (IF outstanding = {} /\ Outcome # "CLOSED" THEN {<<"unread">>} ELSE {})

AskPeople ==
  /\ at = STOP /\ threads' = Questions
  /\ at' = "over"
  /\ UNCHANGED <<stop, budgetVars, ruledOut, recordsVars>>

\* The bank refuses one of them, and the poll raises.
BankRefuses == Questions # {} /\ PollRaises /\ UNCHANGED recordsVars

NextPass ==
  /\ BeginsAgain("plan")
  /\ queried' = {} /\ unavailable' = {} /\ snapshots' = <<>>
  /\ outstanding' = {} /\ followedThrough' = 0 /\ chosen' = None
  /\ UNCHANGED <<wired, archive>>

Next == Plan \/ Fetch \/ Follow \/ Chase \/ Park \/ Close \/ AskPeople \/ BankRefuses \/ NextPass
=============================================================================
