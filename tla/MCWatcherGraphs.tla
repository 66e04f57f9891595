-------------------------- MODULE MCWatcherGraphs --------------------------
(***************************************************************************)
(* Small districts and archives for TLC, one behaviour per choice: four    *)
(* registries over two buildings and one elsewhere, three feeds over five  *)
(* filings, four attributes of a building and two questions about it.      *)
(***************************************************************************)
EXTENDS WatcherGraphs, TLC

CONSTANTS r1, r2, r3, r4, a1, a2, b1, s1, s2, n1, n2, nn, f1, f2, f3, p1, p2, p3, p4, p5,
          k1, k2, k3, k4, x1, x2, x3, x4, q1, q2, d1, d2, w1, bldg, i1, notifier, recorder, liaison

MCOrder == (r1 :> 1) @@ (r2 :> 2) @@ (r3 :> 3) @@ (r4 :> 4)
MCNormalForm == (n1 :> nn) @@ (n2 :> nn)

Row(s, b, n) == [street |-> s, building |-> b, name |-> n]

MCDistricts == {
  \* a street three registries file, and one of them places
  (r1 :> {Row(s1, None, n1)}) @@ (r2 :> {Row(s1, None, None)})
    @@ (r3 :> {Row(s1, a2, None), Row(s1, None, n2)}) @@ (r4 :> {Row(s2, None, n1)}),
  \* two names at one building, and a street on the side
  (r1 :> {Row(None, a1, n1)}) @@ (r2 :> {Row(s1, None, n2), Row(None, a1, n2)})
    @@ (r3 :> {Row(None, a1, n1), Row(None, b1, n1)}) @@ (r4 :> {}),
  \* two streets, and a building of another district
  (r1 :> {Row(s1, None, n1), Row(s2, None, n2)}) @@ (r2 :> {Row(s1, b1, None)})
    @@ (r3 :> {Row(s2, a1, n1), Row(s1, a1, None)}) @@ (r4 :> {Row(s1, a2, n2)})}

MCNumber == (p1 :> 1) @@ (p2 :> 2) @@ (p3 :> 3) @@ (p4 :> 4) @@ (p5 :> 5)

\* The number of p3 is how the number of p2 ends.
MCCites == [f \in Filings |-> CASE f = p1 -> {p2, p3, p4} [] f = p4 -> {p5} [] OTHER -> {}]
MCTails == [f \in Filings |-> IF f = p2 THEN {p2, p3} ELSE {f}]

Feed(window, whole) == [window |-> window, whole |-> whole]

MCArchives == {
  (f1 :> Feed({p1}, {p1, p2, p3})) @@ (f2 :> Feed({p4}, {p4, p5})) @@ (f3 :> Feed({}, {})),
  (f1 :> Feed({p1}, {p1, p3, p4})) @@ (f2 :> Feed({}, {p5})) @@ (f3 :> Feed({p5}, {p5})),
  (f1 :> Feed({p1}, {p1, p2, p3, p4})) @@ (f2 :> Feed({p3}, {p3, p5})) @@ (f3 :> Feed({}, {p4})),
  (f1 :> Feed({}, {p1, p4})) @@ (f2 :> Feed({p4}, {p4, p5})) @@ (f3 :> Feed({p1}, {p1}))}

\* The order of keys and ids.
MCIdOrder ==
  (k1 :> 1) @@ (k2 :> 2) @@ (k3 :> 3) @@ (k4 :> 4) @@ (q1 :> 5) @@ (q2 :> 6) @@ (x1 :> 7) @@ (x2 :> 8)
    @@ (x3 :> 9) @@ (x4 :> 10) @@ (d1 :> 11) @@ (d2 :> 12) @@ (w1 :> 13) @@ (bldg :> 14)

\* The second question was asked about a fact that is gone.
MCEvidence == (q1 :> {x1}) @@ (q2 :> {x4})
MCBearsOn == i1 :> {k2, k3}

Conflict(id, key, facts, severity) == [id |-> id, key |-> key, facts |-> facts, severity |-> severity]

MCPictures == {
  \* two conflicts, the worse one on what an intake reports
  [facts |-> (k1 :> x1) @@ (k2 :> x2) @@ (k3 :> None) @@ (k4 :> None),
   conflicts |-> {Conflict(d1, k1, {x1, x3}, 2), Conflict(d2, k2, {x2}, 4)},
   geometry |-> TRUE, survey |-> TRUE, referrals |-> {w1}],
  \* a conflict on an attribute with nothing filed, two on one attribute
  [facts |-> (k1 :> x1) @@ (k2 :> None) @@ (k3 :> x3) @@ (k4 :> None),
   conflicts |-> {Conflict(d1, k3, {x3, x4}, 3), Conflict(d2, k2, {x2, x4}, 3)},
   geometry |-> FALSE, survey |-> FALSE, referrals |-> {}],
  \* nothing in dispute
  [facts |-> (k1 :> None) @@ (k2 :> x2) @@ (k3 :> x3) @@ (k4 :> x4), conflicts |-> {},
   geometry |-> TRUE, survey |-> FALSE, referrals |-> {}]}

Agent(id, capabilities, scopes) == [id |-> id, capabilities |-> capabilities, scopes |-> scopes]

MCCatalog == {
  Agent(notifier, {"READ", "NOTIFY"}, {"READ_PROFILE", "NOTIFY_AGENCY"}),
  Agent(recorder, {"READ", "WRITE"}, {"READ_PROFILE", "WRITE_RMS"}),
  Agent(liaison, {"READ"}, {"READ_GEOMETRY"})}

MCNames == (q1 :> {x1, d1}) @@ (q2 :> {x2})
=============================================================================
