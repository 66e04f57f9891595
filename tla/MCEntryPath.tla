---------------------------- MODULE MCEntryPath ----------------------------
(***************************************************************************)
(* A small building for TLC, in decimetres: twelve metres square, two      *)
(* storeys of three and a half metres, walls approached from six metres.   *)
(***************************************************************************)
EXTENDS EntryPath

MCPlaces ==
  {Staging} \cup {Approach(f) : f \in Faces} \cup {Door(f) : f \in Faces}
    \cup {Interior(f) : f \in Faces} \cup {Core(0), Core(1), Stair(0)}

Unscanned == [scanned |-> FALSE, peak |-> 0, coverage |-> 0, voids |-> 0, obstructions |-> 0]
Cool == [scanned |-> TRUE, peak |-> 30, coverage |-> 100, voids |-> 0, obstructions |-> 0]
Warm == [scanned |-> TRUE, peak |-> 105, coverage |-> 80, voids |-> 1, obstructions |-> 3]
Hot == [scanned |-> TRUE, peak |-> 300, coverage |-> 100, voids |-> 0, obstructions |-> 0]
MCWalls == {Unscanned, Cool, Warm, Hot}

MCStructures ==
  {[truss |-> FALSE, disputed |-> {}, conflicts |-> 0], [truss |-> TRUE, disputed |-> {1}, conflicts |-> 1]}

\* The order of the ids: approach, core, door, interior, stair, staging.
Index(x) == CHOOSE i \in DOMAIN GroundFaces : GroundFaces[i] = x
MCId ==
  [p \in MCPlaces |->
     CASE p[1] = "approach" -> Index(p[2])
       [] p[1] = "core" -> 5 + p[2]
       [] p[1] = "door" -> 7 + Index(p[2])
       [] p[1] = "interior" -> 11 + Index(p[2])
       [] p[1] = "stair" -> 17
       [] p[1] = "staging" -> 16]

\* Where the places are: east, north, up.
Along(f, d) ==
  CASE f = "ALPHA" -> <<0, -d, 0>> [] f = "BRAVO" -> <<-d, 0, 0>>
    [] f = "CHARLIE" -> <<0, d, 0>> [] f = "DELTA" -> <<d, 0, 0>>
Spot(p) ==
  CASE p[1] = "staging" -> Along("ALPHA", 200)
    [] p[1] = "approach" -> Along(p[2], 120)
    [] p[1] = "door" -> Along(p[2], 60)
    [] p[1] = "interior" -> Along(p[2], 40)
    [] p[1] = "core" -> <<0, 0, 35 * p[2]>>
    [] p[1] = "stair" -> <<33, 0, 17>>

Square(a, b) ==
  LET s == Spot(a) t == Spot(b) d(i) == (s[i] - t[i]) * (s[i] - t[i]) IN d(1) + d(2) + d(3)
Root(n) == CHOOSE r \in 0..500 : r * r <= n /\ n < (r + 1) * (r + 1)

\* Rounded down, and lengths up, so that rounding breaks no triangle.
MCStraight == [p \in MCPlaces \X MCPlaces |-> 100 * Root(Square(p[1], p[2]))]
MCLength ==
  [p \in MCPlaces \X MCPlaces |-> LET n == Square(p[1], p[2]) IN IF n = 0 THEN 0 ELSE Root(n - 1) + 1]
=============================================================================
