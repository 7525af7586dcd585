------------------------------- MODULE MCHold -------------------------------
(* Instances of Hold for TLC.  Two attempts carry the request r1, as when an  *)
(* administrator retries; r2 is in a section that shares a point with r1's;   *)
(* r3 follows r1 in the same section without a break.                         *)
EXTENDS Hold, TLC

CONSTANTS a1, a2, a3, r1, r2, r3, e1, e2, s1, s2, x, y, z

Three       == {a1, a2, a3}
TwoAttempts == {a1, a2}
TwoRequests == {r1, r2}
ThreeRequests == {r1, r2, r3}
ThreeOf     == (a1 :> r1) @@ (a2 :> r2) @@ (a3 :> r3)
RetryOf     == (a1 :> r1) @@ (a2 :> r1)
TwoOf       == (a1 :> r1) @@ (a2 :> r2)

W(section, from, to) == [section |-> section, from |-> from, to |-> to]
AllWants == (r1 :> {W(s1, 0, 2)}) @@ (r2 :> {W(s2, 1, 3)}) @@ (r3 :> {W(s1, 2, 3)})
TwoWants == [r \in TwoRequests |-> AllWants[r]]
AllNeeds == (r1 :> {e1}) @@ (r2 :> {}) @@ (r3 :> {})
BothNeeds == (r1 :> {e1, e2}) @@ (r2 :> {})
NoNeeds  == [r \in TwoRequests |-> {}]
TwoPartners == {e1, e2}
OnePartner  == {e1}
TwoSections == {s1, s2}
ThreePoints == {x, y, z}
SharedPoint == (s1 :> {x, y}) @@ (s2 :> {y, z})
Clock       == 0..3
=============================================================================
