---------------------------- MODULE MCDirectory ----------------------------
(* Instances of Directory for TLC: two air ways of our own and two of another *)
(* administrator, an aircraft and a port.                                      *)
EXTENDS Directory, TLC

CONSTANTS p1, p2, home, peer, o1, o2, x, y, v, d

TwoProcs == {p1, p2}
TwoAdmins == {home, peer}
HomeOnly == {home}
Ways == {o1, o2, x, y}
Who == (o1 :> home) @@ (o2 :> home) @@ (x :> peer) @@ (y :> peer)
Aircraft == {v}
Docks == {d}
Ask(us, is) == [uasls |-> us, items |-> is]
Some == {Ask({o1}, {v}), Ask({o1, o2, x}, {d})}
=============================================================================
