--------------------------- MODULE MCReservation ---------------------------
(* Instances of Reservation for TLC.  A request with three parent rows, one    *)
(* vehicle, one port and one partner has every kind of step and of undo.     *)
EXTENDS Reservation

CONSTANTS h1, h2, p1, p2, p3, v1, d1, e1

OneHandler  == {h1}
TwoHandlers == {h1, h2}
ThreeParents == {p1, p2, p3}
OneParent   == {p1}
OneVehicle  == {v1}
OnePort     == {d1}
OnePartner  == {e1}

Uses(x, at, use, tag) == [on |-> x, at |-> at, use |-> use, tag |-> tag]
\* The route starts with a partner, whose tag the hold gives the vehicle; the port is used
\* to land and to take off in one stay.
FromPartner == {Uses(v1, 1, "fly", "theirs"), Uses(d1, 1, "land", "ours"), Uses(d1, 1, "start", "ours")}
AllOurs == {Uses(v1, 1, "fly", "ours")}
=============================================================================
