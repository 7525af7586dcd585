----------------------------- MODULE MCBooking -----------------------------
(* Instances of Booking for TLC: every route of up to four sections over four  *)
(* sections, two of our own and two air ways of one partner, with the windows    *)
(* one after the other, all alike or in the wrong order, and the sequence as the *)
(* client counts it.                                                            *)
EXTENDS Booking, Quote, TLC

CONSTANTS o1, o2, p1, p2, O, P, Q, home, e1, away, i1, i2, MaxRoute

FourSections == {o1, o2, p1, p2}
Ways == (o1 :> O) @@ (o2 :> O) @@ (p1 :> P) @@ (p2 :> Q)
Administrators == (O :> home) @@ (P :> e1) @@ (Q :> e1)
HomeOnly == {home}
Clock == 0..MaxRoute
TwoIds == (home :> {}) @@ (e1 :> {i1, i2})

Routes == UNION {[1..n -> FourSections] : n \in 1..MaxRoute}
Windows(n) ==
    {[i \in 1..n |-> <<i - 1, i>>], [i \in 1..n |-> <<0, MaxRoute>>],
     [i \in 1..n |-> <<n - i, n - i + 1>>]}
\* From 1 on, in the middle of somebody else's route, with a section left out, and with
\* the first two in the wrong order.
Numbers(n) ==
    {[i \in 1..n |-> i], [i \in 1..n |-> i + 1], [i \in 1..n |-> IF i = n THEN n + 1 ELSE i],
     [i \in 1..n |-> IF i <= 2 /\ n >= 2 THEN 3 - i ELSE i]}
Bookings ==
    UNION {{[i \in DOMAIN r |-> [section |-> r[i], seq |-> q[i], from |-> w[i][1], to |-> w[i][2],
                                 admin |-> NoAdmin, price |-> 0]] :
              q \in Numbers(Len(r)), w \in Windows(Len(r))} : r \in Routes}

-----------------------------------------------------------------------------
(* The price of a request has nothing to do with how its rows come about: one    *)
(* checker run explores each while the other rests.                             *)

CONSTANTS v, theirs, d, flat, night, old

Craft == {v, theirs}
Owned == {v, d}
Pads == {d}
InMinutes(x) == [what |-> x[1], from |-> x[2], to |-> x[3]]
Hop(x) == [section |-> x[1], from |-> x[2], to |-> x[3]]
Rate(f, t, p, u, y) == [from |-> f, to |-> t, price |-> p, unit |-> u, priority |-> y]
\* By the minute with an offer in between; by the piece and by two minutes, with a gap.
Rates == (v :> <<Rate(Ever, Ever, 3, 1, 2), Rate(2, 5, 1, 1, 1), Rate(4, Ever, 2, 1, 1)>>) @@
         (theirs :> <<>>) @@ (d :> <<Rate(1, 4, 5, 0, 1), Rate(3, 6, 2, 2, 2)>>)
Tier(f, l, a, b, p, u, t) ==
    [first |-> f, last |-> l, start |-> a, end |-> b, price |-> p, unit |-> u, timed |-> t]
Tiers ==
    (flat :> <<Tier(1, 1, 1, 3, 2, 1, TRUE), Tier(Ever, Ever, 0, 4, 1, 1, TRUE)>>) @@
    (night :> <<Tier(Ever, Ever, 3, 1, 4, 2, TRUE), Tier(Ever, Ever, 1, 2, 9, 1, FALSE),
                Tier(1, Ever, 0, 4, 3, 3, TRUE)>>) @@
    (old :> <<Tier(Ever, 0, 0, 4, 7, 1, TRUE), Tier(Ever, Ever, 2, 4, 1, 0, TRUE)>>) @@
    (o1 :> <<>>)

Span == {p \in (0..8) \X (0..8) : p[1] < p[2]}
Order(us, fs) == [uses |-> us, flown |-> fs]
Orders1 == {Order(<<InMinutes(<<x, p[1], p[2]>>)>>, <<>>) : x \in {v, d}, p \in Span}
Orders2 == {Order(<<>>, <<Hop(<<s, p[1], p[2]>>), Hop(<<t, q[1], q[2]>>)>>) :
              s, t \in {flat, night}, p, q \in Span}
Orders3 == {Order(<<>>, <<Hop(<<flat, 1, 3>>), Hop(<<s, p[1], p[2]>>), Hop(<<flat, 2, 6>>)>>) :
              s \in {old, o1, o2, flat}, p \in Span}
Crowds == {Order([i \in DOMAIN c |-> InMinutes(c[i])], <<Hop(<<flat, 1, 3>>)>>) :
             c \in {<<<<v, 0, 4>>, <<d, 1, 3>>, <<d, 1, 3>>>>, <<<<v, 0, 4>>, <<v, 3, 6>>, <<d, 2, 5>>>>,
                    <<<<d, 0, 2>>, <<d, 2, 6>>, <<v, 1, 2>>>>}}
\* Aircraft theirs is somebody else's; times are missing, or the wrong way round.
Careless == {Order([i \in DOMAIN c |-> InMinutes(c[i])], f) :
               c \in {<<<<v, 0, 4>>, <<v, 2, Ever>>>>, <<<<v, 0, 4>>, <<theirs, 1, 3>>, <<d, Ever, Ever>>>>,
                      <<<<v, 5, 2>>, <<d, 1, 3>>>>, <<<<theirs, 0, 2>>>>},
               f \in {<<Hop(<<flat, 1, 3>>)>>, <<Hop(<<p1, 1, 3>>)>>}}
NoOrder == Order(<<>>, <<>>)
AllOrders == Orders1 \cup Orders2 \cup Orders3 \cup Crowds \cup Careless \cup {NoOrder}

Plain == <<[section |-> o1, seq |-> 1, from |-> 0, to |-> 1, admin |-> NoAdmin, price |-> 0]>>
BothInit ==
    \/ order = NoOrder /\ QuoteInit /\ Init
    \/ trip = Plain /\ inter = FALSE /\ Init /\ QuoteInit
BothNext ==
    \/ order = NoOrder /\ Next /\ UNCHANGED quoteVars
    \/ trip = Plain /\ pc = "resolve" /\ QuoteNext /\ UNCHANGED vars
BothSpec == BothInit /\ [][BothNext]_<<vars, quoteVars>>
=============================================================================
