---------------------------- MODULE BookingProofs -----------------------------
(* Proofs about Booking, for every route, air way and administrator: what a     *)
(* hold writes is the whole route, checked and priced as it is written, and the   *)
(* readers find the same parent again.                                            *)
EXTENDS Booking, SetLemmas

-----------------------------------------------------------------------------
(* Routes: sorted by their sequence, and with the windows of a section shared. *)

IsRoute(t) ==
    /\ \E n \in Nat \ {0} : DOMAIN t = 1..n
    /\ \A i \in DOMAIN t : t[i] \in Stops /\ t[i].seq > 0
    /\ \A i, j \in DOMAIN t : t[i].seq = t[j].seq => i = j

Ascending(t) == \A i, j \in DOMAIN t : i < j => t[i].seq < t[j].seq

\* The rank of a section counts those up to it, so later sections rank higher.
LEMMA RankIs ==
    ASSUME NEW t, IsRoute(t)
    PROVE  /\ IsFiniteSet(DOMAIN t)
           /\ \A i \in DOMAIN t : Rank(t, i) \in 1..Cardinality(DOMAIN t)
           /\ \A i, j \in DOMAIN t : t[i].seq < t[j].seq => Rank(t, i) < Rank(t, j)
  <1> DEFINE upTo(i) == {j \in DOMAIN t : t[j].seq <= t[i].seq}
  <1>1. IsFiniteSet(DOMAIN t) /\ \A i \in DOMAIN t : t[i].seq \in Nat
    BY FS_Interval DEF IsRoute, Stops
  <1>2. ASSUME NEW i \in DOMAIN t
        PROVE  /\ IsFiniteSet(upTo(i)) /\ i \in upTo(i) /\ upTo(i) \subseteq DOMAIN t
               /\ Cardinality(upTo(i)) \in 1..Cardinality(DOMAIN t)
    <2>1. i \in upTo(i) /\ upTo(i) \subseteq DOMAIN t
      BY <1>1
    <2>2. IsFiniteSet(upTo(i)) /\ Cardinality(upTo(i)) <= Cardinality(DOMAIN t)
      BY <1>1, <2>1, FS_Subset
    <2>3. Cardinality(upTo(i)) \in Nat /\ Cardinality(upTo(i)) # 0 /\ Cardinality(DOMAIN t) \in Nat
      <3> HIDE DEF upTo
      <3> QED
        BY <1>1, <2>1, <2>2, FS_CardinalityType, FS_EmptySet
    <2> HIDE DEF upTo
    <2> QED
      BY <2>1, <2>2, <2>3
  <1>3. ASSUME NEW i \in DOMAIN t, NEW j \in DOMAIN t, t[i].seq < t[j].seq
        PROVE  Cardinality(upTo(i)) < Cardinality(upTo(j))
    <2>1. upTo(i) \subseteq upTo(j) /\ j \notin upTo(i) /\ j \in upTo(j)
      BY <1>1, <1>3
    <2> HIDE DEF upTo
    <2>2. upTo(i) # upTo(j)
      BY <2>1
    <2> QED
      BY <1>2, <2>1, <2>2, FS_Subset, FS_CardinalityType
  <1> QED
    BY <1>1, <1>2, <1>3 DEF Rank

\* There is one section of every rank.
LEMMA RankOnto ==
    ASSUME NEW t, IsRoute(t), NEW n \in DOMAIN t
    PROVE  \E i \in DOMAIN t : Rank(t, i) = n
  <1> DEFINE g == [i \in DOMAIN t |-> Rank(t, i)]
  <1>1. PICK m \in Nat \ {0} : DOMAIN t = 1..m
    BY DEF IsRoute
  <1>2. Cardinality(1..m) = m /\ IsFiniteSet(1..m)
    BY FS_Interval
  <1>3. \A i \in DOMAIN t : g[i] \in DOMAIN t
    BY <1>1, <1>2, RankIs
  <1>4. ASSUME NEW i \in DOMAIN t, NEW j \in DOMAIN t, g[i] = g[j]
        PROVE  i = j
    <2>1. t[i].seq \in Nat /\ t[j].seq \in Nat
      BY DEF IsRoute, Stops
    <2>2. Rank(t, i) \in Nat /\ Rank(t, j) \in Nat /\ Rank(t, i) = Rank(t, j)
      <3>1. Rank(t, i) \in 1..m /\ Rank(t, j) \in 1..m
        BY <1>1, <1>2, RankIs
      <3> QED
        BY <1>4, <3>1
    <2>3. ~(t[i].seq < t[j].seq) /\ ~(t[j].seq < t[i].seq)
      BY <2>2, RankIs
    <2>4. t[i].seq = t[j].seq
      BY <2>1, <2>3
    <2> QED
      BY <2>4 DEF IsRoute
  <1>5. g \in Injection(DOMAIN t, DOMAIN t)
    BY <1>3, <1>4 DEF Injection, IsInjective
  <1>6. g \in Surjection(DOMAIN t, DOMAIN t)
    <2> HIDE DEF g
    <2> QED
      BY <1>1, <1>2, <1>5, FS_Injection
  <1>7. \E i \in DOMAIN t : g[i] = n
    <2> HIDE DEF g
    <2> QED
      BY <1>6 DEF Surjection
  <1> QED
    BY <1>7

\* Sorting loses no section and adds none.
LEMMA SortedOK ==
    ASSUME NEW t, IsRoute(t)
    PROVE  /\ DOMAIN Sorted(t) = DOMAIN t /\ IsRoute(Sorted(t)) /\ Ascending(Sorted(t))
           /\ \A n \in DOMAIN t : \E i \in DOMAIN t : Sorted(t)[n] = t[i]
           /\ \A i \in DOMAIN t : \E n \in DOMAIN t : Sorted(t)[n] = t[i]
  <1> DEFINE at(n) == CHOOSE i \in DOMAIN t : Rank(t, i) = n
             s == Sorted(t)
  <1>1. DOMAIN s = DOMAIN t /\ \A n \in DOMAIN t : s[n] = t[at(n)]
    BY DEF Sorted
  <1>2. \A n \in DOMAIN t : at(n) \in DOMAIN t /\ Rank(t, at(n)) = n
    <2> SUFFICES ASSUME NEW n \in DOMAIN t PROVE at(n) \in DOMAIN t /\ Rank(t, at(n)) = n
      OBVIOUS
    <2>1. \E i \in DOMAIN t : Rank(t, i) = n
      BY RankOnto
    <2> QED
      BY <2>1
  <1> HIDE DEF at, s
  <1>3. DOMAIN t \subseteq Nat /\ \A i \in DOMAIN t : t[i].seq \in Nat
    BY DEF IsRoute, Stops
  <1>4. Ascending(s)
    <2> SUFFICES ASSUME NEW n \in DOMAIN t, NEW m \in DOMAIN t, n < m
                 PROVE  s[n].seq < s[m].seq
      BY <1>1 DEF Ascending
    <2>1. t[at(n)].seq \in Nat /\ t[at(m)].seq \in Nat
      BY <1>2, <1>3
    <2>2. CASE t[at(n)].seq = t[at(m)].seq
      <3>1. at(n) = at(m)
        BY <1>2, <2>2 DEF IsRoute
      <3> QED
        BY <1>2, <1>3, <3>1
    <2>3. CASE t[at(m)].seq < t[at(n)].seq
      <3>1. Rank(t, at(m)) < Rank(t, at(n))
        BY <1>2, <2>3, RankIs
      <3>2. m < n
        BY <1>2, <3>1
      <3> QED
        BY <1>3, <3>2
    <2>4. CASE t[at(n)].seq < t[at(m)].seq
      BY <1>1, <2>4
    <2> QED
      BY <2>1, <2>2, <2>3, <2>4
  <1>5. IsRoute(s)
    <2>1. \A i \in DOMAIN s : s[i] \in Stops /\ s[i].seq > 0
      BY <1>1, <1>2 DEF IsRoute
    <2>2. ASSUME NEW i \in DOMAIN s, NEW j \in DOMAIN s, s[i].seq = s[j].seq
          PROVE  i = j
      <3>1. s[i].seq \in Nat
        BY <1>1, <1>2, <1>3
      <3>2. ~(i < j) /\ ~(j < i)
        BY <1>4, <2>2, <3>1 DEF Ascending
      <3> QED
        BY <1>1, <1>3, <3>2
    <2>3. \E n \in Nat \ {0} : DOMAIN s = 1..n
      BY <1>1 DEF IsRoute
    <2> QED
      BY <2>1, <2>2, <2>3 DEF IsRoute
  <1>6. ASSUME NEW i \in DOMAIN t
        PROVE  \E n \in DOMAIN t : s[n] = t[i]
    <2>1. PICK m \in Nat \ {0} : DOMAIN t = 1..m
      BY DEF IsRoute
    <2>2. Rank(t, i) \in DOMAIN t
      BY <2>1, RankIs, FS_Interval
    <2>3. Rank(t, at(Rank(t, i))) = Rank(t, i) /\ at(Rank(t, i)) \in DOMAIN t
      BY <1>2, <2>2
    <2>4. ~(t[i].seq < t[at(Rank(t, i))].seq) /\ ~(t[at(Rank(t, i))].seq < t[i].seq)
      <3>1. Rank(t, i) \in Nat
        BY <1>3, <2>2
      <3> QED
        BY <2>3, <3>1, RankIs
    <2>5. at(Rank(t, i)) = i
      <3>1. t[i].seq = t[at(Rank(t, i))].seq
        BY <1>3, <2>3, <2>4
      <3> QED
        BY <2>3, <3>1 DEF IsRoute
    <2> QED
      BY <1>1, <2>2, <2>5
  <1> QED
    BY <1>1, <1>2, <1>4, <1>5, <1>6 DEF s

Shared(t, r) ==
    /\ DOMAIN r = DOMAIN t
    /\ \A i \in DOMAIN t : /\ r[i].section = t[i].section /\ r[i].seq = t[i].seq
                           /\ r[i].admin = t[i].admin /\ r[i].price = t[i].price
                           /\ r[i] \in Stops

\* Sharing the window of a section among its passes touches nothing else, and puts the
\* passes of one of our sections one after the other, from its first window's start on.
LEMMA SplitOK ==
    ASSUME NEW t, IsRoute(t), \A i \in DOMAIN t : t[i].from < t[i].to,
           NEW o
    PROVE  /\ Shared(t, SplitTimes(t, o))
           /\ \A i, j \in DOMAIN t :
                 i < j /\ t[i].section = t[j].section /\ t[i].admin \in o /\ t[j].admin \in o =>
                    /\ SplitTimes(t, o)[i].from <= SplitTimes(t, o)[i].to
                    /\ SplitTimes(t, o)[i].to <= SplitTimes(t, o)[j].from
  <1> DEFINE Passes(i) == {j \in DOMAIN t : t[j].section = t[i].section}
             Base(i)   == t[Min(Passes(i))]
             Slot(i)   == (Base(i).to - Base(i).from) \div Cardinality(Passes(i))
             Turn(i)   == Cardinality({j \in Passes(i) : j < i})
             begin(i)  == Base(i).from + Slot(i) * Turn(i)
             end(i)    == IF i = Max(Passes(i)) THEN Base(i).to
                          ELSE Base(i).from + Slot(i) * (Turn(i) + 1)
             r         == SplitTimes(t, o)
  <1>1. r = [i \in DOMAIN t |->
               IF t[i].admin \notin o \/ Passes(i) = {i} THEN t[i]
               ELSE [t[i] EXCEPT !.from = begin(i), !.to = end(i)]]
    BY DEF SplitTimes
  <1>2. IsFiniteSet(DOMAIN t) /\ DOMAIN t \subseteq Nat
    BY FS_Interval DEF IsRoute
  <1>3. ASSUME NEW i \in DOMAIN t
        PROVE  /\ i \in Passes(i) /\ IsFiniteSet(Passes(i)) /\ Passes(i) \subseteq DOMAIN t
               /\ Min(Passes(i)) \in Passes(i) /\ Max(Passes(i)) \in Passes(i)
               /\ \A j \in Passes(i) : j <= Max(Passes(i))
    <2>1. i \in Passes(i) /\ IsFiniteSet(Passes(i)) /\ Passes(i) \subseteq DOMAIN t
      BY <1>2, FS_Subset
    <2>2. Passes(i) \subseteq Int /\ Passes(i) # {}
      BY <1>2, <2>1
    <2> HIDE DEF Passes
    <2> QED
      BY <2>1, <2>2, MinOfFinite, MaxOfFinite
  <1>4. ASSUME NEW i \in DOMAIN t
        PROVE  /\ Cardinality(Passes(i)) \in Nat \ {0} /\ Turn(i) \in Nat
               /\ Turn(i) + 1 <= Cardinality(Passes(i))
    <2> DEFINE before == {j \in Passes(i) : j < i}
    <2>1. before \subseteq Passes(i) /\ i \notin before /\ i \in Passes(i) /\ IsFiniteSet(Passes(i))
      BY <1>2, <1>3
    <2> HIDE DEF Passes, before
    <2>2. /\ Cardinality(before) \in Nat /\ Cardinality(Passes(i)) \in Nat
          /\ Cardinality(before) + 1 <= Cardinality(Passes(i))
      BY <2>1, SmallerSubset
    <2>3. Turn(i) = Cardinality(before)
      BY DEF before
    <2> HIDE DEF Turn
    <2> QED
      BY <2>2, <2>3
  <1>5. ASSUME NEW i \in DOMAIN t
        PROVE  /\ Base(i) \in Stops /\ Base(i).from \in Nat /\ Base(i).to \in Nat
               /\ Base(i).from < Base(i).to
               /\ Base(i).from \in Hours /\ Base(i).to \in Hours
    <2>1. Min(Passes(i)) \in DOMAIN t
      BY <1>3
    <2> QED
      BY <2>1, BookingAssumption DEF IsRoute, Stops
  <1>6. ASSUME NEW i \in DOMAIN t
        PROVE  /\ Slot(i) \in Nat
               /\ Slot(i) * Cardinality(Passes(i)) <= Base(i).to - Base(i).from
    <2> DEFINE c == Cardinality(Passes(i))
               b == Base(i).to - Base(i).from
    <2>1. c \in Nat \ {0}
      BY <1>4
    <2>2. b \in Nat
      BY <1>5
    <2> HIDE DEF c, b
    <2>3. b \div c \in Nat /\ (b \div c) * c <= b
      BY <2>1, <2>2
    <2> QED
      BY <2>3 DEF c, b
  <1> HIDE DEF Base, Slot
  <1>7. ASSUME NEW i \in DOMAIN t
        PROVE  /\ begin(i) \in Base(i).from..Base(i).to
               /\ end(i) \in begin(i)..Base(i).to
    <2>1. /\ Slot(i) * Turn(i) \in Nat /\ Slot(i) * (Turn(i) + 1) \in Nat
          /\ Slot(i) * Turn(i) <= Slot(i) * (Turn(i) + 1)
          /\ Slot(i) * (Turn(i) + 1) <= Slot(i) * Cardinality(Passes(i))
      <3> DEFINE a == Turn(i)
                 c == Cardinality(Passes(i))
                 b == Slot(i)
      <3>1. a \in Nat /\ c \in Nat /\ a + 1 <= c /\ b \in Nat
        BY <1>4, <1>6
      <3> HIDE DEF a, b, c
      <3>2. b * a \in Nat /\ b * (a + 1) \in Nat /\ b * a <= b * (a + 1) /\ b * (a + 1) <= b * c
        BY <3>1
      <3> QED
        BY <3>2 DEF a, b, c
    <2>2. Slot(i) * Cardinality(Passes(i)) <= Base(i).to - Base(i).from
      BY <1>6
    <2>3. Slot(i) * Cardinality(Passes(i)) \in Nat
      <3>1. Slot(i) \in Nat /\ Cardinality(Passes(i)) \in Nat
        BY <1>4, <1>6
      <3> QED
        BY <3>1
    <2> HIDE DEF Turn, Passes
    <2>4. Base(i).from \in Nat /\ Base(i).to \in Nat
      BY <1>5
    <2> QED
      BY <2>1, <2>2, <2>3, <2>4
  <1>8. ASSUME NEW i \in DOMAIN t
        PROVE  begin(i) \in Hours /\ end(i) \in Hours
    <2>1. Base(i).from..Base(i).to \subseteq Hours
      BY <1>5, BookingAssumption
    <2> HIDE DEF begin, end
    <2>2. begin(i) \in Nat /\ end(i) \in Base(i).from..Base(i).to
      BY <1>5, <1>7
    <2> QED
      BY <1>7, <2>1, <2>2
  <1>9. Shared(t, r)
    <2> HIDE DEF begin, end, Passes, r
    <2>1. DOMAIN r = DOMAIN t
      BY <1>1
    <2> SUFFICES ASSUME NEW i \in DOMAIN t
                 PROVE  /\ r[i].section = t[i].section /\ r[i].seq = t[i].seq
                        /\ r[i].admin = t[i].admin /\ r[i].price = t[i].price
                        /\ r[i] \in Stops
      BY <2>1 DEF Shared
    <2>2. t[i] \in Stops
      BY DEF IsRoute
    <2>3. CASE t[i].admin \notin o \/ Passes(i) = {i}
      BY <1>1, <2>2, <2>3
    <2>4. CASE ~(t[i].admin \notin o \/ Passes(i) = {i})
      <3>1. r[i] = [t[i] EXCEPT !.from = begin(i), !.to = end(i)]
        BY <1>1, <2>4
      <3> QED
        BY <1>8, <2>2, <3>1 DEF Stops
    <2> QED
      BY <2>3, <2>4
  <1>10. ASSUME NEW i \in DOMAIN t, NEW j \in DOMAIN t,
                i < j, t[i].section = t[j].section, t[i].admin \in o, t[j].admin \in o
         PROVE  r[i].from <= r[i].to /\ r[i].to <= r[j].from
    <2>1. Passes(i) = Passes(j) /\ Passes(i) # {i} /\ Passes(j) # {j}
      BY <1>2, <1>10
    <2>2. Base(i) = Base(j) /\ Slot(i) = Slot(j)
      BY <2>1 DEF Base, Slot
    <2>3. i # Max(Passes(i))
      <3>1. j \in Passes(i) /\ Max(Passes(i)) \in Passes(i) /\ \A k \in Passes(i) : k <= Max(Passes(i))
        BY <1>3, <1>10
      <3> HIDE DEF Passes
      <3> QED
        BY <1>2, <1>10, <3>1
    <2>4. Turn(i) + 1 <= Turn(j)
      <3> DEFINE p == {k \in Passes(i) : k < i}
                 q == {k \in Passes(j) : k < j}
      <3>1. p \subseteq q /\ i \in q /\ i \notin p /\ IsFiniteSet(q)
        <4>1. p \subseteq q /\ i \in q /\ i \notin p /\ q \subseteq Passes(j)
          BY <1>2, <1>10
        <4>2. IsFiniteSet(Passes(j))
          BY <1>3
        <4> QED
          BY <4>1, <4>2, FS_Subset
      <3> HIDE DEF p, q
      <3>2. Cardinality(p) + 1 <= Cardinality(q)
        BY <3>1, SmallerSubset
      <3> QED
        BY <3>2 DEF p, q
    <2>5. /\ r[i].from = begin(i) /\ r[i].to = Base(i).from + Slot(i) * (Turn(i) + 1)
          /\ r[j].from = Base(i).from + Slot(i) * Turn(j)
      <3>1. r[i] = [t[i] EXCEPT !.from = begin(i), !.to = end(i)]
        BY <1>1, <1>10, <2>1
      <3>2. r[j] = [t[j] EXCEPT !.from = begin(j), !.to = end(j)]
        BY <1>1, <1>10, <2>1
      <3>3. t[i] \in Stops /\ t[j] \in Stops
        BY DEF IsRoute
      <3>4. r[i].from = begin(i) /\ r[i].to = end(i) /\ r[j].from = begin(j)
        <4> HIDE DEF begin, end, r
        <4> QED
          BY <3>1, <3>2, <3>3 DEF Stops
      <3> HIDE DEF r
      <3> QED
        BY <2>2, <2>3, <3>4
    <2>6. Slot(i) * (Turn(i) + 1) <= Slot(i) * Turn(j)
          /\ Slot(i) * (Turn(i) + 1) \in Nat /\ Slot(i) * Turn(j) \in Nat
          /\ Slot(i) * Turn(i) <= Slot(i) * (Turn(i) + 1) /\ Slot(i) * Turn(i) \in Nat
      <3> DEFINE a == Turn(i)
                 c == Turn(j)
                 b == Slot(i)
      <3>1. a \in Nat /\ c \in Nat /\ a + 1 <= c /\ b \in Nat
        BY <1>4, <1>6, <2>4
      <3> HIDE DEF a, b, c
      <3>2. b * a \in Nat /\ b * (a + 1) \in Nat /\ b * a <= b * (a + 1) /\ b * (a + 1) <= b * c /\ b * c \in Nat
        BY <3>1
      <3> QED
        BY <3>2 DEF a, b, c
    <2>7. Base(i).from \in Nat
      BY <1>5
    <2> HIDE DEF r, Turn
    <2> QED
      BY <2>5, <2>6, <2>7
  <1> QED
    BY <1>9, <1>10
-----------------------------------------------------------------------------
(* The invariant: what is known of the route at each stage of a hold.            *)

Early == {"resolve", "classify"}

\* Passes of one of our sections follow each other.
Followed ==
    \A i, j \in Indices : i < j /\ trip[i].section = trip[j].section /\ Ours(i) =>
        trip[i].from <= trip[i].to /\ trip[i].to <= trip[j].from

Route ==
    /\ inter \in BOOLEAN /\ homeRead \in BOOLEAN /\ pc \in Stages /\ own \in {Internal, {}}
    /\ IsRoute(trip)
    /\ pc \in Early => own = {} /\ \A i \in Indices : trip[i].from < trip[i].to
    /\ pc \notin Early => Ascending(trip) /\ Followed

Whose ==
    /\ known \subseteq Uasls /\ \A u \in known : AdminOf[u] \notin Internal
    /\ pc = "resolve" => \A i \in Indices : trip[i].admin = NoAdmin /\ trip[i].price = 0
    /\ pc # "resolve" => \A i \in Indices : trip[i].admin = ResolvedAdmin(UaslAt(i), homeRead, known)

\* Who was asked has a part of the route and is nobody of ours, and goes by the answer.
AnswersFit ==
    /\ pc \in Early => Asked = {}
    /\ \A e \in Asked : /\ e \notin Internal /\ answers[e] \in AnswersOf(e)
                        /\ \E i \in Indices : Partner(i) /\ trip[i].admin = e
    /\ pc \in {"check", "price", "write", "held"} =>
          \A i \in Indices : Partner(i) => trip[i].admin \in Asked
    /\ extras \subseteq Asked

PricesFit ==
    /\ \A i \in Indices : Partner(i) /\ trip[i].admin \in Asked => trip[i].price = PartnerFee
    /\ pc \in {"write", "held"} => \A i \in Indices : Ours(i) => trip[i].price = OwnFee

Windows == {<<trip[i].section, trip[i].from, trip[i].to>> : i \in ToCheck}
ChecksFit ==
    /\ checked \subseteq Sections \X Hours \X Hours
    /\ pc \in {"price", "write", "held"} => checked = Windows

Written ==
    OwnParentRows \cup {PartnerRow(h) : h \in PartnerHeads}
        \cup {ChildRow(i) : i \in {i \in Indices : Known(i)}}
RowsFit ==
    /\ pc # "held" => rows = {}
    /\ pc = "held" => KeysDistinct /\ rows = Written

BookingInv == Route /\ Whose /\ AnswersFit /\ PricesFit /\ ChecksFit /\ RowsFit

\* What a request's route is: sections of our networks or of partners', one after another.
LEMMA RouteFacts ==
    ASSUME IsRoute(trip)
    PROVE  /\ IsFiniteSet(Indices) /\ Indices \subseteq Nat /\ 1 \in Indices
           /\ \A i \in Indices : i >= 1 /\ 1..i \subseteq Indices
           /\ \A i \in Indices :
                 /\ trip[i].section \in Sections /\ trip[i].seq \in Nat /\ trip[i].seq > 0
                 /\ trip[i].from \in Hours /\ trip[i].to \in Hours
                 /\ trip[i].from \in Nat /\ trip[i].to \in Nat
                 /\ trip[i].admin \in Admins \cup {NoAdmin} /\ trip[i].price \in Nat
                 /\ UaslAt(i) \in Uasls /\ AdminOf[UaslAt(i)] \in Admins
  <1>1. PICK n \in Nat \ {0} : Indices = 1..n
    BY DEF IsRoute, Indices
  <1>2. IsFiniteSet(Indices) /\ Indices \subseteq Nat /\ 1 \in Indices
        /\ \A i \in Indices : i >= 1 /\ 1..i \subseteq Indices
    BY <1>1, FS_Interval
  <1>3. ASSUME NEW i \in Indices
        PROVE  /\ trip[i].section \in Sections /\ trip[i].seq \in Nat /\ trip[i].seq > 0
               /\ trip[i].from \in Hours /\ trip[i].to \in Hours
               /\ trip[i].from \in Nat /\ trip[i].to \in Nat
               /\ trip[i].admin \in Admins \cup {NoAdmin} /\ trip[i].price \in Nat
    BY BookingAssumption DEF IsRoute, Stops, Indices
  <1>4. ASSUME NEW i \in Indices
        PROVE  UaslAt(i) \in Uasls /\ AdminOf[UaslAt(i)] \in Admins
    BY <1>3 DEF UaslAt, Uasls, Admins
  <1> QED
    BY <1>2, <1>3, <1>4

\* A step that changes nothing of the route but prices.
LEMMA SameWindows ==
    ASSUME IsRoute(trip), UNCHANGED own, DOMAIN trip' = Indices,
           \A i \in Indices : /\ trip'[i] \in Stops
                              /\ trip'[i].section = trip[i].section /\ trip'[i].seq = trip[i].seq
                              /\ trip'[i].admin = trip[i].admin
                              /\ trip'[i].from = trip[i].from /\ trip'[i].to = trip[i].to
    PROVE  /\ Indices' = Indices /\ IsRoute(trip)'
           /\ Ascending(trip) => Ascending(trip)'
           /\ Followed => Followed'
           /\ \A i \in Indices : /\ UaslAt(i)' = UaslAt(i) /\ Known(i)' = Known(i)
                                 /\ Ours(i)' = Ours(i) /\ Partner(i)' = Partner(i)
           /\ \A e \in Admins : AnswersOf(e)' = AnswersOf(e)
           /\ Windows' = Windows
  <1>1. Indices' = Indices
    BY DEF Indices
  <1>2. \A i \in Indices : /\ UaslAt(i)' = UaslAt(i) /\ Known(i)' = Known(i)
                           /\ Ours(i)' = Ours(i) /\ Partner(i)' = Partner(i)
    BY DEF UaslAt, Known, Ours, Partner
  <1>3. IsRoute(trip)' /\ (Ascending(trip) => Ascending(trip)')
    BY DEF IsRoute, Indices, Ascending
  <1>4. Followed => Followed'
    BY <1>1, <1>2 DEF Followed
  <1>5. \A e \in Admins : AnswersOf(e)' = AnswersOf(e)
    <2> SUFFICES ASSUME NEW e \in Admins PROVE AnswersOf(e)' = AnswersOf(e)
      OBVIOUS
    <2>1. {u \in Uasls : \E i \in Indices : UaslAt(i) = u /\ trip[i].admin = e}'
          = {u \in Uasls : \E i \in Indices : UaslAt(i) = u /\ trip[i].admin = e}
      BY <1>1, <1>2
    <2> QED
      BY <2>1 DEF AnswersOf
  <1>6. ToCheck' = ToCheck
    BY <1>1, <1>2 DEF ToCheck
  <1>7. ToCheck \subseteq Indices
    BY DEF ToCheck
  <1>8. Windows' = Windows
    BY <1>6, <1>7 DEF Windows
  <1> QED
    BY <1>1, <1>2, <1>3, <1>4, <1>5, <1>8

\* The invariant holds at first, and every action keeps it: one lemma for each.
LEMMA BookingInit == Init => BookingInv
  <1> SUFFICES ASSUME Init PROVE BookingInv
    OBVIOUS
  <1> USE DEF Init
  <1>1. /\ Len(trip) \in Nat \ {0} /\ DOMAIN trip = 1..Len(trip)
        /\ \A i \in DOMAIN trip :
              /\ trip[i] \in Stops /\ trip[i].from < trip[i].to /\ trip[i].seq > 0
              /\ trip[i].admin = NoAdmin /\ trip[i].price = 0
        /\ \A i, j \in DOMAIN trip : trip[i].seq = trip[j].seq => i = j
    BY BookingAssumption
  <1>2. IsRoute(trip)
    BY <1>1 DEF IsRoute
  <1>3. Route
    BY <1>1, <1>2 DEF Route, Early, Stages, Indices
  <1>4. Whose
    BY <1>1 DEF Whose, Indices
  <1>5. AnswersFit /\ PricesFit /\ ChecksFit /\ RowsFit
    BY DEF AnswersFit, PricesFit, ChecksFit, RowsFit, Asked, Early
  <1> QED
    BY <1>2, <1>3, <1>4, <1>5 DEF BookingInv

\* The sections are looked up.
LEMMA BookingResolve == BookingInv /\ Resolve => BookingInv'
  <1> SUFFICES ASSUME BookingInv, Resolve PROVE BookingInv'
    OBVIOUS
  <1> USE DEF BookingInv, Resolve
  <1>1. IsRoute(trip)
    BY DEF Route
  <1>2. Indices' = Indices /\ DOMAIN trip' = DOMAIN trip
    BY DEF Indices
  <1>3. \A i \in Indices : ResolvedAdmin(UaslAt(i), homeRead', known') \in Admins \cup {NoAdmin}
    BY <1>1, RouteFacts DEF ResolvedAdmin
  <1>4. ASSUME NEW i \in Indices
        PROVE  /\ trip'[i] \in Stops /\ trip'[i].section = trip[i].section /\ trip'[i].seq = trip[i].seq
               /\ trip'[i].from = trip[i].from /\ trip'[i].to = trip[i].to
               /\ trip'[i].admin = ResolvedAdmin(UaslAt(i), homeRead', known')
    <2>1. trip'[i] = [trip[i] EXCEPT !.admin = ResolvedAdmin(UaslAt(i), homeRead', known')]
      OBVIOUS
    <2>2. trip[i] \in Stops
      BY <1>1 DEF IsRoute, Indices
    <2> HIDE DEF Resolve, BookingInv
    <2> QED
      BY <1>3, <2>1, <2>2 DEF Stops
  <1>5. IsRoute(trip)'
    <2> HIDE DEF Resolve, BookingInv
    <2> QED
      BY <1>1, <1>2, <1>4 DEF IsRoute, Indices
  <1>6. Route'
    BY <1>2, <1>4, <1>5 DEF Route, Early, Stages
  <1>7. \A i \in Indices : UaslAt(i)' = UaslAt(i)
    BY <1>4 DEF UaslAt
  <1>8. Whose'
    <2>1. known' \subseteq Uasls /\ \A u \in known' : AdminOf[u] \notin Internal
      OBVIOUS
    <2> QED
      BY <1>2, <1>4, <1>7, <2>1 DEF Whose
  <1>9. own = {} /\ Asked = {} /\ extras = {}
    BY DEF Route, Early, AnswersFit
  <1>10. AnswersFit' /\ PricesFit'
    BY <1>9 DEF AnswersFit, PricesFit, Asked, Early
  <1>11. ChecksFit' /\ RowsFit'
    BY DEF ChecksFit, RowsFit
  <1> QED
    BY <1>6, <1>8, <1>10, <1>11

\* They are told apart: our own, partners', unknown ones.
LEMMA BookingClassify == BookingInv /\ Classify => BookingInv'
  <1> SUFFICES ASSUME BookingInv, Classify PROVE BookingInv'
    OBVIOUS
  <1> DEFINE s == Sorted(trip)
  <1>1. /\ IsRoute(trip) /\ own' \in {Internal, {}} /\ trip' = SplitTimes(s, own')
        /\ \A i \in Indices : trip[i].from < trip[i].to
        /\ UNCHANGED <<inter, known, homeRead, answers, extras, checked, rows>>
        /\ pc = "classify" /\ pc' = "ask"
    BY DEF BookingInv, Route, Classify, Early
  <1>2. /\ DOMAIN s = Indices /\ IsRoute(s) /\ Ascending(s)
        /\ \A n \in Indices : \E i \in Indices : s[n] = trip[i]
    BY <1>1, SortedOK DEF Indices
  <1> HIDE DEF s
  <1>3. \A n \in DOMAIN s : s[n].from < s[n].to
    BY <1>1, <1>2
  <1>4. Shared(s, trip')
    BY <1>1, <1>2, <1>3, SplitOK
  <1>5. Indices' = Indices
    BY <1>2, <1>4 DEF Shared, Indices
  <1>6. IsRoute(trip)' /\ Ascending(trip)'
    BY <1>2, <1>4 DEF Shared, IsRoute, Ascending
  <1>7. \A n \in Indices : trip'[n].admin = ResolvedAdmin(UaslOf[trip'[n].section], homeRead, known)
    <2> SUFFICES ASSUME NEW n \in Indices
                 PROVE  trip'[n].admin = ResolvedAdmin(UaslOf[trip'[n].section], homeRead, known)
      OBVIOUS
    <2>1. PICK i \in Indices : s[n] = trip[i]
      BY <1>2
    <2>2. trip'[n].admin = trip[i].admin /\ trip'[n].section = trip[i].section
      BY <1>2, <1>4, <2>1 DEF Shared
    <2>3. trip[i].admin = ResolvedAdmin(UaslAt(i), homeRead, known)
      BY <1>1 DEF BookingInv, Whose
    <2> QED
      BY <2>2, <2>3 DEF UaslAt
  <1>8. Whose'
    BY <1>1, <1>5, <1>7 DEF BookingInv, Whose, UaslAt, ResolvedAdmin
  <1>9. Followed'
    <2> SUFFICES ASSUME NEW i \in Indices, NEW j \in Indices, i < j,
                        trip'[i].section = trip'[j].section, trip'[i].admin \in own'
                 PROVE  trip'[i].from <= trip'[i].to /\ trip'[i].to <= trip'[j].from
      BY <1>5 DEF Followed, Ours
    <2>1. trip'[j].admin = trip'[i].admin
      BY <1>7
    <2>2. s[i].section = s[j].section /\ s[i].admin \in own' /\ s[j].admin \in own'
      BY <1>2, <1>4, <2>1 DEF Shared
    <2> QED
      BY <1>1, <1>2, <1>3, <2>2, SplitOK
  <1>10. Route'
    BY <1>1, <1>5, <1>6, <1>9 DEF BookingInv, Route, Early, Stages
  <1>11. Asked = {} /\ Asked' = {} /\ extras = {}
    BY <1>1 DEF BookingInv, AnswersFit, Early, Asked
  <1>12. AnswersFit' /\ PricesFit'
    BY <1>1, <1>11 DEF AnswersFit, PricesFit, Early
  <1>13. ChecksFit' /\ RowsFit'
    BY <1>1 DEF BookingInv, ChecksFit, RowsFit
  <1> QED
    BY <1>8, <1>10, <1>12, <1>13 DEF BookingInv

\* A partner is asked, and answers with the ids and the extras of its part.
LEMMA BookingAsk == BookingInv /\ AskPartner => BookingInv'
  <1> SUFFICES ASSUME BookingInv, AskPartner PROVE BookingInv'
    OBVIOUS
  <1>1. /\ IsRoute(trip) /\ own \in {Internal, {}} /\ Route /\ Whose /\ AnswersFit
        /\ PricesFit /\ ChecksFit /\ RowsFit
    BY DEF BookingInv, Route
  <1>2. PICK e : e = NextPartner
    OBVIOUS
  <1>3. /\ pc = "ask" /\ pc' = "ask" /\ ToAsk # {} /\ e \notin Internal
        /\ UNCHANGED <<inter, known, homeRead, own, checked, rows>>
        /\ extras' \in {extras, extras \cup {e}}
        /\ trip' = [i \in Indices |-> IF trip[i].admin = e
                                      THEN [trip[i] EXCEPT !.price = PartnerFee] ELSE trip[i]]
    BY <1>2 DEF AskPartner
  <1>4. PICK a \in AnswersOf(e) :
           answers' = [f \in Asked \cup {e} |-> IF f \in Asked THEN answers[f] ELSE a]
    BY <1>2 DEF AskPartner
  <1>5. PICK i0 \in Indices : Partner(i0) /\ trip[i0].admin = e /\ e \notin Asked
    <2>1. ToAsk \subseteq Int /\ IsFiniteSet(ToAsk)
      BY <1>1, RouteFacts, FS_Subset DEF ToAsk
    <2>2. Min(ToAsk) \in ToAsk
      BY <1>3, <2>1, MinOfFinite
    <2> QED
      BY <1>2, <2>2 DEF NextPartner, ToAsk
  <1>6. e \in Admins
    BY <1>1, <1>5, RouteFacts DEF Partner, Known
  <1>7. ASSUME NEW i \in Indices
        PROVE  /\ trip'[i] \in Stops
               /\ trip'[i].section = trip[i].section /\ trip'[i].seq = trip[i].seq
               /\ trip'[i].admin = trip[i].admin
               /\ trip'[i].from = trip[i].from /\ trip'[i].to = trip[i].to
               /\ trip[i].admin = e => trip'[i].price = PartnerFee
               /\ trip[i].admin # e => trip'[i].price = trip[i].price
    <2>1. trip[i] \in Stops /\ PartnerFee \in Nat
      BY <1>1, BookingAssumption DEF IsRoute, Indices
    <2> QED
      BY <1>3, <2>1 DEF Stops
  <1>8. DOMAIN trip' = Indices
    BY <1>3
  <1>9. /\ Indices' = Indices /\ IsRoute(trip)'
        /\ Ascending(trip) => Ascending(trip)'
        /\ Followed => Followed'
        /\ \A i \in Indices : /\ UaslAt(i)' = UaslAt(i) /\ Known(i)' = Known(i)
                              /\ Ours(i)' = Ours(i) /\ Partner(i)' = Partner(i)
        /\ \A f \in Admins : AnswersOf(f)' = AnswersOf(f)
    BY <1>1, <1>3, <1>7, <1>8, SameWindows
  <1>10. Route' /\ Whose'
    <2>1. Route'
      BY <1>1, <1>3, <1>9 DEF Route, Early
    <2>2. Whose'
      BY <1>1, <1>3, <1>7, <1>9 DEF Whose, ResolvedAdmin
    <2> QED
      BY <2>1, <2>2
  <1>11. /\ Asked' = Asked \cup {e} /\ answers'[e] = a
         /\ \A f \in Asked : answers'[f] = answers[f]
    BY <1>4, <1>5 DEF Asked
  <1>12. AnswersFit'
    <2>1. ASSUME NEW f \in Asked'
          PROVE  /\ f \notin Internal /\ answers'[f] \in AnswersOf(f)'
                 /\ \E i \in Indices : Partner(i)' /\ trip'[i].admin = f
      <3>1. CASE f = e
        BY <1>3, <1>4, <1>5, <1>6, <1>7, <1>9, <1>11, <3>1
      <3>2. CASE f # e
        <4>1. f \in Asked /\ answers'[f] = answers[f]
          BY <1>11, <3>2, <2>1
        <4>2. PICK i \in Indices : Partner(i) /\ trip[i].admin = f
          BY <1>1, <4>1 DEF AnswersFit
        <4>3. f \in Admins
          BY <1>1, <4>2, RouteFacts DEF Partner, Known
        <4>4. f \notin Internal /\ answers[f] \in AnswersOf(f)
          BY <1>1, <4>1 DEF AnswersFit
        <4> QED
          BY <1>7, <1>9, <4>1, <4>2, <4>3, <4>4
      <3> QED
        BY <3>1, <3>2
    <2>2. extras' \subseteq Asked'
      BY <1>1, <1>3, <1>11 DEF AnswersFit
    <2> QED
      BY <1>3, <1>9, <2>1, <2>2 DEF AnswersFit, Early
  <1>13. PricesFit'
    <2>1. ASSUME NEW i \in Indices, Partner(i), trip'[i].admin \in Asked'
          PROVE  trip'[i].price = PartnerFee
      BY <1>1, <1>7, <1>11, <2>1 DEF PricesFit
    <2> QED
      BY <1>3, <1>9, <2>1 DEF PricesFit
  <1>14. ChecksFit' /\ RowsFit'
    BY <1>1, <1>3 DEF ChecksFit, RowsFit
  <1> QED
    BY <1>10, <1>12, <1>13, <1>14 DEF BookingInv

\* A step that leaves the route and its owners alone.
LEMMA SameRoute ==
    ASSUME BookingInv, UNCHANGED <<inter, trip, known, homeRead, own>>
    PROVE  /\ Indices' = Indices /\ IsRoute(trip)' /\ Followed' = Followed
           /\ \A i \in Indices : /\ UaslAt(i)' = UaslAt(i) /\ Known(i)' = Known(i)
                                 /\ Ours(i)' = Ours(i) /\ Partner(i)' = Partner(i)
           /\ \A e : AnswersOf(e)' = AnswersOf(e)
           /\ Windows' = Windows /\ Windows \subseteq Sections \X Hours \X Hours
           /\ pc \notin Early /\ pc' \notin Early /\ pc' \in Stages => Route' /\ Whose'
  <1>1. Indices' = Indices /\ \A i : /\ UaslAt(i)' = UaslAt(i) /\ Known(i)' = Known(i)
                                     /\ Ours(i)' = Ours(i) /\ Partner(i)' = Partner(i)
    BY DEF Indices, UaslAt, Known, Ours, Partner
  <1>2. Followed' = Followed
    BY <1>1 DEF Followed
  <1>3. \A e : AnswersOf(e)' = AnswersOf(e)
    BY <1>1 DEF AnswersOf
  <1>4. IsRoute(trip) /\ IsRoute(trip)'
    BY DEF BookingInv, Route
  <1>5. Windows' = Windows
    BY <1>1 DEF Windows, ToCheck
  <1>6. Windows \subseteq Sections \X Hours \X Hours
    BY <1>4, RouteFacts DEF Windows, ToCheck
  <1>7. ASSUME pc \notin Early, pc' \notin Early, pc' \in Stages
        PROVE  Route' /\ Whose'
    <2>1. Route'
      BY <1>2, <1>4, <1>7 DEF BookingInv, Route
    <2>2. Whose'
      BY <1>1, <1>7 DEF BookingInv, Whose, Early
    <2> QED
      BY <2>1, <2>2
  <1> QED
    BY <1>1, <1>2, <1>3, <1>4, <1>5, <1>6, <1>7

\* A partner fails, all have been asked, or the check is passed.
LEMMA BookingPlain == BookingInv /\ (AskFails \/ AllAsked \/ Check) => BookingInv'
  <1> SUFFICES ASSUME BookingInv, AskFails \/ AllAsked \/ Check PROVE BookingInv'
    OBVIOUS
  <1>1. UNCHANGED <<inter, trip, known, homeRead, own, answers, extras, rows>>
    BY DEF AskFails, AllAsked, Check
  <1>2. pc \in {"ask", "check"} /\ pc' \in {"failed", "check", "price"}
    BY DEF AskFails, AllAsked, Check
  <1>3. Route' /\ Whose'
    <2>1. pc \notin Early /\ pc' \notin Early /\ pc' \in Stages
      BY <1>2 DEF Early, Stages
    <2> QED
      BY <1>1, <2>1, SameRoute
  <1>4. AnswersFit'
    <2>1. pc' \in {"check", "price"} => \A i \in Indices : Partner(i) => trip[i].admin \in Asked
      BY DEF AskFails, AllAsked, Check, BookingInv, AnswersFit, ToAsk
    <2>2. Asked' = Asked
      BY <1>1 DEF Asked
    <2>3. \A e \in Asked : /\ e \notin Internal /\ answers[e] \in AnswersOf(e)
                           /\ \E i \in Indices : Partner(i) /\ trip[i].admin = e
      BY DEF BookingInv, AnswersFit
    <2>4. \A e \in Asked : /\ e \notin Internal /\ answers'[e] \in AnswersOf(e)'
                           /\ \E i \in Indices : Partner(i)' /\ trip'[i].admin = e
      BY <1>1, <2>3, SameRoute
    <2> QED
      BY <1>1, <1>2, <2>1, <2>2, <2>4, SameRoute DEF BookingInv, AnswersFit, Early
  <1>5. PricesFit'
    BY <1>1, <1>2, SameRoute DEF BookingInv, PricesFit, Asked
  <1>6. ChecksFit'
    <2>1. CASE Check /\ pc' = "price"
      <3>1. checked' = Windows
        BY <2>1 DEF Check, Windows
      <3> QED
        BY <1>1, <3>1, SameRoute DEF ChecksFit
    <2>2. CASE ~(Check /\ pc' = "price")
      <3>1. checked' = checked /\ pc' \in {"failed", "check"}
        BY <2>2 DEF AskFails, AllAsked, Check
      <3> QED
        BY <3>1 DEF BookingInv, ChecksFit
    <2> QED
      BY <2>1, <2>2
  <1>7. RowsFit'
    BY <1>1, <1>2 DEF BookingInv, RowsFit
  <1> QED
    BY <1>3, <1>4, <1>5, <1>6, <1>7 DEF BookingInv

\* What the sections cost is known.
LEMMA BookingPrice == BookingInv /\ Price => BookingInv'
  <1> SUFFICES ASSUME BookingInv, Price PROVE BookingInv'
    OBVIOUS
  <1>1. /\ IsRoute(trip) /\ Route /\ Whose /\ AnswersFit /\ PricesFit /\ ChecksFit /\ RowsFit
    BY DEF BookingInv, Route
  <1>2. /\ pc = "price" /\ pc' \in {"write", "failed"}
        /\ UNCHANGED <<inter, known, homeRead, own, answers, extras, checked, rows>>
    BY DEF Price
  <1>3. ASSUME NEW i \in Indices
        PROVE  /\ trip'[i] \in Stops
               /\ trip'[i].section = trip[i].section /\ trip'[i].seq = trip[i].seq
               /\ trip'[i].admin = trip[i].admin
               /\ trip'[i].from = trip[i].from /\ trip'[i].to = trip[i].to
               /\ pc' = "write" /\ Ours(i) => trip'[i].price = OwnFee
               /\ ~Ours(i) => trip'[i].price = trip[i].price
    <2>1. trip[i] \in Stops /\ OwnFee \in Nat
      BY <1>1, BookingAssumption DEF IsRoute, Indices
    <2>2. CASE trip' = trip /\ pc' = "failed"
      BY <2>1, <2>2
    <2>3. CASE /\ trip' = [k \in Indices |-> IF Ours(k) THEN [trip[k] EXCEPT !.price = OwnFee]
                                              ELSE trip[k]]
               /\ pc' = "write"
      BY <2>1, <2>3 DEF Stops
    <2> QED
      BY <2>2, <2>3 DEF Price
  <1>4. DOMAIN trip' = Indices
    BY DEF Price, Indices
  <1>5. /\ Indices' = Indices /\ IsRoute(trip)'
        /\ Ascending(trip) => Ascending(trip)'
        /\ Followed => Followed'
        /\ \A i \in Indices : /\ UaslAt(i)' = UaslAt(i) /\ Known(i)' = Known(i)
                              /\ Ours(i)' = Ours(i) /\ Partner(i)' = Partner(i)
        /\ \A f \in Admins : AnswersOf(f)' = AnswersOf(f)
        /\ Windows' = Windows
    BY <1>1, <1>2, <1>3, <1>4, SameWindows
  <1>6. Route'
    BY <1>1, <1>2, <1>5 DEF Route, Early, Stages
  <1>7. Whose'
    BY <1>1, <1>2, <1>3, <1>5 DEF Whose, ResolvedAdmin
  <1>8. Asked' = Asked
    BY <1>2 DEF Asked
  <1>9. AnswersFit'
    <2>1. ASSUME NEW e \in Asked
          PROVE  /\ e \notin Internal /\ answers'[e] \in AnswersOf(e)'
                 /\ \E i \in Indices : Partner(i)' /\ trip'[i].admin = e
      <3>1. PICK i \in Indices : Partner(i) /\ trip[i].admin = e
        BY <1>1 DEF AnswersFit
      <3>2. e \in Admins
        BY <1>1, <3>1, RouteFacts DEF Partner, Known
      <3>3. e \notin Internal /\ answers[e] \in AnswersOf(e)
        BY <1>1 DEF AnswersFit
      <3> QED
        BY <1>2, <1>3, <1>5, <3>1, <3>2, <3>3
    <2>2. \A i \in Indices : Partner(i)' => trip'[i].admin \in Asked
      BY <1>1, <1>2, <1>3, <1>5 DEF AnswersFit
    <2> QED
      BY <1>1, <1>2, <1>5, <1>8, <2>1, <2>2 DEF AnswersFit, Early
  <1>10. PricesFit'
    <2>1. ASSUME NEW i \in Indices, Partner(i), trip'[i].admin \in Asked
          PROVE  trip'[i].price = PartnerFee
      BY <1>1, <1>3, <2>1 DEF PricesFit, Partner
    <2> QED
      BY <1>2, <1>3, <1>5, <1>8, <2>1 DEF PricesFit
  <1>11. ChecksFit' /\ RowsFit'
    BY <1>1, <1>2, <1>5 DEF ChecksFit, RowsFit
  <1> QED
    BY <1>6, <1>7, <1>9, <1>10, <1>11 DEF BookingInv

\* What is written depends on the request and the answers only.
LEMMA WrittenSame ==
    ASSUME UNCHANGED <<inter, trip, known, homeRead, own, answers, extras>>
    PROVE  Written' = Written /\ KeysDistinct' = KeysDistinct
  <1>1. Indices' = Indices /\ \A i : /\ UaslAt(i)' = UaslAt(i) /\ Known(i)' = Known(i)
                                     /\ Ours(i)' = Ours(i) /\ Partner(i)' = Partner(i)
    BY DEF Indices, UaslAt, Known, Ours, Partner
  <1>2. \A i : Last(i)' = Last(i)
    BY <1>1 DEF Last
  <1>3. \A i : Continues(i)' = Continues(i)
    BY <1>1, <1>2 DEF Continues
  <1>4. Heads' = Heads /\ OwnHeads' = OwnHeads /\ PartnerHeads' = PartnerHeads
    BY <1>1, <1>3 DEF Heads, OwnHeads, PartnerHeads
  <1>5. \A i : HeadOf(i)' = HeadOf(i) /\ PartnerRowId(i)' = PartnerRowId(i)
    BY <1>1, <1>4 DEF HeadOf, PartnerRowId
  <1>6. \A i : Run(i)' = Run(i) /\ RunEnd(i)' = RunEnd(i)
    BY <1>1, <1>5 DEF Run, RunEnd
  <1>7. \A s : Fees(s)' = Fees(s)
    BY DEF Fees
  <1>8. Extras' = Extras /\ Total' = Total
    BY <1>1, <1>7 DEF Extras, Total
  <1>9. OwnParents' = OwnParents /\ Origin' = Origin
    BY <1>4 DEF OwnParents, Origin
  <1>10. BaseRow' = BaseRow
    BY <1>1, <1>8 DEF BaseRow, BaseAdmin, Row, BaseId
  <1>11. \A h : OwnParentRow(h)' = OwnParentRow(h) /\ PartnerRow(h)' = PartnerRow(h)
    BY <1>5, <1>6, <1>7, <1>8, <1>9 DEF OwnParentRow, PartnerRow, Row, OwnId
  <1>12. \A i : ParentOf(i)' = ParentOf(i) /\ ChildRow(i)' = ChildRow(i)
    BY <1>1, <1>5, <1>9 DEF ParentOf, ChildRow, Row, OwnId, BaseId, ChildId
  <1>13. OwnParentRows' = OwnParentRows
    BY <1>4, <1>9, <1>10, <1>11 DEF OwnParentRows
  <1>14. Written' = Written
    BY <1>1, <1>4, <1>11, <1>12, <1>13 DEF Written
  <1>15. KeysDistinct' = KeysDistinct
    BY <1>4, <1>5 DEF KeysDistinct
  <1> QED
    BY <1>14, <1>15

\* The rows are written, or the keys clash.
LEMMA BookingWrite == BookingInv /\ Write => BookingInv'
  <1> SUFFICES ASSUME BookingInv, Write PROVE BookingInv'
    OBVIOUS
  <1>1. /\ UNCHANGED <<inter, trip, known, homeRead, own, answers, extras, checked>>
        /\ pc = "write" /\ pc' \in {"held", "failed"}
    BY DEF Write
  <1>2. Route' /\ Whose'
    <2>1. pc \notin Early /\ pc' \notin Early /\ pc' \in Stages
      BY <1>1 DEF Early, Stages
    <2> QED
      BY <1>1, <2>1, SameRoute
  <1>3. AnswersFit'
    <2>1. Asked' = Asked
      BY <1>1 DEF Asked
    <2>2. \A e \in Asked : /\ e \notin Internal /\ answers'[e] \in AnswersOf(e)'
                           /\ \E i \in Indices : Partner(i)' /\ trip'[i].admin = e
      BY <1>1, SameRoute DEF BookingInv, AnswersFit
    <2>3. \A i \in Indices : Partner(i) => trip[i].admin \in Asked
      BY <1>1 DEF BookingInv, AnswersFit
    <2> QED
      BY <1>1, <2>1, <2>2, <2>3, SameRoute DEF BookingInv, AnswersFit, Early
  <1>4. PricesFit'
    BY <1>1, SameRoute DEF BookingInv, PricesFit, Asked
  <1>5. ChecksFit'
    BY <1>1, SameRoute DEF BookingInv, ChecksFit
  <1>6. RowsFit'
    <2>1. CASE pc' = "held"
      <3>1. KeysDistinct /\ rows' = Written
        BY <2>1 DEF Write, Written
      <3> QED
        BY <1>1, <2>1, <3>1, WrittenSame DEF RowsFit
    <2>2. CASE pc' = "failed"
      BY <1>1, <2>2 DEF BookingInv, RowsFit, Write
    <2> QED
      BY <1>1, <2>1, <2>2
  <1> QED
    BY <1>2, <1>3, <1>4, <1>5, <1>6 DEF BookingInv

\* Nothing happens.
LEMMA BookingSame == BookingInv /\ UNCHANGED vars => BookingInv'
  <1> SUFFICES ASSUME BookingInv, UNCHANGED vars PROVE BookingInv'
    OBVIOUS
  <1>1. UNCHANGED <<inter, trip, known, homeRead, own, answers, extras, checked, rows, pc>>
    BY DEF vars
  <1>2. /\ Indices' = Indices /\ Followed' = Followed /\ Windows' = Windows
        /\ \A i \in Indices : /\ UaslAt(i)' = UaslAt(i) /\ Known(i)' = Known(i)
                              /\ Ours(i)' = Ours(i) /\ Partner(i)' = Partner(i)
        /\ \A e : AnswersOf(e)' = AnswersOf(e)
        /\ Written' = Written /\ KeysDistinct' = KeysDistinct /\ Asked' = Asked
    BY <1>1, SameRoute, WrittenSame DEF Asked
  <1>3. Route' /\ Whose'
    BY <1>1, <1>2 DEF BookingInv, Route, Whose
  <1>4. AnswersFit'
    BY <1>1, <1>2 DEF BookingInv, AnswersFit
  <1>5. PricesFit' /\ ChecksFit' /\ RowsFit'
    BY <1>1, <1>2 DEF BookingInv, PricesFit, ChecksFit, RowsFit
  <1> QED
    BY <1>3, <1>4, <1>5 DEF BookingInv

\* The invariant of a booking, always.
LEMMA BookingInvAlways == Spec => []BookingInv
  <1>1. BookingInv /\ [Next]_vars => BookingInv'
    BY BookingResolve, BookingClassify, BookingAsk, BookingPlain, BookingPrice, BookingWrite,
       BookingSame DEF Next, Done
  <1> QED
    BY <1>1, BookingInit, PTL DEF Spec
-----------------------------------------------------------------------------
(* Runs: every section whose administrator was found is in the run of one head. *)

\* The last known section before another is one of those before it.
LEMMA LastIs ==
    ASSUME IsRoute(trip), NEW i \in Indices, \E j \in 1..(i - 1) : Known(j)
    PROVE  /\ Last(i) \in 1..(i - 1) /\ Known(Last(i)) /\ Last(i) \in Indices /\ Last(i) < i
           /\ \A j \in 1..(i - 1) : Known(j) => j <= Last(i)
  <1> DEFINE before == {j \in 1..(i - 1) : Known(j)}
  <1>1. i \in Nat /\ 1..i \subseteq Indices
    BY RouteFacts
  <1>2. IsFiniteSet(before) /\ before \subseteq Int /\ before # {}
    <2>1. IsFiniteSet(1..(i - 1)) /\ 1..(i - 1) \subseteq Int
      BY <1>1, FS_Interval
    <2>2. before \subseteq 1..(i - 1) /\ before # {}
      OBVIOUS
    <2> HIDE DEF before
    <2> QED
      BY <2>1, <2>2, FS_Subset
  <1>3. Max(before) \in before /\ \A j \in before : j <= Max(before)
    <2> HIDE DEF before
    <2> QED
      BY <1>2, MaxOfFinite
  <1> QED
    BY <1>1, <1>3 DEF Last

\* A run is on one side of the border, and on the other side it is one administrator's.
LEMMA HeadIs ==
    ASSUME IsRoute(trip), NEW i \in Indices, Known(i)
    PROVE  /\ HeadOf(i) \in Heads /\ HeadOf(i) <= i
           /\ \A h \in Heads : h <= i => h <= HeadOf(i)
           /\ Ours(HeadOf(i)) = Ours(i)
           /\ Ours(i) \/ trip[HeadOf(i)].admin = trip[i].admin
  <1> DEFINE upTo(k) == {h \in Heads : h <= k}
             good(k) == /\ upTo(k) # {}
                        /\ Ours(Max(upTo(k))) = Ours(k)
                        /\ Ours(k) \/ trip[Max(upTo(k))].admin = trip[k].admin
             bad == {k \in Indices : Known(k) /\ ~good(k)}
  <1>1. \A k \in Indices : k \in Nat
    BY RouteFacts
  <1>2. Heads \subseteq Indices /\ IsFiniteSet(Heads) /\ Heads \subseteq Nat
    BY RouteFacts, FS_Subset DEF Heads
  <1>3. ASSUME NEW k \in Indices, upTo(k) # {}
        PROVE  Max(upTo(k)) \in Heads /\ Max(upTo(k)) <= k /\ \A h \in Heads : h <= k => h <= Max(upTo(k))
    <2>1. IsFiniteSet(upTo(k)) /\ upTo(k) \subseteq Int
      <3>1. upTo(k) \subseteq Heads
        OBVIOUS
      <3>2. upTo(k) \subseteq Int
        <4>1. \A h \in Heads : h \in Int
          BY <1>2
        <4> QED
          BY <4>1
      <3>3. IsFiniteSet(upTo(k))
        <4> HIDE DEF upTo
        <4> QED
          BY <1>2, <3>1, FS_Subset
      <3> QED
        BY <3>2, <3>3
    <2>2. Max(upTo(k)) \in upTo(k) /\ \A h \in upTo(k) : h <= Max(upTo(k))
      <3> HIDE DEF upTo
      <3> QED
        BY <1>3, <2>1, MaxOfFinite
    <2> QED
      BY <2>2
  <1>4. bad = {}
    <2> SUFFICES ASSUME bad # {} PROVE FALSE
      OBVIOUS
    <2>1. IsFiniteSet(bad) /\ bad \subseteq Int
      <3>1. bad \subseteq Indices /\ IsFiniteSet(Indices) /\ Indices \subseteq Int
        BY RouteFacts
      <3> HIDE DEF bad
      <3> QED
        BY <3>1, FS_Subset
    <2>2. PICK k \in bad : \A l \in bad : k <= l
      <3> HIDE DEF bad
      <3> QED
        BY <2>1, MinOfFinite
    <2>3. k \in Indices /\ Known(k) /\ ~good(k) /\ k \in Nat
      BY <2>2, <1>1
    <2>4. CASE k \in Heads
      <3>1. k \in upTo(k)
        BY <2>3, <2>4
      <3>2. Max(upTo(k)) <= k /\ k <= Max(upTo(k)) /\ Max(upTo(k)) \in Nat
        BY <1>2, <1>3, <2>3, <2>4, <3>1
      <3>3. Max(upTo(k)) = k
        <4> HIDE DEF upTo
        <4> QED
          BY <2>3, <3>2
      <3> HIDE DEF upTo
      <3> QED
        BY <2>3, <3>1, <3>3
    <2>5. CASE k \notin Heads
      <3>1. Continues(k)
        BY <2>3, <2>5 DEF Heads
      <3>2. PICK l : l = Last(k)
        OBVIOUS
      <3>3. /\ l \in Indices /\ Known(l) /\ l < k /\ l \in Nat
            /\ \A j \in 1..(k - 1) : Known(j) => j <= l
            /\ Ours(k) = Ours(l) /\ (Ours(k) \/ trip[k].admin = trip[l].admin)
        BY <1>1, <2>3, <3>1, <3>2, LastIs DEF Continues
      <3>4. l \notin bad
        BY <2>2, <2>3, <3>3
      <3>5. good(l)
        BY <3>3, <3>4
      <3>6. upTo(k) = upTo(l)
        <4>1. \A h \in Heads : h <= k => h <= l
          <5> SUFFICES ASSUME NEW h \in Heads, h <= k PROVE h <= l
            OBVIOUS
          <5>1. h # k /\ h \in Nat /\ h >= 1 /\ Known(h)
            BY <1>2, <2>5, RouteFacts DEF Heads
          <5>2. h \in 1..(k - 1)
            BY <2>3, <5>1
          <5> QED
            BY <3>3, <5>1, <5>2
        <4>2. \A h \in Heads : h <= l => h <= k
          BY <1>2, <2>3, <3>3
        <4> QED
          BY <4>1, <4>2
      <3>7. good(k)
        <4> HIDE DEF upTo
        <4> QED
          BY <3>3, <3>5, <3>6
      <3> QED
        BY <2>3, <3>7
    <2> QED
      BY <2>4, <2>5
  <1>5. good(i)
    BY <1>4
  <1> QED
    BY <1>3, <1>5 DEF HeadOf

\* A run of sections of one administrator is led by its first.
LEMMA HeadOfHead ==
    ASSUME IsRoute(trip), NEW h \in Heads
    PROVE  HeadOf(h) = h /\ h \in Indices /\ Known(h) /\ HeadOf(h) \in Nat
  <1>1. h \in Indices /\ Known(h) /\ h \in Nat
    BY RouteFacts DEF Heads
  <1>2. HeadOf(h) <= h /\ h <= HeadOf(h) /\ HeadOf(h) \in Heads
    BY <1>1, HeadIs
  <1>3. HeadOf(h) \in Nat
    BY <1>2, RouteFacts DEF Heads
  <1> QED
    BY <1>1, <1>2, <1>3

\* A run is finitely many sections, its head and its end among them.
LEMMA RunIs ==
    ASSUME IsRoute(trip), NEW h \in Heads
    PROVE  /\ Run(h) \subseteq Indices /\ IsFiniteSet(Run(h)) /\ h \in Run(h)
           /\ RunEnd(h) \in Run(h)
  <1>1. Run(h) \subseteq Indices /\ h \in Run(h)
    BY HeadOfHead DEF Run
  <1>2. IsFiniteSet(Run(h)) /\ Run(h) \subseteq Int
    BY <1>1, RouteFacts, FS_Subset
  <1> QED
    BY <1>1, <1>2, MaxOfFinite DEF RunEnd

\* Once all are asked, a section whose administrator was found is under one of ours, or
\* under one that answered.
LEMMA SidesAre ==
    ASSUME BookingInv, pc \in {"check", "price", "write", "held"}, NEW i \in Indices, Known(i)
    PROVE  /\ trip[i].admin \in Admins
           /\ Ours(i) <=> trip[i].admin \in Internal
           /\ Partner(i) <=> trip[i].admin \in Asked
           /\ Partner(i) => \E u \in Uasls : u = UaslAt(i) /\ u \in DOMAIN answers[trip[i].admin]
                               /\ answers[trip[i].admin][u] \in PartnerIds[trip[i].admin] \cup {NoId}
  <1>1. trip[i].admin \in Admins
    BY RouteFacts DEF BookingInv, Route, Known
  <1>2. own \subseteq Internal
    BY DEF BookingInv, Route
  <1>3. Partner(i) => trip[i].admin \in Asked
    BY DEF BookingInv, AnswersFit
  <1>4. trip[i].admin \in Asked => trip[i].admin \notin Internal
    BY DEF BookingInv, AnswersFit
  <1>5. Ours(i) <=> trip[i].admin \in Internal
    BY <1>2, <1>3, <1>4 DEF Ours, Partner
  <1>6. Partner(i) <=> trip[i].admin \in Asked
    BY <1>3, <1>4, <1>5 DEF Partner
  <1>7. ASSUME Partner(i)
        PROVE  \E u \in Uasls : u = UaslAt(i) /\ u \in DOMAIN answers[trip[i].admin]
                  /\ answers[trip[i].admin][u] \in PartnerIds[trip[i].admin] \cup {NoId}
    <2>1. answers[trip[i].admin] \in AnswersOf(trip[i].admin)
      BY <1>3, <1>7 DEF BookingInv, AnswersFit
    <2>2. UaslAt(i) \in Uasls
      BY RouteFacts DEF BookingInv, Route
    <2> QED
      BY <2>1, <2>2 DEF AnswersOf
  <1> QED
    BY <1>1, <1>5, <1>6, <1>7

\* A partner's row has the id the partner gave, or a new one, and none of ours.
LEMMA PartnerRowIdIs ==
    ASSUME BookingInv, pc \in {"check", "price", "write", "held"}, NEW h \in PartnerHeads
    PROVE  /\ h \in Heads /\ h \in Nat /\ Partner(h) /\ trip[h].admin \in Admins /\ trip[h].admin \in Asked
           /\ PartnerRowId(h) # NoId
           /\ \/ PartnerRowId(h) = <<"new", h>>
              \/ PartnerRowId(h) \in PartnerIds[trip[h].admin] /\ PartnerRowId(h) \notin OurIds
  <1>1. IsRoute(trip)
    BY DEF BookingInv, Route
  <1>2. h \in Heads /\ h \in Indices /\ Known(h) /\ h \in Nat /\ Partner(h)
    BY <1>1, HeadOfHead DEF PartnerHeads, OwnHeads, Partner
  <1>3. trip[h].admin \in Admins /\ trip[h].admin \in Asked
        /\ answers[trip[h].admin][UaslAt(h)] \in PartnerIds[trip[h].admin] \cup {NoId}
    BY <1>2, SidesAre
  <1>4. <<"new", h>> \in OurIds
    BY <1>2 DEF OurIds
  <1> QED
    BY <1>2, <1>3, <1>4, BookingAssumption DEF PartnerRowId

\* A hold's rows can always be inserted, but for a route that comes back to a partner,
\* for every route and whatever the partners answer.
THEOREM InsertFailsOnlyOnReentry == Spec => []InsertableUnlessReentered
  <1>1. BookingInv => InsertableUnlessReentered
    <2> SUFFICES ASSUME BookingInv, pc = "write", ~KeysDistinct
                 PROVE  \E e \in Asked : Reentered(e)
      BY DEF InsertableUnlessReentered
    <2>1. IsRoute(trip)
      BY DEF BookingInv, Route
    <2>2. PICK h \in PartnerHeads, k \in PartnerHeads : PartnerRowId(h) = PartnerRowId(k) /\ h < k
      <3>1. PICK a \in PartnerHeads, b \in PartnerHeads : PartnerRowId(a) = PartnerRowId(b) /\ a # b
        BY DEF KeysDistinct
      <3>2. a \in Nat /\ b \in Nat
        BY PartnerRowIdIs
      <3>3. a < b \/ b < a
        BY <3>1, <3>2
      <3> QED
        BY <3>1, <3>3
    <2>3. PICK e : e = trip[h].admin
      OBVIOUS
    <2>4. /\ h \in Heads /\ k \in Heads /\ h \in Nat /\ k \in Nat /\ e \in Asked /\ e \in Admins
          /\ h \in Indices /\ k \in Indices /\ trip[k].admin \in Admins
      BY <2>1, <2>3, PartnerRowIdIs, HeadOfHead
    <2>5. trip[k].admin = e
      <3>1. <<"new", h>> \in OurIds /\ <<"new", k>> \in OurIds /\ <<"new", h>> # <<"new", k>>
        BY <2>2, <2>4 DEF OurIds
      <3>2. PartnerRowId(h) \in PartnerIds[e] /\ PartnerRowId(k) \in PartnerIds[trip[k].admin]
        BY <2>2, <2>3, <3>1, PartnerRowIdIs
      <3> QED
        BY <2>2, <2>4, <3>2, BookingAssumption
    <2>6. Reentered(e)
      <3> SUFFICES ASSUME \A m \in h..k : trip[m].admin = e,
                          \A m \in h..(k - 1) : trip[m + 1].seq = trip[m].seq + 1
                   PROVE  FALSE
        BY <2>2, <2>3, <2>4, <2>5 DEF Reentered
      <3>1. k - 1 \in h..k /\ k - 1 \in h..(k - 1) /\ k - 1 \in 1..(k - 1) /\ k - 1 \in Nat
        <4>1. h >= 1
          BY <2>1, <2>4, RouteFacts
        <4> QED
          BY <2>2, <2>4, <4>1
      <3>2. trip[k - 1].admin = e /\ Known(k - 1)
        BY <2>4, <3>1, BookingAssumption DEF Known
      <3>3. Last(k) = k - 1
        <4>1. Last(k) \in 1..(k - 1) /\ k - 1 <= Last(k)
          BY <2>1, <2>4, <3>1, <3>2, LastIs
        <4> QED
          BY <2>4, <4>1
      <3>4. trip[k].seq = trip[k - 1].seq + 1
        <4>1. trip[(k - 1) + 1].seq = trip[k - 1].seq + 1
          BY <3>1
        <4>2. (k - 1) + 1 = k
          BY <2>4
        <4> QED
          BY <4>1, <4>2
      <3>5. Continues(k)
        BY <2>5, <3>1, <3>2, <3>3, <3>4 DEF Continues, Ours
      <3> QED
        BY <2>4, <3>5 DEF Heads
    <2> QED
      BY <2>4, <2>6
  <1> QED
    BY <1>1, BookingInvAlways, PTL
-----------------------------------------------------------------------------
(* The rows of a hold that succeeded.                                            *)

KnownOnes == {i \in Indices : Known(i)}

\* Every section lies under a parent row of its side.
LEMMA ParentIs ==
    ASSUME BookingInv, pc \in {"check", "price", "write", "held"}, NEW i \in Indices, Known(i)
    PROVE  /\ Partner(i) => HeadOf(i) \in PartnerHeads /\ ParentOf(i) = PartnerRowId(HeadOf(i))
           /\ Ours(i) => HeadOf(i) \in OwnHeads
           /\ Ours(i) => ParentOf(i) = IF OwnParents THEN OwnId(HeadOf(i)) ELSE BaseId
           /\ ParentOf(i) # NoId
  <1>1. IsRoute(trip)
    BY DEF BookingInv, Route
  <1>2. HeadOf(i) \in Heads /\ Ours(HeadOf(i)) = Ours(i) /\ HeadOf(i) \in Nat
    BY <1>1, HeadIs, HeadOfHead
  <1>3. Ours(i) => HeadOf(i) \in OwnHeads
    BY <1>2 DEF OwnHeads
  <1>4. Partner(i) => HeadOf(i) \in PartnerHeads
    BY <1>2 DEF OwnHeads, PartnerHeads, Partner
  <1>5. OwnId(HeadOf(i)) \in OurIds /\ BaseId \in OurIds /\ NoId \notin OurIds
    BY <1>2, BookingAssumption DEF OwnId, BaseId, OurIds
  <1>6. CASE Partner(i)
    <2>1. ParentOf(i) = PartnerRowId(HeadOf(i)) /\ ~Ours(i)
      BY <1>6 DEF ParentOf, Partner
    <2>2. PartnerRowId(HeadOf(i)) # NoId
      BY <1>4, <1>6, PartnerRowIdIs
    <2> QED
      BY <1>4, <1>6, <2>1, <2>2
  <1>7. CASE ~Partner(i)
    <2>1. ParentOf(i) = IF OwnParents THEN OwnId(HeadOf(i)) ELSE BaseId
      BY <1>7 DEF ParentOf
    <2> QED
      BY <1>3, <1>5, <1>7, <2>1
  <1> QED
    BY <1>6, <1>7

\* The rows that are written, and that their keys are distinct.
LEMMA RowsAre ==
    ASSUME BookingInv, pc = "held"
    PROVE  /\ ParentRows = OwnParentRows \cup {PartnerRow(h) : h \in PartnerHeads}
           /\ ChildRows = {ChildRow(i) : i \in KnownOnes}
           /\ KeysDistinct
  <1>1. rows = OwnParentRows \cup {PartnerRow(h) : h \in PartnerHeads} \cup {ChildRow(i) : i \in KnownOnes}
        /\ KeysDistinct
    BY DEF BookingInv, RowsFit, Written, KnownOnes
  <1>2. \A h : OwnParentRow(h).parent = NoId /\ PartnerRow(h).parent = NoId
    BY DEF OwnParentRow, PartnerRow, Row
  <1>3. BaseRow.parent = NoId
    BY DEF BaseRow, Row
  <1>4. \A r \in OwnParentRows : r.parent = NoId
    BY <1>2, <1>3 DEF OwnParentRows
  <1>5. \A i \in KnownOnes : ChildRow(i).parent # NoId
    <2> SUFFICES ASSUME NEW i \in KnownOnes PROVE ChildRow(i).parent # NoId
      OBVIOUS
    <2>1. ParentOf(i) # NoId
      BY ParentIs DEF KnownOnes
    <2> QED
      BY <2>1 DEF ChildRow, Row
  <1>6. ParentRows = OwnParentRows \cup {PartnerRow(h) : h \in PartnerHeads}
    BY <1>1, <1>2, <1>4, <1>5 DEF ParentRows
  <1>7. ChildRows = {ChildRow(i) : i \in KnownOnes}
    BY <1>1, <1>2, <1>4, <1>5 DEF ChildRows, ParentRows
  <1> QED
    BY <1>1, <1>6, <1>7

\* What the row of a section holds.
LEMMA ChildIs ==
    ASSUME NEW i
    PROVE  /\ ChildRow(i).id = ChildId(i) /\ ChildRow(i).parent = ParentOf(i) /\ ChildRow(i).admin = trip[i].admin
           /\ ChildRow(i).from = trip[i].from /\ ChildRow(i).to = trip[i].to
           /\ ChildRow(i).amount = trip[i].price /\ ChildRow(i).stop = i
  BY DEF ChildRow, Row

\* The conflict check has looked at what is written: nothing moves a window after it.
THEOREM WindowsWereChecked == Spec => []CheckedAsWritten
  <1>1. BookingInv => CheckedAsWritten
    <2> SUFFICES ASSUME BookingInv, pc = "held", NEW c \in ChildRows, c.admin \in Internal
                 PROVE  /\ <<trip[c.stop].section, c.from, c.to>> \in checked
                        /\ \A d \in ChildRows :
                              trip[d.stop].section = trip[c.stop].section /\ c.stop < d.stop
                                  => c.from <= c.to /\ c.to <= d.from
      BY DEF CheckedAsWritten
    <2>1. PICK i \in KnownOnes : c = ChildRow(i)
      BY RowsAre
    <2>2. i \in Indices /\ Known(i) /\ c.stop = i /\ c.from = trip[i].from /\ c.to = trip[i].to
          /\ c.admin = trip[i].admin
      BY <2>1, ChildIs DEF KnownOnes
    <2>3. Ours(i)
      BY <2>2, SidesAre
    <2>4. i \in ToCheck
      BY <2>2, <2>3 DEF ToCheck
    <2>5. <<trip[i].section, trip[i].from, trip[i].to>> \in checked
      BY <2>4 DEF BookingInv, ChecksFit, Windows
    <2>6. ASSUME NEW d \in ChildRows, trip[d.stop].section = trip[i].section, i < d.stop
          PROVE  trip[i].from <= trip[i].to /\ trip[i].to <= d.from
      <3>1. PICK j \in KnownOnes : d = ChildRow(j)
        BY RowsAre
      <3>2. j \in Indices /\ d.stop = j /\ d.from = trip[j].from
        BY <3>1, ChildIs DEF KnownOnes
      <3>3. Followed
        BY DEF BookingInv, Route, Early
      <3> QED
        BY <2>2, <2>3, <2>6, <3>2, <3>3 DEF Followed
    <2> QED
      BY <2>2, <2>5, <2>6
  <1> QED
    BY <1>1, BookingInvAlways, PTL

\* A section is written when its administrator could be found.
LEMMA KnownIsResolvable ==
    ASSUME BookingInv, pc # "resolve", NEW i \in Indices
    PROVE  Known(i) <=> Resolvable(i)
  <1>1. trip[i].admin = ResolvedAdmin(UaslAt(i), homeRead, known)
    BY DEF BookingInv, Whose
  <1>2. AdminOf[UaslAt(i)] # NoAdmin
    BY RouteFacts, BookingAssumption DEF BookingInv, Route
  <1> QED
    BY <1>1, <1>2 DEF Known, Resolvable, ResolvedAdmin

\* A parent row's id names one parent row.
LEMMA OneParent ==
    ASSUME BookingInv, pc = "held", NEW i \in KnownOnes
    PROVE  \E p \in ParentRows : \A q \in ParentRows : q.id = ParentOf(i) <=> q = p
  <1>1. /\ ParentRows = OwnParentRows \cup {PartnerRow(h) : h \in PartnerHeads} /\ KeysDistinct
        /\ IsRoute(trip) /\ i \in Indices /\ Known(i)
    BY RowsAre DEF BookingInv, Route, KnownOnes
  <1>2. \A h : OwnParentRow(h).id = OwnId(h) /\ PartnerRow(h).id = PartnerRowId(h) /\ BaseRow.id = BaseId
    BY DEF OwnParentRow, PartnerRow, BaseRow, Row
  <1>3. \A h \in OwnHeads : h \in Nat /\ h > 0
    BY <1>1, RouteFacts DEF OwnHeads, Heads
  <1>4. \A h \in PartnerHeads : PartnerRowId(h) # BaseId /\ \A k \in OwnHeads : PartnerRowId(h) # OwnId(k)
    <2> SUFFICES ASSUME NEW h \in PartnerHeads
                 PROVE  PartnerRowId(h) # BaseId /\ \A k \in OwnHeads : PartnerRowId(h) # OwnId(k)
      OBVIOUS
    <2>1. PartnerRowId(h) = <<"new", h>> \/ PartnerRowId(h) \notin OurIds
      BY PartnerRowIdIs
    <2>2. BaseId \in OurIds /\ \A k \in OwnHeads : OwnId(k) \in OurIds
      BY <1>3 DEF BaseId, OwnId, OurIds
    <2>3. <<"new", h>> # BaseId /\ \A k \in OwnHeads : <<"new", h>> # OwnId(k)
      BY DEF BaseId, OwnId
    <2> QED
      BY <2>1, <2>2, <2>3
  <1>5. CASE Partner(i)
    <2>1. HeadOf(i) \in PartnerHeads /\ ParentOf(i) = PartnerRowId(HeadOf(i))
      BY <1>1, <1>5, ParentIs
    <2> DEFINE p == PartnerRow(HeadOf(i))
    <2>2. p \in ParentRows
      BY <1>1, <2>1
    <2>3. ASSUME NEW q \in ParentRows, q.id = ParentOf(i)
          PROVE  q = p
      <3>1. CASE q \in OwnParentRows
        BY <1>2, <1>4, <2>1, <2>3, <3>1 DEF OwnParentRows
      <3>2. CASE q \notin OwnParentRows
        <4>1. PICK h \in PartnerHeads : q = PartnerRow(h)
          BY <1>1, <3>2
        <4>2. h = HeadOf(i)
          BY <1>1, <1>2, <2>1, <2>3, <4>1 DEF KeysDistinct
        <4> QED
          BY <4>1, <4>2
      <3> QED
        BY <3>1, <3>2
    <2>4. p.id = ParentOf(i)
      BY <1>2, <2>1
    <2> QED
      BY <2>2, <2>3, <2>4
  <1>6. CASE Ours(i) /\ OwnParents
    <2>1. HeadOf(i) \in OwnHeads /\ ParentOf(i) = OwnId(HeadOf(i))
      BY <1>1, <1>6, ParentIs
    <2> DEFINE p == OwnParentRow(HeadOf(i))
    <2>2. p \in ParentRows
      BY <1>1, <1>6, <2>1 DEF OwnParentRows
    <2>3. ASSUME NEW q \in ParentRows, q.id = ParentOf(i)
          PROVE  q = p
      <3>1. q \in OwnParentRows
        BY <1>1, <1>2, <1>4, <2>1, <2>3
      <3>2. PICK h \in OwnHeads : q = OwnParentRow(h)
        BY <1>6, <3>1 DEF OwnParentRows
      <3>3. h = HeadOf(i)
        BY <1>2, <2>1, <2>3, <3>2 DEF OwnId
      <3> QED
        BY <3>2, <3>3
    <2>4. p.id = ParentOf(i)
      BY <1>2, <2>1
    <2> QED
      BY <2>2, <2>3, <2>4
  <1>7. CASE Ours(i) /\ ~OwnParents
    <2>1. ParentOf(i) = BaseId
      BY <1>1, <1>7, ParentIs
    <2>2. BaseRow \in ParentRows /\ BaseRow.id = ParentOf(i)
      BY <1>1, <1>2, <1>7, <2>1 DEF OwnParentRows
    <2>3. ASSUME NEW q \in ParentRows, q.id = ParentOf(i)
          PROVE  q = BaseRow
      <3>1. q \in OwnParentRows
        BY <1>1, <1>2, <1>4, <2>1, <2>3
      <3> QED
        BY <1>7, <3>1 DEF OwnParentRows
    <2> QED
      BY <2>2, <2>3
  <1> QED
    BY <1>1, <1>5, <1>6, <1>7 DEF Partner

\* A hold that succeeds writes every section whose administrator was found, once, under
\* one parent of its own side: for every route and whatever is read and answered.
THEOREM NoSectionIsLost == Spec => []NothingLost
  <1>1. BookingInv => NothingLost
    <2> SUFFICES ASSUME BookingInv, pc = "held"
                 PROVE  /\ \A i \in Indices :
                              Cardinality({c \in ChildRows : c.stop = i}) = IF Resolvable(i) THEN 1 ELSE 0
                        /\ \A c \in ChildRows : Cardinality({p \in ParentRows : p.id = c.parent}) = 1
                        /\ \A c, d \in ChildRows :
                              c.parent = d.parent => c.admin = d.admin \/ {c.admin, d.admin} \subseteq Internal
      BY DEF NothingLost
    <2>1. ChildRows = {ChildRow(i) : i \in KnownOnes}
      BY RowsAre
    <2>2. ASSUME NEW i \in Indices
          PROVE  Cardinality({c \in ChildRows : c.stop = i}) = IF Resolvable(i) THEN 1 ELSE 0
      <3>1. CASE Known(i)
        <4>1. {c \in ChildRows : c.stop = i} = {ChildRow(i)}
          BY <2>1, <3>1, ChildIs DEF KnownOnes
        <4> QED
          BY <3>1, <4>1, KnownIsResolvable, FS_Singleton
      <3>2. CASE ~Known(i)
        <4>1. {c \in ChildRows : c.stop = i} = {}
          BY <2>1, <3>2, ChildIs DEF KnownOnes
        <4> QED
          BY <3>2, <4>1, KnownIsResolvable, FS_EmptySet
      <3> QED
        BY <3>1, <3>2
    <2>3. ASSUME NEW i \in KnownOnes
          PROVE  Cardinality({p \in ParentRows : p.id = ChildRow(i).parent}) = 1
      <3>1. PICK p \in ParentRows : \A q \in ParentRows : q.id = ParentOf(i) <=> q = p
        BY OneParent
      <3>2. {q \in ParentRows : q.id = ChildRow(i).parent} = {p}
        BY <3>1, ChildIs
      <3> QED
        BY <3>2, FS_Singleton
    <2>4. ASSUME NEW i \in KnownOnes, NEW j \in KnownOnes, ParentOf(i) = ParentOf(j)
          PROVE  trip[i].admin = trip[j].admin \/ {trip[i].admin, trip[j].admin} \subseteq Internal
      <3>1. i \in Indices /\ j \in Indices /\ Known(i) /\ Known(j) /\ KeysDistinct
            /\ IsRoute(trip)
        BY RowsAre DEF KnownOnes, BookingInv, Route
      <3>2. ASSUME NEW k \in KnownOnes, NEW l \in KnownOnes, Partner(k), ~Partner(l)
            PROVE  ParentOf(k) # ParentOf(l)
        <4>1. k \in Indices /\ l \in Indices /\ Known(k) /\ Known(l) /\ Ours(l)
          BY <3>2 DEF KnownOnes, Partner
        <4>2. HeadOf(k) \in PartnerHeads /\ ParentOf(k) = PartnerRowId(HeadOf(k))
          BY <3>2, <4>1, ParentIs
        <4>3. ParentOf(k) = <<"new", HeadOf(k)>> \/ ParentOf(k) \notin OurIds
          BY <4>2, PartnerRowIdIs
        <4>4. HeadOf(l) \in Nat
          BY <3>1, <4>1, HeadIs, HeadOfHead
        <4>5. ParentOf(l) = OwnId(HeadOf(l)) \/ ParentOf(l) = BaseId
          BY <4>1, ParentIs
        <4> QED
          BY <4>3, <4>4, <4>5 DEF OwnId, BaseId, OurIds
      <3>3. CASE Partner(i) /\ Partner(j)
        <4>1. HeadOf(i) = HeadOf(j)
          BY <2>4, <3>1, <3>3, ParentIs DEF KeysDistinct
        <4> QED
          BY <3>1, <3>3, <4>1, HeadIs DEF Partner
      <3>4. CASE ~Partner(i) /\ ~Partner(j)
        BY <3>1, <3>4, SidesAre DEF Partner
      <3> QED
        BY <2>4, <3>2, <3>3, <3>4
    <2> QED
      BY <2>1, <2>2, <2>3, <2>4, ChildIs
  <1> QED
    BY <1>1, BookingInvAlways, PTL
-----------------------------------------------------------------------------
(* Amounts. *)

\* The fees of finitely many sections are a number, as many times a common price as there are
\* sections.
LEMMA FeesAre ==
    ASSUME IsRoute(trip), NEW s \in SUBSET Indices
    PROVE  /\ IsFiniteSet(s) /\ Cardinality(s) \in Nat /\ Fees(s) \in Nat
           /\ \A c \in Nat : (\A i \in s : trip[i].price = c) => Fees(s) = c * Cardinality(s)
  <1> DEFINE f == [i \in s |-> trip[i].price]
  <1>1. IsFiniteSet(s) /\ Cardinality(s) \in Nat
    BY RouteFacts, FS_Subset, FS_CardinalityType
  <1>2. \A i \in s : f[i] \in Nat
    BY RouteFacts
  <1>3. Fees(s) = SumFunctionOnSet(f, s)
    BY DEF Fees, SumFunction
  <1>4. SumFunctionOnSet(f, s) \in Nat
    <2> HIDE DEF f
    <2> QED
      BY <1>1, <1>2, SumOfNats
  <1>5. ASSUME NEW c \in Nat, \A i \in s : trip[i].price = c
        PROVE  SumFunctionOnSet(f, s) = c * Cardinality(s)
    <2>1. \A i \in s : f[i] = c
      BY <1>5
    <2> HIDE DEF f
    <2> QED
      BY <1>1, <2>1, SumOfEquals
  <1> QED
    BY <1>1, <1>3, <1>4, <1>5

\* So is what partners add.
LEMMA ExtrasAre ==
    ASSUME BookingInv
    PROVE  Extras \in Nat /\ Asked \subseteq Admins
  <1>1. IsRoute(trip)
    BY DEF BookingInv, Route
  <1> DEFINE g == [i \in Indices |-> trip[i].admin]
  <1>2. IsFiniteSet({g[i] : i \in Indices})
    <2> HIDE DEF g
    <2> QED
      BY <1>1, RouteFacts, ImageOf
  <1>3. \A e \in Asked : \E i \in Indices : Partner(i) /\ trip[i].admin = e
    BY DEF BookingInv, AnswersFit
  <1>4. Asked \subseteq {g[i] : i \in Indices}
    BY <1>3
  <1>5. extras \subseteq {g[i] : i \in Indices}
    BY <1>4 DEF BookingInv, AnswersFit
  <1>6. Cardinality(extras) \in Nat
    <2> HIDE DEF g
    <2> QED
      BY <1>2, <1>5, FS_Subset, FS_CardinalityType
  <1>7. Extras \in Nat
    BY <1>6, BookingAssumption DEF Extras
  <1>8. Asked \subseteq Admins
    BY <1>1, <1>3, RouteFacts DEF Partner, Known
  <1> QED
    BY <1>7, <1>8

\* And what a booking costs.
LEMMA TotalIs ==
    ASSUME IsRoute(trip)
    PROVE  Total \in Nat
  <1>1. Fees({i \in Indices : Known(i) /\ Ours(i)}) \in Nat /\ Fees({i \in Indices : Partner(i)}) \in Nat
    BY FeesAre
  <1> QED
    BY <1>1, BookingAssumption DEF Total

\* Every record holds what the code can put there, amounts and answers included.
THEOREM BookingIsTyped == Spec => []TypeOK
  <1>1. BookingInv => TypeOK
    <2> SUFFICES ASSUME BookingInv PROVE TypeOK
      OBVIOUS
    <2>1. IsRoute(trip) /\ 1 \in Indices
      BY RouteFacts DEF BookingInv, Route
    <2>2. /\ inter \in BOOLEAN /\ homeRead \in BOOLEAN /\ pc \in Stages
          /\ known \subseteq Uasls /\ own \in {Internal, {}} /\ extras \subseteq Asked
      BY DEF BookingInv, Route, Whose, AnswersFit
    <2>3. \A i \in Indices : trip[i] \in Stops
      BY <2>1 DEF IsRoute, Indices
    <2>4. Asked \subseteq Admins
      BY ExtrasAre
    <2>5. \A e \in Asked : answers[e] \in [DOMAIN answers[e] -> PartnerIds[e] \cup {NoId}]
      <3> SUFFICES ASSUME NEW e \in Asked
                   PROVE  answers[e] \in [DOMAIN answers[e] -> PartnerIds[e] \cup {NoId}]
        OBVIOUS
      <3>1. answers[e] \in AnswersOf(e)
        BY DEF BookingInv, AnswersFit
      <3> QED
        BY <3>1 DEF AnswersOf
    <2>6. checked \subseteq Sections \X Hours \X Hours
      BY DEF BookingInv, ChecksFit
    <2>7. ASSUME NEW r \in rows
          PROVE  r.admin \in Admins \cup {NoAdmin, Away} /\ r.amount \in Nat
      <3>1. pc = "held" /\ r \in Written
        BY DEF BookingInv, RowsFit
      <3>2. \A i \in Indices : trip[i].admin \in Admins \cup {NoAdmin} /\ trip[i].price \in Nat
        BY <2>1, RouteFacts
      <3>3. \A h \in Heads : h \in Indices /\ Fees(Run(h)) \in Nat
        BY <2>1, RunIs, HeadOfHead, FeesAre
      <3>4. CASE \E i \in KnownOnes : r = ChildRow(i)
        BY <3>2, <3>4, ChildIs DEF KnownOnes
      <3>5. CASE \E h \in PartnerHeads : r = PartnerRow(h)
        BY <3>2, <3>3, <3>5 DEF PartnerRow, Row, PartnerHeads
      <3>6. CASE \E h \in OwnHeads : r = OwnParentRow(h)
        <4>1. Total \in Nat
          BY <2>1, TotalIs
        <4> QED
          BY <3>2, <3>3, <3>6, <4>1 DEF OwnParentRow, Row, OwnHeads
      <3>7. CASE r = BaseRow
        <4>1. Total \in Nat /\ Extras \in Nat
          BY <2>1, TotalIs, ExtrasAre
        <4> QED
          BY <2>1, <3>2, <3>7, <4>1 DEF BaseRow, Row, BaseAdmin
      <3> QED
        BY <3>1, <3>4, <3>5, <3>6, <3>7 DEF Written, OwnParentRows, KnownOnes
    <2> QED
      BY <2>2, <2>3, <2>4, <2>5, <2>6, <2>7 DEF TypeOK
  <1> QED
    BY <1>1, BookingInvAlways, PTL

-----------------------------------------------------------------------------
(* The readers.  When the route starts with us, its first section's parent is the *)
(* row that stands for the request.                                              *)

Standing == IF OwnParents THEN OwnParentRow(1) ELSE BaseRow

\* A booking that starts with a section of ours stands under the row of that section's run.
LEMMA StartIs ==
    ASSUME BookingInv, pc = "held", StartsHome
    PROVE  /\ IsRoute(trip) /\ Ascending(trip) /\ 1 \in KnownOnes /\ 1 \in OwnHeads
           /\ HeadOf(1) = 1
           /\ Standing \in ParentRows /\ Standing.id = ParentOf(1)
           /\ ParentsOf({ChildRow(1)}) = {Standing}
  <1>1. IsRoute(trip) /\ Ascending(trip) /\ 1 \in Indices /\ Known(1) /\ Ours(1)
    BY RouteFacts DEF BookingInv, Route, Early, StartsHome
  <1>2. 1 \in Heads
    <2>1. ~\E j \in 1..(1 - 1) : Known(j)
      OBVIOUS
    <2> QED
      BY <1>1, <2>1 DEF Heads, Continues
  <1>3. HeadOf(1) = 1 /\ 1 \in OwnHeads /\ 1 \in KnownOnes
    BY <1>1, <1>2, HeadOfHead DEF OwnHeads, KnownOnes
  <1>4. ParentOf(1) = IF OwnParents THEN OwnId(1) ELSE BaseId
    BY <1>1, <1>3, ParentIs
  <1>5. Standing.id = ParentOf(1)
    BY <1>4 DEF Standing, OwnParentRow, BaseRow, Row
  <1>6. Standing \in ParentRows
    BY <1>3, RowsAre DEF Standing, OwnParentRows
  <1>7. PICK p \in ParentRows : \A q \in ParentRows : q.id = ParentOf(1) <=> q = p
    BY <1>3, OneParent
  <1>8. p = Standing
    BY <1>5, <1>6, <1>7
  <1>9. ParentsOf({ChildRow(1)}) = {Standing}
    BY <1>6, <1>7, <1>8, ChildIs DEF ParentsOf
  <1> QED
    BY <1>1, <1>3, <1>5, <1>6, <1>9

\* Its first child is the first section.
LEMMA FirstIs ==
    ASSUME BookingInv, pc = "held", StartsHome
    PROVE  First(ChildRows) = {ChildRow(1)}
  <1>1. ChildRows = {ChildRow(i) : i \in KnownOnes}
    BY RowsAre
  <1>2. Ascending(trip) /\ IsRoute(trip) /\ 1 \in KnownOnes
    BY StartIs
  <1>3. \A i \in KnownOnes : i \in Indices /\ (i # 1 => trip[1].seq < trip[i].seq) /\ trip[i].seq \in Nat
    <2> SUFFICES ASSUME NEW i \in KnownOnes
                 PROVE  i \in Indices /\ (i # 1 => trip[1].seq < trip[i].seq) /\ trip[i].seq \in Nat
      OBVIOUS
    <2>1. i \in Indices /\ i \in Nat /\ i >= 1 /\ trip[i].seq \in Nat /\ 1 \in Indices
      BY <1>2, RouteFacts DEF KnownOnes
    <2> QED
      BY <1>2, <2>1 DEF Ascending, Indices
  <1>4. ChildRow(1) \in First(ChildRows)
    BY <1>1, <1>2, <1>3, ChildIs DEF First
  <1>5. ASSUME NEW c \in First(ChildRows)
        PROVE  c = ChildRow(1)
    <2>1. PICK i \in KnownOnes : c = ChildRow(i)
      BY <1>1 DEF First
    <2>2. trip[i].seq <= trip[1].seq
      BY <1>1, <1>2, <2>1, ChildIs DEF First
    <2> QED
      BY <1>2, <1>3, <2>1, <2>2
  <1> QED
    BY <1>4, <1>5

\* Everybody but the settlement takes the first section's parent, when it is one they list.
LEMMA FindIs ==
    ASSUME BookingInv, pc = "held", StartsHome
    PROVE  FindShows = {Standing} /\ AdminListShows = {Standing}
  BY FirstIs, StartIs DEF FindShows, AdminListShows, Preferred

\* Where the parents that are not the standing one start.
LEMMA OthersStart ==
    ASSUME BookingInv, pc = "held", StartsHome, NEW q \in ParentRows, q # Standing
    PROVE  \E h \in Indices : h > 1 /\ q.from = trip[h].from
  <1>1. IsRoute(trip)
    BY StartIs
  <1>2. q \in OwnParentRows \/ \E h \in PartnerHeads : q = PartnerRow(h)
    BY RowsAre
  <1>3. ASSUME NEW h \in OwnHeads, q = OwnParentRow(h), OwnParents
        PROVE  \E k \in Indices : k > 1 /\ q.from = trip[k].from
    <2>1. h \in Indices /\ h # 1 /\ h \in Nat /\ h >= 1
      BY <1>1, <1>3, RouteFacts DEF Standing, OwnHeads, Heads
    <2>2. q.from = trip[h].from
      BY <1>3 DEF OwnParentRow, Row
    <2> QED
      BY <2>1, <2>2
  <1>4. ASSUME NEW h \in PartnerHeads, q = PartnerRow(h)
        PROVE  \E k \in Indices : k > 1 /\ q.from = trip[k].from
    <2>1. 1 \in OwnHeads
      BY StartIs
    <2>2. h \in Indices /\ h # 1 /\ h \in Nat /\ h >= 1
      BY <1>1, <2>1, RouteFacts DEF PartnerHeads, Heads
    <2>3. q.from = trip[h].from
      BY <1>4 DEF PartnerRow, Row
    <2> QED
      BY <2>2, <2>3
  <1>5. q \in OwnParentRows => \E h \in OwnHeads : q = OwnParentRow(h) /\ OwnParents
    BY DEF OwnParentRows, Standing
  <1> QED
    BY <1>2, <1>3, <1>4, <1>5

\* And it begins when that section does.
LEMMA StandingStart ==
    ASSUME BookingInv, pc = "held", StartsHome, InTime
    PROVE  Standing.from = trip[1].from
  <1>1. IsRoute(trip) /\ 1 \in Indices
    BY StartIs DEF KnownOnes
  <1>2. CASE OwnParents
    BY <1>2 DEF Standing, OwnParentRow, Row
  <1>3. CASE ~OwnParents
    <2> DEFINE g == [i \in Indices |-> trip[i].from]
               all == {trip[i].from : i \in Indices}
    <2>1. \A i \in Indices : trip[i].from \in Nat /\ trip[1].from <= trip[i].from
      <3> SUFFICES ASSUME NEW i \in Indices
                   PROVE  trip[i].from \in Nat /\ trip[1].from <= trip[i].from
        OBVIOUS
      <3>1. i \in Nat /\ i >= 1 /\ trip[i].from \in Nat /\ trip[1].from \in Nat
        BY <1>1, RouteFacts
      <3>2. CASE i = 1
        BY <3>1, <3>2
      <3>3. CASE i # 1
        BY <1>1, <3>1, <3>3 DEF InTime
      <3> QED
        BY <3>2, <3>3
    <2>2. IsFiniteSet({g[i] : i \in Indices})
      <3> HIDE DEF g
      <3> QED
        BY <1>1, RouteFacts, ImageOf
    <2>3. IsFiniteSet(all) /\ all \subseteq Int /\ all # {} /\ trip[1].from \in all
          /\ \A a \in all : trip[1].from <= a
      <3>1. {g[i] : i \in Indices} = all
        OBVIOUS
      <3>2. \A a \in all : a \in Int /\ trip[1].from <= a
        BY <2>1
      <3>3. trip[1].from \in all
        BY <1>1
      <3> HIDE DEF all, g
      <3> QED
        BY <2>2, <3>1, <3>2, <3>3
    <2>4. Min(all) \in all /\ Min(all) <= trip[1].from
      <3> HIDE DEF all
      <3> QED
        BY <2>3, MinOfFinite
    <2>5. Min(all) = trip[1].from
      <3>1. Min(all) \in Int /\ trip[1].from \in Int /\ trip[1].from <= Min(all)
        <4> HIDE DEF all
        <4> QED
          BY <2>3, <2>4
      <3> HIDE DEF all
      <3> QED
        BY <2>4, <3>1
    <2> QED
      BY <1>3, <2>5 DEF Standing, BaseRow, Row
  <1> QED
    BY <1>2, <1>3

\* The settlement: with a section number 1 its parent; else the earliest in its month.
LEMMA SettledIs ==
    ASSUME BookingInv, pc = "held", StartsHome, trip[1].seq = 1 \/ InTime
    PROVE  SettlesOn(Late(Standing)) = {Standing}
  <1>1. /\ IsRoute(trip) /\ Ascending(trip) /\ 1 \in KnownOnes /\ 1 \in Indices
        /\ ChildRows = {ChildRow(i) : i \in KnownOnes} /\ Standing \in ParentRows
    BY StartIs, RowsAre DEF KnownOnes
  <1>2. Standing \in InMonth(Late(Standing))
    BY <1>1 DEF InMonth, Late
  <1>3. \A i \in Indices : trip[i].seq \in Nat /\ trip[i].seq > 0 /\ (i # 1 => trip[1].seq < trip[i].seq)
    <2> SUFFICES ASSUME NEW i \in Indices
                 PROVE  trip[i].seq \in Nat /\ trip[i].seq > 0 /\ (i # 1 => trip[1].seq < trip[i].seq)
      OBVIOUS
    <2>1. i \in Nat /\ i >= 1 /\ trip[i].seq \in Nat /\ trip[i].seq > 0
      BY <1>1, RouteFacts
    <2> QED
      BY <1>1, <2>1 DEF Ascending, Indices
  <1>4. CASE trip[1].seq = 1
    <2>1. {c \in ChildRows : StartsTrip(c)} = {ChildRow(1)}
      <3>1. \A i \in KnownOnes : trip[i].seq = 1 <=> i = 1
        BY <1>3, <1>4 DEF KnownOnes
      <3> QED
        BY <1>1, <3>1, ChildIs DEF StartsTrip
    <2>2. ParentsOf({ChildRow(1)}) \cap InMonth(Late(Standing)) = {Standing}
      BY <1>2, StartIs
    <2> QED
      BY <2>1, <2>2 DEF SettlesOn, Preferred
  <1>5. CASE trip[1].seq # 1 /\ InTime
    <2>1. {c \in ChildRows : StartsTrip(c)} = {}
      <3>1. \A i \in KnownOnes : trip[i].seq # 1
        BY <1>1, <1>3, <1>5 DEF KnownOnes
      <3> QED
        BY <1>1, <3>1, ChildIs DEF StartsTrip
    <2>2. \A q \in ParentRows : q # Standing => Standing.from < q.from
      <3> SUFFICES ASSUME NEW q \in ParentRows, q # Standing PROVE Standing.from < q.from
        OBVIOUS
      <3>1. PICK h \in Indices : h > 1 /\ q.from = trip[h].from
        BY OthersStart
      <3> QED
        BY <1>1, <1>5, <3>1, StandingStart DEF InTime
    <2>3. Standing.from \in Nat
      BY <1>1, <1>5, StandingStart, RouteFacts
    <2>4. \A q \in ParentRows : q.from \in Nat
      <3> SUFFICES ASSUME NEW q \in ParentRows PROVE q.from \in Nat
        OBVIOUS
      <3> QED
        BY <1>1, <2>3, OthersStart, RouteFacts
    <2>5. Earliest(InMonth(Late(Standing))) = {Standing}
      <3>1. Standing \in Earliest(InMonth(Late(Standing)))
        BY <1>2, <2>2, <2>3, <2>4 DEF Earliest, InMonth
      <3>2. \A q \in Earliest(InMonth(Late(Standing))) : q = Standing
        BY <1>2, <2>2, <2>3, <2>4 DEF Earliest, InMonth
      <3> QED
        BY <3>1, <3>2
    <2>6. ParentsOf({}) = {}
      BY DEF ParentsOf
    <2> QED
      BY <2>1, <2>5, <2>6 DEF SettlesOn, Preferred
  <1> QED
    BY <1>4, <1>5

\* The row of a request without several parents starts when its first window does.
LEMMA BaseStart ==
    ASSUME BookingInv, pc = "held", StartsHome
    PROVE  BaseRow.from \in Nat
  <1> DEFINE g == [i \in Indices |-> trip[i].from]
             all == {trip[i].from : i \in Indices}
  <1>1. IsRoute(trip) /\ 1 \in Indices
    BY StartIs DEF KnownOnes
  <1>2. IsFiniteSet({g[i] : i \in Indices})
    <2> HIDE DEF g
    <2> QED
      BY <1>1, RouteFacts, ImageOf
  <1>3. IsFiniteSet(all) /\ all # {} /\ \A a \in all : a \in Nat
    <2>1. {g[i] : i \in Indices} = all
      OBVIOUS
    <2>2. \A a \in all : a \in Nat
      BY <1>1, RouteFacts
    <2>3. trip[1].from \in all
      BY <1>1
    <2> HIDE DEF all, g
    <2> QED
      BY <1>2, <2>1, <2>2, <2>3
  <1>4. Min(all) \in all
    <2> HIDE DEF all
    <2> QED
      BY <1>3, MinOfFinite
  <1>5. Min(all) \in Nat
    <2> HIDE DEF all
    <2> QED
      BY <1>3, <1>4
  <1> QED
    BY <1>5 DEF BaseRow, Row

\* The first of our own runs is the route's first.
LEMMA OriginIs ==
    ASSUME BookingInv, pc = "held", StartsHome
    PROVE  Origin = 1
  <1>1. /\ IsRoute(trip) /\ 1 \in OwnHeads /\ OwnHeads \subseteq Indices
    BY StartIs DEF OwnHeads, Heads
  <1>2. IsFiniteSet(OwnHeads) /\ OwnHeads \subseteq Int /\ \A h \in OwnHeads : h \in Nat /\ h >= 1
    BY <1>1, RouteFacts, FS_Subset
  <1>3. Min(OwnHeads) \in OwnHeads /\ Min(OwnHeads) <= 1
    BY <1>1, <1>2, MinOfFinite
  <1>4. Min(OwnHeads) \in Nat /\ Min(OwnHeads) >= 1
    BY <1>2, <1>3
  <1>5. Min(OwnHeads) = 1
    BY <1>3, <1>4
  <1> QED
    BY <1>5 DEF Origin

\* There are finitely many parent rows.
LEMMA ParentsAreFinite ==
    ASSUME BookingInv, pc = "held"
    PROVE  IsFiniteSet(ParentRows)
  <1> DEFINE f == [h \in OwnHeads |-> OwnParentRow(h)]
             g == [h \in PartnerHeads |-> PartnerRow(h)]
  <1>1. IsFiniteSet(OwnHeads) /\ IsFiniteSet(PartnerHeads)
    <2>1. OwnHeads \subseteq Indices /\ PartnerHeads \subseteq Indices
      BY DEF OwnHeads, PartnerHeads, Heads
    <2> QED
      BY <2>1, RouteFacts, FS_Subset DEF BookingInv, Route
  <1>2. IsFiniteSet({f[h] : h \in OwnHeads}) /\ IsFiniteSet({g[h] : h \in PartnerHeads})
    <2> HIDE DEF f, g
    <2> QED
      BY <1>1, ImageOf
  <1>3. {f[h] : h \in OwnHeads} = {OwnParentRow(h) : h \in OwnHeads}
        /\ {g[h] : h \in PartnerHeads} = {PartnerRow(h) : h \in PartnerHeads}
    OBVIOUS
  <1> HIDE DEF f, g
  <1>4. IsFiniteSet(OwnParentRows)
    BY <1>2, <1>3, FS_Singleton DEF OwnParentRows
  <1>5. ParentRows = OwnParentRows \cup {PartnerRow(h) : h \in PartnerHeads}
    BY RowsAre
  <1>6. IsFiniteSet({PartnerRow(h) : h \in PartnerHeads})
    BY <1>2, <1>3
  <1> QED
    BY <1>4, <1>5, <1>6, FS_Union

\* A set of one row has no other.
LEMMA OnlyOne ==
    ASSUME NEW s, Cardinality(s) = 1, IsFiniteSet(s), NEW x \in s
    PROVE  s = {x}
  <1>1. {x} \in SUBSET s /\ Cardinality({x}) = 1
    BY FS_Singleton
  <1> QED
    BY <1>1, FS_Subset

\* Find, the lists and the settlement take the same row for a request whose route starts
\* with us, and so does the search while there is no other parent: for every route,
\* however its runs lie.
THEOREM AllReadTheSame == Spec => []ReadersAgree
  <1>1. BookingInv => ReadersAgree
    <2> SUFFICES ASSUME BookingInv, pc = "held", StartsHome
                 PROVE  /\ Cardinality(FindShows) = 1
                        /\ AdminListShows = FindShows /\ (~inter => ListShows = FindShows)
                        /\ trip[1].seq = 1 \/ InTime => \A p \in FindShows : SettlesOn(Late(p)) = FindShows
                        /\ Cardinality(ParentRows) = 1 => SearchShows = FindShows
      BY DEF ReadersAgree
    <2>1. FindShows = {Standing} /\ AdminListShows = {Standing}
      BY FindIs
    <2>2. Cardinality(FindShows) = 1
      BY <2>1, FS_Singleton
    <2>3. ASSUME ~inter
          PROVE  ListShows = {Standing}
      <3>1. trip[1].admin \in Internal
        BY DEF StartsHome, Ours, BookingInv, Route
      <3>2. Standing.admin = trip[1].admin
        BY <2>3 DEF Standing, OwnParentRow, BaseRow, BaseAdmin, Row
      <3>3. Standing \in Listed
        BY <3>1, <3>2, StartIs DEF Listed
      <3>4. ParentsOf(First(ChildRows)) \cap Listed = {Standing}
        BY <3>3, FirstIs, StartIs
      <3> QED
        BY <3>4 DEF ListShows, Preferred
    <2>4. trip[1].seq = 1 \/ InTime => \A p \in FindShows : SettlesOn(Late(p)) = FindShows
      BY <2>1, SettledIs
    <2>5. ASSUME Cardinality(ParentRows) = 1
          PROVE  SearchShows = {Standing}
      <3>1. ParentRows = {Standing}
        BY <2>5, StartIs, ParentsAreFinite, OnlyOne
      <3>2. Standing.from \in Nat
        <4>1. \A i \in Indices : trip[i].from \in Nat
          BY StartIs, RouteFacts
        <4>2. 1 \in Indices
          BY StartIs DEF KnownOnes
        <4>3. CASE OwnParents
          BY <4>1, <4>2, <4>3 DEF Standing, OwnParentRow, Row
        <4>4. CASE ~OwnParents
          BY <4>4, BaseStart DEF Standing
        <4> QED
          BY <4>3, <4>4
      <3> QED
        BY <3>1, <3>2 DEF SearchShows, Latest
    <2> QED
      BY <2>1, <2>2, <2>3, <2>4, <2>5
  <1> QED
    BY <1>1, BookingInvAlways, PTL

\* The row that stands for a request made to us costs its sections at their fees, aircraft
\* and ports, and a month its parents do not straddle has no second row that is charged.
THEOREM ChargedOnceAndInFull == Spec => []ChargedOnce
  <1>1. BookingInv => ChargedOnce
    <2> SUFFICES ASSUME BookingInv, pc = "held", ~inter, StartsHome, trip[1].seq = 1
                 PROVE  \A p \in FindShows :
                           /\ p.amount = Cost - (IF ForgetsExtras THEN Extras ELSE 0)
                           /\ \A late \in BOOLEAN : SettlesOn(late) # {} =>
                                 p \in SettlesOn(late) \/ \E q \in ParentRows : Late(q) # Late(p)
      BY DEF ChargedOnce
    <2>1. FindShows = {Standing} /\ SettlesOn(Late(Standing)) = {Standing} /\ IsRoute(trip)
      BY FindIs, SettledIs, StartIs
    <2> DEFINE ours == {i \in Indices : Known(i) /\ Ours(i)}
               theirs == {i \in Indices : Partner(i)}
    <2>2. /\ Cardinality({c \in ChildRows : c.admin \in Internal}) = Cardinality(ours)
          /\ Cardinality({c \in ChildRows : c.admin \notin Internal}) = Cardinality(theirs)
      <3>1. /\ {c \in ChildRows : c.admin \in Internal} = {ChildRow(i) : i \in ours}
            /\ {c \in ChildRows : c.admin \notin Internal} = {ChildRow(i) : i \in theirs}
        <4>1. \A i \in KnownOnes : (i \in ours <=> trip[i].admin \in Internal)
                                   /\ (i \in theirs <=> trip[i].admin \notin Internal)
          BY SidesAre DEF KnownOnes, Partner
        <4>2. ours \subseteq KnownOnes /\ theirs \subseteq KnownOnes
          BY DEF KnownOnes, Partner
        <4> HIDE DEF ours, theirs
        <4> QED
          BY <4>1, <4>2, RowsAre, ChildIs
      <3>2. IsFiniteSet(ours) /\ IsFiniteSet(theirs)
        <4>1. ours \subseteq Indices /\ theirs \subseteq Indices
          OBVIOUS
        <4> HIDE DEF ours, theirs
        <4> QED
          BY <2>1, <4>1, FeesAre
      <3> HIDE DEF ours, theirs
      <3>3. ASSUME NEW s, IsFiniteSet(s)
            PROVE  Cardinality({ChildRow(i) : i \in s}) = Cardinality(s)
        <4> DEFINE g == [i \in s |-> ChildRow(i)]
        <4>1. \A i, j \in s : g[i] = g[j] => i = j
          <5> SUFFICES ASSUME NEW i \in s, NEW j \in s, ChildRow(i) = ChildRow(j) PROVE i = j
            OBVIOUS
          <5>1. ChildRow(i).stop = i /\ ChildRow(j).stop = j
            BY ChildIs
          <5> QED
            BY <5>1
        <4>2. {g[i] : i \in s} = {ChildRow(i) : i \in s}
          OBVIOUS
        <4>3. Cardinality({g[i] : i \in s}) = Cardinality(s)
          <5> HIDE DEF g
          <5> QED
            BY <3>3, <4>1, ImageOf
        <4> QED
          BY <4>2, <4>3
      <3> QED
        BY <3>1, <3>2, <3>3
    <2>3. /\ Fees(ours) = OwnFee * Cardinality(ours) /\ Fees(theirs) = PartnerFee * Cardinality(theirs)
          /\ Fees(ours) \in Nat /\ Fees(theirs) \in Nat
      <3>1. /\ ours \subseteq Indices /\ theirs \subseteq Indices
            /\ \A i \in ours : trip[i].price = OwnFee
        BY DEF BookingInv, PricesFit
      <3>2. \A i \in theirs : trip[i].price = PartnerFee
        <4> SUFFICES ASSUME NEW i \in Indices, Partner(i) PROVE trip[i].price = PartnerFee
          OBVIOUS
        <4>1. trip[i].admin \in Asked
          BY SidesAre DEF Partner
        <4> QED
          BY <4>1 DEF BookingInv, PricesFit
      <3>3. OwnFee \in Nat /\ PartnerFee \in Nat
        BY BookingAssumption
      <3> HIDE DEF ours, theirs
      <3> QED
        BY <2>1, <3>1, <3>2, <3>3, FeesAre
    <2>4. Total = Fees(ours) + OwnExtra + Fees(theirs)
      BY DEF Total
    <2>5. Cost = Fees(ours) + Fees(theirs) + OwnExtra + Extras
      <3> HIDE DEF ours, theirs
      <3> QED
        BY <2>2, <2>3 DEF Cost
    <2>6. Extras \in Nat /\ OwnExtra \in Nat
      BY ExtrasAre, BookingAssumption
    <2> HIDE DEF ours, theirs
    <2>7. Standing.amount = Cost - (IF ForgetsExtras THEN Extras ELSE 0)
      <3>1. CASE OwnParents
        <4>1. Origin = 1
          BY OriginIs
        <4>2. Standing.amount = Total
          BY <3>1, <4>1 DEF Standing, OwnParentRow, Row
        <4> QED
          BY <2>3, <2>4, <2>5, <2>6, <3>1, <4>2 DEF ForgetsExtras
      <3>2. CASE ~OwnParents
        <4>1. Standing.amount = Total + Extras
          BY <3>2 DEF Standing, BaseRow, Row
        <4> QED
          BY <2>3, <2>4, <2>5, <2>6, <3>2, <4>1 DEF ForgetsExtras
      <3> QED
        BY <3>1, <3>2
    <2>8. ASSUME NEW late \in BOOLEAN, SettlesOn(late) # {}, Standing \notin SettlesOn(late)
          PROVE  \E q \in ParentRows : Late(q) # Late(Standing)
      <3>1. late # Late(Standing)
        BY <2>1, <2>8
      <3>2. SettlesOn(late) \subseteq InMonth(late)
        BY DEF SettlesOn, Preferred, Earliest
      <3>3. PICK q \in InMonth(late) : TRUE
        BY <2>8, <3>2
      <3>4. q \in ParentRows /\ Late(q) = late
        BY <3>3 DEF InMonth, Late
      <3> QED
        BY <3>1, <3>4
    <2> QED
      BY <2>1, <2>7, <2>8
  <1> QED
    BY <1>1, BookingInvAlways, PTL
=============================================================================
