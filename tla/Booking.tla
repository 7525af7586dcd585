------------------------------ MODULE Booking ------------------------------
(***************************************************************************)
(* What a hold writes.  A booking request is a route: sections in a sequence, *)
(* each with its window, some of our own and some of other administrators.    *)
(* TryHoldCompositeUasl resolves whose each section is, asks every other       *)
(* administrator to hold its part, checks and prices our own part, and cuts     *)
(* the route into runs of consecutive sections, each under a parent row of its  *)
(* own.  Four readers then find the parent that stands for the request again,   *)
(* each in its own way, and the settlement charges that parent's amount.        *)
(*                                                                         *)
(* Hold.tla has the order of the calls, what fails between them and what is     *)
(* undone; here one action is one stage of a single hold.                       *)
(***************************************************************************)
EXTENDS Integers, Sequences, FiniteSetsExt

CONSTANTS
    Sections,    \* sections of the air ways
    UaslOf,      \* UaslOf[s]: the air way section s belongs to
    AdminOf,     \* AdminOf[u]: the administrator of air way u
    Internal,    \* administrators whose row says is_internal
    Away,        \* the administrator that sends us requests over the interconnection
    Hours,       \* instants
    MonthEnd,    \* the instant at which a month ends
    Requests,    \* routes as clients send them, in the order of the array
    PartnerIds,  \* PartnerIds[e]: reservation ids administrator e makes
    OwnFee, PartnerFee,   \* what a section costs, ours and another administrator's
    OwnExtra, PartnerExtra, \* what aircraft and ports cost, ours and at a partner
    NoAdmin, NoId

Uasls  == {UaslOf[s] : s \in Sections}
Admins == {AdminOf[u] : u \in Uasls}

Stops == [section : Sections, seq : Nat, from : Hours, to : Hours,
          admin : Admins \cup {NoAdmin}, price : Nat]

\* Ids are UUIDs: nobody makes one that another has made.
OurIds == {"own", "new", "child"} \X Nat

ASSUME BookingAssumption ==
    /\ DOMAIN UaslOf = Sections /\ DOMAIN AdminOf = Uasls
    /\ Hours \subseteq Nat /\ (\A a, b \in Hours : a..b \subseteq Hours) /\ MonthEnd \in Nat
    /\ {OwnFee, PartnerFee, OwnExtra, PartnerExtra} \subseteq Nat
    /\ NoAdmin \notin Admins \cup Internal /\ Away \notin Internal \cup {NoAdmin}
    /\ DOMAIN PartnerIds = Admins /\ NoId \notin OurIds
    /\ \A e \in Admins : NoId \notin PartnerIds[e] /\ PartnerIds[e] \cap OurIds = {}
    /\ \A e, f \in Admins : PartnerIds[e] \cap PartnerIds[f] # {} => e = f
    /\ \A r \in Requests :
          /\ Len(r) \in Nat \ {0} /\ DOMAIN r = 1..Len(r)
          /\ \A i \in DOMAIN r :
                /\ r[i] \in Stops /\ r[i].from < r[i].to /\ r[i].seq > 0
                /\ r[i].admin = NoAdmin /\ r[i].price = 0
          /\ \A i, j \in DOMAIN r : r[i].seq = r[j].seq => i = j

VARIABLES
    inter,     \* the request came over the interconnection
    trip,      \* the children: the route with what is known of each section
    known,     \* other administrators' air ways that could be resolved
    homeRead,  \* our own administrators could be read a second time
    own,       \* administrators taken for internal ones
    pc,        \* stage of the hold
    answers,   \* answers[e]: reservation ids partner e answered, by air way
    extras,    \* partners that answered an aircraft or a port with a price
    checked,   \* windows the conflict check looked at
    rows       \* rows of uasl_reservations

vars == <<inter, trip, known, homeRead, own, pc, answers, extras, checked, rows>>

Stages == {"resolve", "classify", "ask", "check", "price", "write", "held", "failed"}

Init ==
    /\ inter \in BOOLEAN /\ trip \in Requests
    /\ known = {} /\ homeRead = TRUE /\ own = {} /\ pc = "resolve"
    /\ answers = << >> /\ extras = {} /\ checked = {} /\ rows = {}

Indices == DOMAIN trip
UaslAt(i) == UaslOf[trip[i].section]
Known(i) == trip[i].admin # NoAdmin
Ours(i) == trip[i].admin \in own
Partner(i) == Known(i) /\ ~Ours(i)

-----------------------------------------------------------------------------
(* Whose is each section?  Our own administrators are read twice: the first   *)
(* read classifies, and fails the hold when it fails; the second fills in the  *)
(* administrator, and is only logged when it fails.  Other administrators are  *)
(* looked for unless the request came over the interconnection.                *)

ResolvedAdmin(u, home, found) ==
    IF (AdminOf[u] \in Internal /\ home) \/ u \in found THEN AdminOf[u] ELSE NoAdmin

Resolve ==
    /\ pc = "resolve"
    /\ homeRead' \in BOOLEAN
    /\ known' \in SUBSET {u \in Uasls : AdminOf[u] \notin Internal /\ ~inter
                                        /\ \E i \in Indices : UaslAt(i) = u}
    /\ trip' = [i \in Indices |->
                  [trip[i] EXCEPT !.admin = ResolvedAdmin(UaslAt(i), homeRead', known')]]
    /\ pc' = "classify"
    /\ UNCHANGED <<inter, own, answers, extras, checked, rows>>

-----------------------------------------------------------------------------
(* classifyAndOrganize sorts the children and reads their administrators once  *)
(* more; SplitDuplicateSectionTimes shares the window of one of our sections    *)
(* among its several passes.                                                    *)

Rank(t, i) == Cardinality({j \in DOMAIN t : t[j].seq <= t[i].seq})
Sorted(t) == [n \in DOMAIN t |-> t[CHOOSE i \in DOMAIN t : Rank(t, i) = n]]

SplitTimes(t, o) ==
    LET Passes(i) == {j \in DOMAIN t : t[j].section = t[i].section}
        Base(i)   == t[Min(Passes(i))]
        Slot(i)   == (Base(i).to - Base(i).from) \div Cardinality(Passes(i))
        Turn(i)   == Cardinality({j \in Passes(i) : j < i})
    IN [i \in DOMAIN t |->
          IF t[i].admin \notin o \/ Passes(i) = {i} THEN t[i]
          ELSE [t[i] EXCEPT !.from = Base(i).from + Slot(i) * Turn(i),
                            !.to = IF i = Max(Passes(i)) THEN Base(i).to
                                   ELSE Base(i).from + Slot(i) * (Turn(i) + 1)]]

\* When the administrators cannot be read, nobody is taken for an internal one.
Classify ==
    /\ pc = "classify"
    /\ own' \in {Internal, {}}
    /\ trip' = SplitTimes(Sorted(trip), own')
    /\ pc' = "ask"
    /\ UNCHANGED <<inter, known, homeRead, answers, extras, checked, rows>>

-----------------------------------------------------------------------------
(* ReserveExternalUasl, for one administrator after the other, in the order    *)
(* of their first sections.  What they answer prices their sections.           *)

Asked == DOMAIN answers
ToAsk == {i \in Indices : Partner(i) /\ trip[i].admin \notin Asked}
NextPartner == trip[Min(ToAsk)].admin
AnswersOf(e) ==
    [{u \in Uasls : \E i \in Indices : UaslAt(i) = u /\ trip[i].admin = e}
        -> PartnerIds[e] \cup {NoId}]

\* We have no address for an administrator of our own.
AskPartner ==
    /\ pc = "ask" /\ ToAsk # {} /\ NextPartner \notin Internal
    /\ \E a \in AnswersOf(NextPartner) :
          answers' = [e \in Asked \cup {NextPartner} |->
                        IF e \in Asked THEN answers[e] ELSE a]
    /\ extras' \in {extras, extras \cup {NextPartner}}
    /\ trip' = [i \in Indices |-> IF trip[i].admin = NextPartner
                                  THEN [trip[i] EXCEPT !.price = PartnerFee] ELSE trip[i]]
    /\ UNCHANGED <<inter, known, homeRead, own, pc, checked, rows>>

\* Mutated: the partner's aircraft and ports are counted before it has answered.
AskFails_Counted ==
    /\ pc = "ask" /\ ToAsk # {}
    /\ pc' = "failed" /\ extras' = extras \cup {NextPartner}
    /\ UNCHANGED <<inter, trip, known, homeRead, own, answers, checked, rows>>
AskFails ==
    /\ pc = "ask" /\ ToAsk # {}
    /\ pc' = "failed"
    /\ UNCHANGED <<inter, trip, known, homeRead, own, answers, extras, checked, rows>>

AllAsked ==
    /\ pc = "ask" /\ ToAsk = {}
    /\ pc' = "check"
    /\ UNCHANGED <<inter, trip, known, homeRead, own, answers, extras, checked, rows>>

-----------------------------------------------------------------------------
(* The conflict check looks at our own sections; at all of them when no        *)
(* section has an administrator.  Then our own sections are priced.            *)

\* Mutated: one window for each section.
ToCheck_OncePerSection ==
    {i \in Indices : Known(i) /\ Ours(i) /\ \A j \in 1..(i - 1) : trip[j].section # trip[i].section}
ToCheck == IF \E i \in Indices : Known(i) THEN {i \in Indices : Known(i) /\ Ours(i)} ELSE Indices

Check ==
    /\ pc = "check"
    /\ \/ /\ checked' = {<<trip[i].section, trip[i].from, trip[i].to>> : i \in ToCheck}
          /\ pc' = "price"
       \/ pc' = "failed" /\ UNCHANGED checked
    /\ UNCHANGED <<inter, trip, known, homeRead, own, answers, extras, rows>>

Price ==
    /\ pc = "price"
    /\ \/ /\ trip' = [i \in Indices |-> IF Ours(i) THEN [trip[i] EXCEPT !.price = OwnFee]
                                        ELSE trip[i]]
          /\ pc' = "write"
       \/ pc' = "failed" /\ UNCHANGED trip
    /\ UNCHANGED <<inter, known, homeRead, own, answers, extras, checked, rows>>

-----------------------------------------------------------------------------
(* DetectInternalUaslGroups and DetectExternalUaslGroups: a run is a stretch   *)
(* of the route, without a gap in the sequence, on one side of the border (on   *)
(* the other side: of one administrator).  A section without an administrator   *)
(* is passed over and does not end a run.                                       *)

Last(i) == Max({j \in 1..(i - 1) : Known(j)})
\* Mutated: a run goes on across the border.
Continues_Across(i) ==
    /\ \E j \in 1..(i - 1) : Known(j)
    /\ Ours(i) \/ trip[i].admin = trip[Last(i)].admin
    /\ trip[i].seq = trip[Last(i)].seq + 1
\* Mutated: a run of another administrator ends with the air way.
Continues_SameUasl(i) ==
    /\ \E j \in 1..(i - 1) : Known(j)
    /\ Ours(i) = Ours(Last(i))
    /\ Ours(i) \/ UaslAt(i) = UaslAt(Last(i))
    /\ trip[i].seq = trip[Last(i)].seq + 1
Continues(i) ==
    /\ \E j \in 1..(i - 1) : Known(j)
    /\ Ours(i) = Ours(Last(i))
    /\ Ours(i) \/ trip[i].admin = trip[Last(i)].admin
    /\ trip[i].seq = trip[Last(i)].seq + 1

Heads == {i \in Indices : Known(i) /\ ~Continues(i)}
OwnHeads == {i \in Heads : Ours(i)}
PartnerHeads == Heads \ OwnHeads
HeadOf(i) == Max({h \in Heads : h <= i})
Run(h) == {i \in Indices : Known(i) /\ HeadOf(i) = h}
RunEnd(h) == Max(Run(h))

-----------------------------------------------------------------------------
(* Amounts.  The total is what the client is told; a parent of a run has the    *)
(* sum of its sections, the first run of our own the total once there are       *)
(* several.                                                                     *)

Fees(s) == SumFunction([i \in s |-> trip[i].price])
Extras == PartnerExtra * Cardinality(extras)
Total == Fees({i \in Indices : Known(i) /\ Ours(i)}) + OwnExtra
         + (IF inter THEN 0 ELSE Fees({i \in Indices : Partner(i)}))

\* Re-entry: our own sections make several runs, or somebody else has the request.
OwnParents == OwnHeads # {} /\ (inter \/ Cardinality(OwnHeads) > 1)
Origin == Min(OwnHeads)

-----------------------------------------------------------------------------
(* The rows.  BuildParentReservationsForGroups, ...ForExternalGroups and        *)
(* ToReservationsForBatchInsert; a parent has no parent of its own.             *)

OwnId(h) == <<"own", h>>
BaseId == <<"own", 0>>
ChildId(i) == <<"child", i>>
\* A partner's reservation id becomes the id of our row for its run.
PartnerRowId(h) ==
    LET id == answers[trip[h].admin][UaslAt(h)] IN IF id = NoId THEN <<"new", h>> ELSE id

Row(id, parent, admin, from, to, amount, stop) ==
    [id |-> id, parent |-> parent, admin |-> admin, from |-> from, to |-> to,
     amount |-> amount, stop |-> stop]

\* FillParentOriginFromChildren: the first section's administrator, unless one was given.
BaseAdmin == IF inter THEN Away ELSE trip[1].admin
BaseRow == Row(BaseId, NoId, BaseAdmin, Min({trip[i].from : i \in Indices}),
               Max({trip[i].to : i \in Indices}), Total + (IF inter THEN 0 ELSE Extras), 0)

\* Mutated: the first run keeps the sum of its own sections.
OwnParentRow_NoTotal(h) ==
    Row(OwnId(h), NoId, IF inter THEN Away ELSE trip[h].admin, trip[h].from,
        trip[RunEnd(h)].to, Fees(Run(h)), 0)
OwnParentRow(h) ==
    Row(OwnId(h), NoId, IF inter THEN Away ELSE trip[h].admin, trip[h].from,
        trip[RunEnd(h)].to, IF ~inter /\ h = Origin THEN Total ELSE Fees(Run(h)), 0)
PartnerRow(h) ==
    Row(PartnerRowId(h), NoId, trip[h].admin, trip[h].from, trip[RunEnd(h)].to,
        Fees(Run(h)), 0)

ParentOf(i) ==
    IF Partner(i) THEN PartnerRowId(HeadOf(i))
    ELSE IF OwnParents THEN OwnId(HeadOf(i)) ELSE BaseId
ChildRow(i) ==
    Row(ChildId(i), ParentOf(i), trip[i].admin, trip[i].from, trip[i].to, trip[i].price, i)

OwnParentRows == IF OwnParents THEN {OwnParentRow(h) : h \in OwnHeads} ELSE {BaseRow}

\* The id column is the primary key, and the batch goes in as one statement.
KeysDistinct == \A h, k \in PartnerHeads : PartnerRowId(h) = PartnerRowId(k) => h = k

Write ==
    /\ pc = "write"
    /\ \/ /\ KeysDistinct
          /\ rows' = OwnParentRows \cup {PartnerRow(h) : h \in PartnerHeads}
                     \cup {ChildRow(i) : i \in {i \in Indices : Known(i)}}
          /\ pc' = "held"
       \/ pc' = "failed" /\ UNCHANGED rows
    /\ UNCHANGED <<inter, trip, known, homeRead, own, answers, extras, checked>>

-----------------------------------------------------------------------------
Done == pc \in {"held", "failed"} /\ UNCHANGED vars

Next ==
    \/ Resolve \/ Classify \/ AskPartner \/ AskFails \/ AllAsked
    \/ Check \/ Price \/ Write
    \/ Done

Spec == Init /\ [][Next]_vars

-----------------------------------------------------------------------------
(* The readers.  Rows come ordered by sequence, parents first, and by start.   *)

ParentRows == {r \in rows : r.parent = NoId}
ChildRows == rows \ ParentRows
Earliest(s) == {p \in s : \A q \in s : p.from <= q.from}
Latest(s) == {p \in s : \A q \in s : p.from >= q.from}
First(s) == {c \in s : \A d \in s : trip[c.stop].seq <= trip[d.stop].seq}
ParentsOf(s) == {p \in ParentRows : \E c \in s : c.parent = p.id}
Preferred(s, t) == IF s # {} THEN s ELSE t

\* FindByRequestID: the parent of the first section, else the earliest.
FindShows == Preferred(ParentsOf(First(ChildRows)), Earliest(ParentRows))

\* ListByOperator: the same among the parents under an internal administrator.
Listed == {p \in ParentRows : p.admin \in Internal}
\* Mutated: the parent that starts first.
ListShows_Earliest == Earliest(Listed)
ListShows ==
    Preferred(ParentsOf(First(ChildRows)) \cap Listed,
              Preferred(ParentsOf(Earliest({c \in ChildRows : \E p \in Listed : c.parent = p.id})) \cap Listed,
                        Earliest(Listed)))

\* ListAdmin: the same among all of them.
AdminListShows ==
    Preferred(ParentsOf(First(ChildRows)),
              Preferred(ParentsOf(Earliest(ChildRows)), Earliest(ParentRows)))

\* ListByRequestIDs keeps the last parent it meets.
SearchShows == Latest(ParentRows)

\* The settlement of a month: the parent of the section with sequence 1, else the
\* earliest, among the parents that start in the month.
InMonth(late) == {p \in ParentRows : (p.from >= MonthEnd) = late}
StartsTrip(c) == trip[c.stop].seq = 1
SettlesOn(late) ==
    Preferred(ParentsOf({c \in ChildRows : StartsTrip(c)}) \cap InMonth(late),
              Earliest(InMonth(late)))

-----------------------------------------------------------------------------
(* Properties. *)

\* Every record holds what the code can put there; a partner's answer names only air
\* ways it was asked for.
TypeOK ==
    /\ inter \in BOOLEAN /\ homeRead \in BOOLEAN /\ pc \in Stages
    /\ known \subseteq Uasls /\ own \in {Internal, {}} /\ extras \subseteq Asked
    /\ \A i \in Indices : trip[i] \in Stops
    /\ Asked \subseteq Admins
    /\ \A e \in Asked : answers[e] \in [DOMAIN answers[e] -> PartnerIds[e] \cup {NoId}]
    /\ checked \subseteq Sections \X Hours \X Hours
    /\ \A r \in rows : r.admin \in Admins \cup {NoAdmin, Away} /\ r.amount \in Nat

Resolvable(i) == (AdminOf[UaslAt(i)] \in Internal /\ homeRead) \/ UaslAt(i) \in known
\* A hold that succeeds wrote every section once, under a parent row of its own request,
\* and no parent has sections of two sides of a border; only a section whose
\* administrator was not found is left out.
NothingLost ==
    pc = "held" =>
        /\ \A i \in Indices :
              Cardinality({c \in ChildRows : c.stop = i}) = IF Resolvable(i) THEN 1 ELSE 0
        /\ \A c \in ChildRows : Cardinality({p \in ParentRows : p.id = c.parent}) = 1
        /\ \A c, d \in ChildRows :
              c.parent = d.parent => c.admin = d.admin \/ {c.admin, d.admin} \subseteq Internal

\* The windows the conflict check looked at are those that are written for our own
\* sections, and several passes of one section follow each other without overlap.
CheckedAsWritten ==
    pc = "held" =>
        \A c \in ChildRows : c.admin \in Internal =>
            /\ <<trip[c.stop].section, c.from, c.to>> \in checked
            /\ \A d \in ChildRows :
                  trip[d.stop].section = trip[c.stop].section /\ c.stop < d.stop
                      => c.from <= c.to /\ c.to <= d.from

StartsHome == Known(1) /\ Ours(1)
InTime == \A i, j \in Indices : i < j => trip[i].from < trip[j].from
Late(p) == p.from >= MonthEnd

\* When the route starts with us, everybody takes the same row for the request: find,
\* list and the settlement of its month; search as well, while there is no other parent.
ReadersAgree ==
    pc = "held" /\ StartsHome =>
        /\ Cardinality(FindShows) = 1
        /\ AdminListShows = FindShows /\ (~inter => ListShows = FindShows)
        /\ trip[1].seq = 1 \/ InTime => \A p \in FindShows : SettlesOn(Late(p)) = FindShows
        /\ Cardinality(ParentRows) = 1 => SearchShows = FindShows

\* What was agreed to be paid: every section, and the aircraft and ports.
Cost == OwnFee * Cardinality({c \in ChildRows : c.admin \in Internal})
        + PartnerFee * Cardinality({c \in ChildRows : c.admin \notin Internal})
        + OwnExtra + Extras
\* Two runs of our own: the first parent gets a total without the partners' aircraft
\* and ports.
ForgetsExtras == OwnParents

\* A request made to us whose route starts with us is settled once, on the row that
\* stands for it and at what was agreed; a month its parents do not straddle has no
\* second row that is charged.
ChargedOnce ==
    pc = "held" /\ ~inter /\ StartsHome /\ trip[1].seq = 1 =>
        \A p \in FindShows :
            /\ p.amount = Cost - (IF ForgetsExtras THEN Extras ELSE 0)
            /\ \A late \in BOOLEAN : SettlesOn(late) # {} =>
                  p \in SettlesOn(late) \/ \E q \in ParentRows : Late(q) # Late(p)

\* The route leaves administrator e (or a section whose administrator was not found lies
\* between) and comes back, or skips a number meanwhile.
Reentered(e) ==
    \E i, j \in Indices :
        /\ i < j /\ trip[i].admin = e /\ trip[j].admin = e
        /\ \/ \E k \in i..j : trip[k].admin # e
           \/ \E k \in i..(j - 1) : trip[k + 1].seq # trip[k].seq + 1

\* The rows can always be inserted, but for routes that come back to an administrator
\* who answered one reservation id for both visits.
InsertableUnlessReentered ==
    pc = "write" /\ ~KeysDistinct => \E e \in Asked : Reentered(e)
=============================================================================
