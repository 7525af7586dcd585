------------------------------- MODULE Quote -------------------------------
(***************************************************************************)
(* What a booking request costs, and whether its aircraft and ports are free.  *)
(* A hold asks the vendors about every window at the same time                  *)
(* (CheckCompositeResourcesAvailability); the first that finds something stops    *)
(* the others.  Then it fetches the prices, again all at the same time and with   *)
(* retries (CalculateResourcePrices), and prices its own sections from the rules  *)
(* of their definitions (CalculateInternalSectionPrices).  EstimateUaslReservation *)
(* prices the same request from the tables alone.                               *)
(*                                                                         *)
(* A day has Day minutes and windows lie on whole minutes of one time zone.       *)
(***************************************************************************)
EXTENDS Integers, Sequences, FiniteSetsExt

CONSTANTS
    Aircraft, Docks,  \* aircraft and ports
    InTable,           \* those of them that are in our table of resources
    Tariffs,          \* Tariffs[x]: the price rules of aircraft or port x
    PriceInfo,        \* PriceInfo[s]: the price rules of section s, if it has a definition
    Orders,           \* what requests ask for
    Day,              \* minutes of a day
    MaxAttempts,      \* DefaultMaxAttempts
    Ever              \* a bound that a rule does not have, a time a request leaves out

\* A rule of an aircraft or a port has instants, one of a section dates and hours.
TariffRules == [from : Nat \cup {Ever}, to : Nat \cup {Ever}, price : Nat, unit : Int, priority : Int]
SectionRules ==
    [first : Nat \cup {Ever}, last : Nat \cup {Ever}, start : 0..Day, end : 0..Day,
     price : Nat, unit : Int, timed : BOOLEAN]
\* An order's window as the client gives it, and one that ends after it starts.
Timed(w) == w.from # Ever /\ w.to # Ever
Forward(w) == Timed(w) /\ w.from < w.to
IsList(s) == Len(s) \in Nat /\ DOMAIN s = 1..Len(s)

\* Nobody's price list pays for being used.
ASSUME QuoteAssumption ==
    /\ Aircraft \cap Docks = {} /\ DOMAIN Tariffs = Aircraft \cup Docks
    /\ InTable \subseteq DOMAIN Tariffs
    /\ Day \in Nat \ {0} /\ MaxAttempts \in Nat \ {0} /\ Ever \notin Nat
    /\ \A x \in DOMAIN Tariffs : IsList(Tariffs[x]) /\ Range(Tariffs[x]) \subseteq TariffRules
    /\ IsFiniteSet(DOMAIN PriceInfo)
    /\ \A s \in DOMAIN PriceInfo : IsList(PriceInfo[s]) /\ Range(PriceInfo[s]) \subseteq SectionRules
    /\ \A o \in Orders :
          /\ IsList(o.uses) /\ IsList(o.flown)
          /\ \A w \in Range(o.flown) : w.from \in Nat /\ w.to \in Nat /\ w.from < w.to
          /\ \A w \in Range(o.uses) :
                w.what \in DOMAIN Tariffs /\ {w.from, w.to} \subseteq Nat \cup {Ever}

VARIABLES
    order,      \* order.uses: windows of aircraft and ports; order.flown: those of sections
    phase,      \* what the request is at
    gone,       \* the client has gone: the request's context is done
    task,       \* task[i]: the goroutine for order.uses[i]
    reported,   \* windows in the order in which they were put in a channel
    bill,       \* VehiclePrices and PortPrices: an amount by aircraft or port
    fees,       \* what the sections cost together, and children's amounts
    outcome

quoteVars == <<order, phase, gone, task, reported, bill, fees, outcome>>

Phases == {"new", "check", "price", "sections", "answered"}
Outcomes == {"none", "conflict", "failed", "late", "accepted", "estimated"}
Waits == {"ready", "detail", "list", "call", "flight"}
Ends == {"end", "paid", "broken", "spare"}
Findings == {"unasked", "free", "taken", "unknown", "failed", "timeout", "stopped"}
Tasks == [at : Waits \cup Ends, seen : Findings, tries : 0..MaxAttempts]

NoFees == [total |-> 0, each |-> <<>>]

QuoteInit ==
    /\ order \in Orders
    /\ phase = "new" /\ gone = FALSE /\ outcome = "none"
    /\ task = [i \in DOMAIN order.uses |-> [at |-> "ready", seen |-> "unasked", tries |-> 0]]
    /\ reported = <<>> /\ bill = <<>> /\ fees = NoFees

-----------------------------------------------------------------------------
(* The price of an aircraft or a port: CalculateResourcePriceFromRules.          *)

Up(n, unit) == (n + unit - 1) \div unit
Pieces(cuts) == {p \in cuts \X cuts : p[1] < p[2] /\ ~\E c \in cuts : p[1] < c /\ c < p[2]}

\* unit is what PricePerUnit and PriceType make together, in minutes.
InForce(r, t) == (r.from = Ever \/ r.from <= t) /\ (r.to = Ever \/ t < r.to)
Applicable(rules, t) == {k \in DOMAIN rules : InForce(rules[k], t)}
Best(rules, t) ==
    CHOOSE k \in Applicable(rules, t) : \A l \in Applicable(rules, t) :
        rules[k].priority < rules[l].priority \/ (rules[k].priority = rules[l].priority /\ k <= l)

\* Mutated: where a rule ends is not a boundary.
PriceBoundaries_Starts(rules, from, to) ==
    {from, to} \cup {t \in from..to : \E r \in Range(rules) : t = r.from}
PriceBoundaries(rules, from, to) ==
    {from, to} \cup {t \in from..to : \E r \in Range(rules) : t \in {r.from, r.to}}
SegmentAmount(r, minutes) == IF r.unit <= 0 THEN r.price ELSE r.price * Up(minutes, r.unit)
ResourcePrice(rules, from, to) ==
    SumFunction([p \in {p \in Pieces(PriceBoundaries(rules, from, to)) : Applicable(rules, p[1]) # {}} |->
                   SegmentAmount(rules[Best(rules, p[1])], p[2] - p[1])])

-----------------------------------------------------------------------------
(* The price of a section: calculateSectionPrice.  A rule has dates, and hours of  *)
(* the day that may go over midnight; the first that matches counts, or else the     *)
(* first of all.                                                                *)

DateOf(t) == t \div Day
InDates(r, t) ==
    (r.first = Ever \/ t >= r.first * Day) /\ (r.last = Ever \/ t <= (r.last + 1) * Day)
InHours(r, m) ==
    IF r.end <= r.start THEN m >= r.start \/ m < r.end ELSE m >= r.start /\ m < r.end
Matches(r, t) == InDates(r, t) /\ InHours(r, t % Day)
RuleAt(rules, t) ==
    LET fits == {k \in DOMAIN rules : Matches(rules[k], t)} IN IF fits = {} THEN 1 ELSE Min(fits)

Edges(r, d) == IF InDates(r, d * Day) THEN {d * Day + r.start, d * Day + r.end} ELSE {}
RuleBoundaries(rules, from, to) ==
    {from, to} \cup
    {t \in from..to : \E d \in DateOf(from)..(DateOf(to) + 1), r \in Range(rules) : t \in Edges(r, d)}
RuleAmount(r, minutes) ==
    IF r.timed THEN r.price * Up(minutes, IF r.unit <= 0 THEN 1 ELSE r.unit) ELSE 0
SectionPrice(rules, from, to) ==
    SumFunction([p \in Pieces(RuleBoundaries(rules, from, to)) |->
                   RuleAmount(rules[RuleAt(rules, p[1])], p[2] - p[1])])

\* Windows of one section that overlap or touch are one.
WindowsOf(s) == {w \in Range(order.flown) : w.section = s}
Opens(s) ==
    {w.from : w \in {w \in WindowsOf(s) : ~\E v \in WindowsOf(s) : v.from < w.from /\ w.from <= v.to}}
\* Mutated: every window for itself.
Merged_Not(s) == {<<w.from, w.to>> : w \in WindowsOf(s)}
Merged(s) ==
    {<<f, Max({w.to : w \in {w \in WindowsOf(s) :
        w.from >= f /\ ~\E g \in Opens(s) : f < g /\ g <= w.from}})>> : f \in Opens(s)}

\* Sections without a definition or without rules cost nothing.
Priced == {s \in DOMAIN PriceInfo : PriceInfo[s] # <<>>}
ChildAmount(w) == IF w.section \in Priced THEN SectionPrice(PriceInfo[w.section], w.from, w.to) ELSE 0
SectionTotal(s) == SumFunction([p \in Merged(s) |-> SectionPrice(PriceInfo[s], p[1], p[2])])
Flown == {s \in Priced : WindowsOf(s) # {}}
InternalSectionPrices ==
    [total |-> SumFunction([s \in Flown |-> SectionTotal(s)]),
     each |-> [k \in DOMAIN order.flown |-> ChildAmount(order.flown[k])]]

-----------------------------------------------------------------------------
(* The check: one goroutine per window; whoever reports cancels the others.       *)

Uses == DOMAIN order.uses
Use(i) == order.uses[i]
Step(i, at) == task' = [task EXCEPT ![i].at = at]
End(i, seen) == task' = [task EXCEPT ![i].at = "end", ![i].seen = seen]
Reports(i, seen) == End(i, seen) /\ reported' = Append(reported, i)
Stopped == gone \/ reported # <<>>
\* How a call may fail; a call of a request that is done may fail for that.
Troubles == {"failed", "timeout"} \cup (IF Stopped THEN {"stopped"} ELSE {})

Leave ==
    /\ phase # "answered" /\ ~gone /\ gone' = TRUE
    /\ UNCHANGED <<order, phase, task, reported, bill, fees, outcome>>

\* What a hold has the vendors asked about has been through the converter, which takes a
\* time that is missing from the whole booking's, and the validators, which refuse a window
\* that does not end after it starts.
Hold ==
    /\ phase = "new" /\ phase' = "check"
    /\ \A i \in Uses : Forward(Use(i))
    /\ UNCHANGED <<order, gone, task, reported, bill, fees, outcome>>

\* A goroutine that starts too late ends without a word.
StartCheck(i) ==
    /\ phase = "check" /\ task[i].at = "ready"
    /\ IF Stopped THEN End(i, "unasked")
       ELSE Step(i, IF Use(i).what \in Docks THEN "detail" ELSE "list")
    /\ UNCHANGED <<order, phase, gone, reported, bill, fees, outcome>>

\* A port whose vendor answers any HTTP error is taken for somebody else's; one that is
\* not in service is an error.
GetDronePortInfoDetail(i) ==
    /\ task[i].at = "detail"
    /\ \/ Step(i, "list") /\ UNCHANGED reported
       \/ End(i, "unknown") /\ UNCHANGED reported
       \/ \E t \in Troubles : Reports(i, t)
    /\ UNCHANGED <<order, phase, gone, bill, fees, outcome>>

ListReservations(i) ==
    /\ task[i].at = "list"
    /\ \/ End(i, "free") /\ UNCHANGED reported
       \/ Use(i).what \in Docks /\ End(i, "unknown") /\ UNCHANGED reported
       \/ \E t \in Troubles \cup {"taken"} : Reports(i, t)
    /\ UNCHANGED <<order, phase, gone, bill, fees, outcome>>

Reported(what) == \E i \in Range(reported) : task[i].seen \in what
\* Mutated: an error is looked for first.
Verdict_ErrorsFirst ==
    IF Reported({"failed"}) THEN "failed"
    ELSE IF Reported({"timeout", "stopped"}) THEN "late"
    ELSE IF Reported({"taken"}) THEN "conflict" ELSE "none"
Verdict ==
    IF Reported({"taken"}) THEN "conflict"
    ELSE IF Reported({"failed"}) THEN "failed"
    ELSE IF Reported({"timeout", "stopped"}) THEN "late" ELSE "none"

\* Two windows of a port that are the same are asked for once.
Spare(i) == Use(i).what \in Docks /\ \E k \in Uses : k < i /\ Use(k) = Use(i)
Conclude ==
    /\ phase = "check" /\ \A i \in Uses : task[i].at = "end"
    /\ outcome' = Verdict
    /\ phase' = IF Verdict = "none" THEN "price" ELSE "answered"
    /\ task' = IF Verdict # "none" THEN task
               ELSE [i \in Uses |-> [task[i] EXCEPT !.at = IF Spare(i) THEN "spare" ELSE "call"]]
    /\ UNCHANGED <<order, gone, reported, bill, fees>>

-----------------------------------------------------------------------------
(* The prices: aircraft and ports are an errgroup each, inside another one.        *)

SameKind(i, k) == (Use(i).what \in Docks) = (Use(k).what \in Docks)
Broken(i) == task[i].at = "broken"
Fetching(i) == task[i].at \in {"call", "flight"}
\* The first error stops those of its kind, and the others when all of its kind have ended.
Halted(i) ==
    \/ gone
    \/ \E k \in Uses : SameKind(i, k) /\ Broken(k)
    \/ /\ \E k \in Uses : ~SameKind(i, k) /\ Broken(k)
       /\ \A k \in Uses : ~SameKind(i, k) => ~Fetching(k)

\* Mutated: the retry does not look at the context.
Attempt_Blind(i) ==
    /\ task[i].at = "call"
    /\ task' = [task EXCEPT ![i].at = "flight", ![i].tries = @ + 1]
    /\ UNCHANGED <<order, phase, gone, reported, bill, fees, outcome>>
Attempt(i) ==
    /\ task[i].at = "call"
    /\ IF Halted(i) THEN Step(i, "broken")
       ELSE task' = [task EXCEPT ![i].at = "flight", ![i].tries = @ + 1]
    /\ UNCHANGED <<order, phase, gone, reported, bill, fees, outcome>>

\* Mutated: one attempt more.
Again_OneMore(i) == task[i].tries <= MaxAttempts
Again(i) == task[i].tries < MaxAttempts
\* The price service answers a status, which is not retried, or there is no answer, which
\* may be.  A window's amount replaces that of another window of the same port or aircraft.
Receive(i) ==
    /\ task[i].at = "flight"
    /\ \/ /\ bill' = [x \in DOMAIN bill \cup {Use(i).what} |->
                       IF x = Use(i).what THEN ResourcePrice(Tariffs[x], Use(i).from, Use(i).to)
                       ELSE bill[x]]
          /\ Step(i, "paid")
       \/ Step(i, "broken") /\ UNCHANGED bill
       \/ Again(i) /\ Step(i, "call") /\ UNCHANGED bill
    /\ UNCHANGED <<order, phase, gone, reported, fees, outcome>>

CalculateResourcePrices ==
    /\ phase = "price" /\ \A i \in Uses : ~Fetching(i)
    /\ IF \E i \in Uses : Broken(i)
       THEN phase' = "answered" /\ outcome' = "failed"
       ELSE phase' = "sections" /\ UNCHANGED outcome
    /\ UNCHANGED <<order, gone, task, reported, bill, fees>>

CalculateInternalSectionPrices ==
    /\ phase = "sections" /\ phase' = "answered"
    /\ \/ fees' = InternalSectionPrices /\ outcome' = "accepted"
       \/ UNCHANGED fees /\ outcome' = "failed"
    /\ UNCHANGED <<order, gone, task, reported, bill>>

\* An estimate prices what is in our table, at the last window of it that has both times,
\* ports after aircraft, and leaves out without a word what has no such window.  What is not
\* in the table is on no bill here: when a section is a partner's the partner is asked about
\* it too, and its amount is added or makes the estimate fail, otherwise nobody is.
AskedFor == {Use(i).what : i \in Uses}
TimedUses(x) == {i \in Uses : Use(i).what = x /\ Timed(Use(i))}
LastUse(x) == Use(Max(TimedUses(x)))
OwnTimed == {x \in AskedFor \cap InTable : TimedUses(x) # {}}
EstimateUaslReservation ==
    /\ phase = "new" /\ phase' = "answered"
    /\ \/ /\ bill' = [x \in OwnTimed |-> ResourcePrice(Tariffs[x], LastUse(x).from, LastUse(x).to)]
          /\ fees' = InternalSectionPrices /\ outcome' = "estimated"
       \/ UNCHANGED <<bill, fees>> /\ outcome' = "failed"
    /\ UNCHANGED <<order, gone, task, reported>>

Answered == phase = "answered" /\ UNCHANGED quoteVars

QuoteNext ==
    \/ Leave \/ Hold \/ EstimateUaslReservation \/ Answered
    \/ Conclude \/ CalculateResourcePrices \/ CalculateInternalSectionPrices
    \/ \E i \in Uses :
          \/ StartCheck(i) \/ GetDronePortInfoDetail(i) \/ ListReservations(i)
          \/ Attempt(i) \/ Receive(i)

QuoteSpec == QuoteInit /\ [][QuoteNext]_quoteVars

-----------------------------------------------------------------------------
(* Properties.                                                                   *)

\* Every record holds what the code can put there.
QuoteTypeOK ==
    /\ phase \in Phases /\ gone \in BOOLEAN /\ outcome \in Outcomes
    /\ task \in [Uses -> Tasks] /\ Range(reported) \subseteq Uses
    /\ DOMAIN bill \subseteq AskedFor /\ \A x \in DOMAIN bill : bill[x] \in Nat
    /\ fees.total \in Nat /\ \A k \in DOMAIN fees.each : fees.each[k] \in Nat

\* A goroutine that finds the context done says nothing, so the check passes when the
\* client has gone before anybody was asked.  Still no request is accepted with a window
\* nobody looked at: the price fetch fails then.  Only a port whose vendor answered an
\* error is taken unseen.
PassMeansAsked ==
    outcome = "accepted" => \A i \in Uses : task[i].seen \in {"free", "unknown"}

\* Whoever was stopped by another goroutine's finding is never the reason given: a window
\* that is taken makes it a conflict, an error an error, and a request is late only when
\* nothing else was found and its client had gone or a vendor was late.
CauseReported ==
    phase \in {"price", "sections", "answered"} =>
        /\ outcome = "conflict" <=> \E i \in Uses : task[i].seen = "taken"
        /\ outcome = "late" => /\ ~\E i \in Uses : task[i].seen = "failed"
                               /\ gone \/ \E i \in Uses : task[i].seen = "timeout"

\* The bill minute by minute: every rule is paid for the minutes it is the one in force.
Minutes(k, ruleAt(_), ts) == {t \in ts : ruleAt(t) = k}
ByRule(rules, amount(_, _), ruleAt(_), ts) ==
    SumFunction([k \in {k \in DOMAIN rules : Minutes(k, ruleAt, ts) # {}} |->
                   amount(rules[k], Cardinality(Minutes(k, ruleAt, ts)))])
\* Pieces are rounded up one by one, so the bill may be more, but not by the minute.
Covers(amount, exact, rules) ==
    amount >= exact /\ ((\A r \in rules : r.unit = 1) => amount = exact)

TariffBill(x, from, to) ==
    ByRule(Tariffs[x], SegmentAmount,
           LAMBDA t : IF Applicable(Tariffs[x], t) = {} THEN 0 ELSE Best(Tariffs[x], t), from..(to - 1))
\* At midnight a rule that has ended the day before still counts, and no boundary is put
\* where a rule begins in the middle of its night: such a rule is charged for longer.
Frayed(r) == InHours(r, 0) /\ (r.last # Ever \/ (r.first # Ever /\ r.end <= r.start))
SectionBill(s) ==
    ByRule(PriceInfo[s], RuleAmount, LAMBDA t : RuleAt(PriceInfo[s], t),
           UNION {w.from..(w.to - 1) : w \in WindowsOf(s)})
FlownRules == UNION {Range(PriceInfo[s]) : s \in Flown}

\* A hold that is accepted pays for every aircraft and port it has the vendors asked about,
\* for one of their windows; an estimate only for what is in our table and was given both
\* times, and rightly only where all windows end after they start, which nobody checks.  Both
\* pay for every minute a section is used once, however its windows overlap, which is never
\* more than what its children cost one by one.
BilledByTheMinute ==
    outcome \in {"accepted", "estimated"} =>
        /\ DOMAIN bill = IF outcome = "accepted" THEN AskedFor ELSE OwnTimed
        /\ \A x \in DOMAIN bill :
              (outcome = "accepted" \/ \A i \in TimedUses(x) : Forward(Use(i))) =>
                 \E i \in TimedUses(x) :
                    Covers(bill[x], TariffBill(x, Use(i).from, Use(i).to), Range(Tariffs[x]))
        /\ (\A r \in FlownRules : ~Frayed(r)) =>
              /\ Covers(fees.total, SumFunction([s \in Flown |-> SectionBill(s)]), FlownRules)
              /\ fees.total <= SumFunction(fees.each)
=============================================================================
