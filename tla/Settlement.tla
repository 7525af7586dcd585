----------------------------- MODULE Settlement -----------------------------
(***************************************************************************)
(* The monthly settlement batch: it sums last month's reserved requests    *)
(* per administrator and operator into uasl_settlements rows, and then     *)
(* charges every row that was not submitted yet, one row after the other.  *)
(* Nothing keeps two processes of the batch from running at the same time, *)
(* a process may die anywhere, and the reservation server goes on changing *)
(* the reservations meanwhile.  One action is one database or API call.    *)
(***************************************************************************)
EXTENDS Integers, FiniteSets

CONSTANTS
    Runs,        \* processes of the batch that may run at the same time
    Groups,      \* (administrator, operator) pairs, the keys of the rows
    MaxDue,      \* bound: what a group can owe
    MaxStarts,   \* bound: starts of the batch in the month
    MaxFaults,   \* bound: failed or unanswered calls, crashes
    MaxChanges   \* bound: reservations confirmed or cancelled meanwhile

ASSUME BoundsAssumption ==
    {MaxDue, MaxStarts, MaxFaults, MaxChanges} \subseteq Nat
ASSUME RunsAssumption == IsFiniteSet(Runs)

VARIABLES
    due,         \* due[g]: sum of g's reserved requests, None when it has none
    rows,        \* groups that have a settlement row
    total,       \* total[g]: total_amount
    confirmed,   \* groups whose payment_confirmed_at is set
    submitted,   \* groups whose submitted_at is set
    pc,          \* pc[r]: where run r is
    found,       \* found[r]: the sums it aggregated
    unsubmitted, \* unsubmitted[r]: the rows it found unsubmitted
    todo,        \* todo[r]: those it has not come to
    failed,      \* failed[r]: those it counted as failed
    cur,         \* cur[r]: the row it is working on
    amount,      \* amount[r]: that row's total when it was read
    paid,        \* paid[g]: how often the payment service charged g
    charged,     \* charged[g]: the amounts it charged
    settled,     \* history: settled[r]: that row's payment was confirmed when it was read
    cut,         \* history: cut[g]: charges no payment_confirmed_at was written for
    moved,       \* history: groups whose sum changed after its first aggregation
    starts, faults, changes

table  == <<rows, total, confirmed, submitted>>
work   == <<found, unsubmitted, todo, failed, cur, amount, settled>>
money  == <<paid, charged, cut>>
world  == <<due, moved, changes>>
vars   == <<table, pc, work, money, world, starts, faults>>

None   == -1
Sums   == {None} \cup 0..MaxDue
Places == {"idle", "upsert", "find", "next", "auth", "pay", "mark", "submit", "ok", "failed"}
Ended(r) == pc[r] \in {"idle", "ok", "failed"}

Init ==
    /\ due \in [Groups -> Sums] /\ moved = {} /\ changes = 0
    /\ rows = {} /\ total = [g \in Groups |-> 0] /\ confirmed = {} /\ submitted = {}
    /\ pc = [r \in Runs |-> "idle"]
    /\ found = [r \in Runs |-> [g \in Groups |-> None]]
    /\ unsubmitted = [r \in Runs |-> {}] /\ todo = [r \in Runs |-> {}]
    /\ failed = [r \in Runs |-> {}]
    /\ cur \in [Runs -> Groups] /\ amount = [r \in Runs |-> 0]
    /\ settled = [r \in Runs |-> FALSE]
    /\ paid = [g \in Groups |-> 0] /\ charged = [g \in Groups |-> {}]
    /\ cut = [g \in Groups |-> 0]
    /\ starts = 0 /\ faults = 0

\* The run stops short of recording the charge it just made.
CutShort(r) == cut' = [cut EXCEPT ![cur[r]] = IF pc[r] = "mark" THEN @ + 1 ELSE @]
Goto(r, place) == pc' = [pc EXCEPT ![r] = place]
Fault == faults < MaxFaults /\ faults' = faults + 1

-----------------------------------------------------------------------------
(* aggregate: read last month's reservations, then one INSERT ... ON CONFLICT. *)

Aggregate(r) ==
    /\ Ended(r) /\ starts < MaxStarts /\ starts' = starts + 1
    /\ found' = [found EXCEPT ![r] = due]
    /\ Goto(r, "upsert")
    /\ UNCHANGED <<table, unsubmitted, todo, failed, cur, amount, settled, money, world, faults>>

\* Groups the run found reservations of; the others keep the row they have.
Owing(r) == {g \in Groups : found[r][g] # None}

\* Mutated: the upsert adds to the total of a row it finds.
UpsertBatch_Added(r) ==
    /\ pc[r] = "upsert"
    /\ rows' = rows \cup Owing(r)
    /\ total' = [g \in Groups |-> IF g \in Owing(r) \ submitted
                                  THEN total[g] + found[r][g] ELSE total[g]]
    /\ Goto(r, "find")
    /\ UNCHANGED <<confirmed, submitted, work, money, world, starts, faults>>
UpsertBatch(r) ==
    /\ pc[r] = "upsert"
    /\ rows' = rows \cup Owing(r)
    /\ total' = [g \in Groups |-> IF g \in Owing(r) \ submitted THEN found[r][g] ELSE total[g]]
    /\ Goto(r, "find")
    /\ UNCHANGED <<confirmed, submitted, work, money, world, starts, faults>>

FindUnsubmitted(r) ==
    /\ pc[r] = "find"
    /\ unsubmitted' = [unsubmitted EXCEPT ![r] = rows \ submitted]
    /\ todo' = [todo EXCEPT ![r] = rows \ submitted]
    /\ failed' = [failed EXCEPT ![r] = {}]
    /\ Goto(r, "next")
    /\ UNCHANGED <<table, found, cur, amount, settled, money, world, starts, faults>>

\* The whole run ends with the error.
ReadFails(r) ==
    /\ pc[r] \in {"upsert", "find"} /\ Fault
    /\ Goto(r, "failed")
    /\ UNCHANGED <<table, work, money, world, starts>>

-----------------------------------------------------------------------------
(* processSettlement, for one row after the other in no particular order. *)

Done(r) ==
    /\ todo' = [todo EXCEPT ![r] = @ \ {cur[r]}]
    /\ Goto(r, "next")

\* Mutated: the run goes on without counting the failure.
Fail_Uncounted(r) ==
    /\ Done(r)
    /\ UNCHANGED <<failed, found, unsubmitted, cur, amount, settled>>
\* The error is counted and the run goes on with the next row.
Fail(r) ==
    /\ failed' = [failed EXCEPT ![r] = @ \cup {cur[r]}]
    /\ Done(r)
    /\ UNCHANGED <<found, unsubmitted, cur, amount, settled>>

\* Mutated: the row is taken as it was listed, before anything was paid.
StateOf_Listed(g) == "auth"
\* Mutated: a confirmed payment is not looked at.
StateOf_Forgotten(g) == IF g \in submitted THEN "next" ELSE "auth"
StateOf(g) ==
    IF g \in submitted THEN "next" ELSE IF g \in confirmed THEN "submit" ELSE "auth"

\* Mutated: a row another run submitted meanwhile stays in the list.
FindByID_Kept(r, g) ==
    /\ pc[r] = "next" /\ g \in todo[r]
    /\ cur' = [cur EXCEPT ![r] = g]
    /\ amount' = [amount EXCEPT ![r] = total[g]]
    /\ settled' = [settled EXCEPT ![r] = g \in confirmed]
    /\ Goto(r, StateOf(g))
    /\ UNCHANGED <<table, found, unsubmitted, todo, failed, money, world, starts, faults>>
\* Mutated: the amount of the row before it is charged again.
FindByID_Stale(r, g) ==
    /\ pc[r] = "next" /\ g \in todo[r]
    /\ cur' = [cur EXCEPT ![r] = g]
    /\ amount' = [amount EXCEPT ![r] = IF @ = 0 THEN total[g] ELSE @]
    /\ settled' = [settled EXCEPT ![r] = g \in confirmed]
    /\ todo' = [todo EXCEPT ![r] = IF g \in submitted THEN @ \ {g} ELSE @]
    /\ Goto(r, StateOf(g))
    /\ UNCHANGED <<table, found, unsubmitted, failed, money, world, starts, faults>>
FindByID(r, g) ==
    /\ pc[r] = "next" /\ g \in todo[r]
    /\ cur' = [cur EXCEPT ![r] = g]
    /\ amount' = [amount EXCEPT ![r] = total[g]]
    /\ settled' = [settled EXCEPT ![r] = g \in confirmed]
    /\ todo' = [todo EXCEPT ![r] = IF g \in submitted THEN @ \ {g} ELSE @]
    /\ Goto(r, StateOf(g))
    /\ UNCHANGED <<table, found, unsubmitted, failed, money, world, starts, faults>>

FindByIDFails(r, g) ==
    /\ pc[r] = "next" /\ g \in todo[r] /\ Fault
    /\ failed' = [failed EXCEPT ![r] = @ \cup {g}]
    /\ todo' = [todo EXCEPT ![r] = @ \ {g}]
    /\ UNCHANGED <<table, pc, found, unsubmitted, cur, amount, settled, money, world, starts>>

\* GetAccessToken and IntrospectToken.
Authorize(r) ==
    /\ pc[r] = "auth"
    /\ Goto(r, "pay")
    /\ UNCHANGED <<table, work, money, world, starts, faults>>

Charge(r) ==
    /\ paid' = [paid EXCEPT ![cur[r]] = @ + 1]
    /\ charged' = [charged EXCEPT ![cur[r]] = @ \cup {amount[r]}]

\* The request carries no key by which the payment service could tell a repetition.
ConfirmTransaction(r) ==
    /\ pc[r] = "pay"
    /\ Charge(r) /\ UNCHANGED cut
    /\ Goto(r, "mark")
    /\ UNCHANGED <<table, work, world, starts, faults>>

\* Charged, and the answer is lost, not decodable or not "success".
ConfirmUnanswered(r) ==
    /\ pc[r] = "pay" /\ Fault
    /\ Charge(r) /\ cut' = [cut EXCEPT ![cur[r]] = @ + 1]
    /\ Fail(r)
    /\ UNCHANGED <<table, world, starts>>

\* Mutated: the two timestamps in the other order.
UpdatePaymentConfirmedAt_Late(r) ==
    /\ pc[r] = "mark"
    /\ submitted' = submitted \cup {cur[r]}
    /\ Goto(r, "submit")
    /\ UNCHANGED <<rows, total, confirmed, work, money, world, starts, faults>>
UpdatePaymentConfirmedAt(r) ==
    /\ pc[r] = "mark"
    /\ confirmed' = confirmed \cup {cur[r]}
    /\ Goto(r, "submit")
    /\ UNCHANGED <<rows, total, submitted, work, money, world, starts, faults>>

UpdateSubmittedAt(r) ==
    /\ pc[r] = "submit"
    /\ submitted' = submitted \cup {cur[r]}
    /\ Done(r)
    /\ UNCHANGED <<rows, total, confirmed, found, unsubmitted, failed, cur, amount, settled,
                   money, world, starts, faults>>

\* No token, a refused payment, or an update that fails.
CallFails(r) ==
    /\ pc[r] \in {"auth", "pay", "mark", "submit"} /\ Fault
    /\ Fail(r)
    /\ CutShort(r)
    /\ UNCHANGED <<table, paid, charged, world, starts>>

RunDone(r) ==
    /\ pc[r] = "next" /\ todo[r] = {}
    /\ Goto(r, IF failed[r] = {} THEN "ok" ELSE "failed")
    /\ UNCHANGED <<table, work, money, world, starts, faults>>

-----------------------------------------------------------------------------
Crash(r) ==
    /\ ~Ended(r) /\ Fault
    /\ Goto(r, "failed")
    /\ CutShort(r)
    /\ UNCHANGED <<table, work, paid, charged, world, starts>>

\* The reservation server confirms, cancels or deletes a request of last month.
Change(g) ==
    /\ changes < MaxChanges /\ changes' = changes + 1
    /\ \E sum \in Sums : sum # due[g] /\ due' = [due EXCEPT ![g] = sum]
    /\ moved' = IF g \in rows \/ \E r \in Runs : pc[r] = "upsert"
                THEN moved \cup {g} ELSE moved
    /\ UNCHANGED <<table, pc, work, money, starts, faults>>

MonthOver ==
    /\ starts = MaxStarts /\ \A r \in Runs : Ended(r)
    /\ UNCHANGED vars

Step(r) ==
    \/ UpsertBatch(r) \/ FindUnsubmitted(r) \/ ReadFails(r)
    \/ \E g \in Groups : FindByID(r, g) \/ FindByIDFails(r, g)
    \/ Authorize(r) \/ ConfirmTransaction(r) \/ ConfirmUnanswered(r)
    \/ UpdatePaymentConfirmedAt(r) \/ UpdateSubmittedAt(r) \/ CallFails(r)
    \/ RunDone(r)

Next ==
    \/ \E r \in Runs : Aggregate(r) \/ Step(r) \/ Crash(r)
    \/ \E g \in Groups : Change(g)
    \/ MonthOver

\* A running process runs on, and each of its calls has a timeout.
Fairness == \A r \in Runs : WF_vars(Step(r))

Spec == Init /\ [][Next]_vars /\ Fairness

-----------------------------------------------------------------------------
(* Properties. *)

\* Every column and every local variable of a run holds what the code can put there.
TypeOK ==
    /\ due \in [Groups -> Sums] /\ moved \subseteq Groups /\ changes \in 0..MaxChanges
    /\ rows \subseteq Groups /\ total \in [Groups -> 0..MaxDue]
    /\ confirmed \subseteq Groups /\ submitted \subseteq Groups
    /\ pc \in [Runs -> Places] /\ found \in [Runs -> [Groups -> Sums]]
    /\ unsubmitted \in [Runs -> SUBSET Groups] /\ todo \in [Runs -> SUBSET Groups]
    /\ failed \in [Runs -> SUBSET Groups]
    /\ cur \in [Runs -> Groups] /\ amount \in [Runs -> 0..MaxDue]
    /\ settled \in [Runs -> BOOLEAN]
    /\ paid \in [Groups -> Nat] /\ charged \in [Groups -> SUBSET (0..MaxDue)]
    /\ cut \in [Groups -> Nat]
    /\ starts \in 0..MaxStarts /\ faults \in 0..MaxFaults

\* Whatever runs overlap and wherever they die: a row is submitted only after its
\* payment was confirmed, and confirmed only after the service charged it.
SubmittedWasPaid ==
    /\ submitted \subseteq confirmed
    /\ \A g \in confirmed : paid[g] > 0

\* A run that exits with 0 left none of the rows it found unsubmitted behind, although
\* it goes on after a row that fails.
SuccessIsComplete == \A r \in Runs : pc[r] = "ok" => unsubmitted[r] \subseteq submitted

\* A submitted row shows an amount that was charged, unless the group's reservations
\* changed after they were first summed: a confirmed row is still summed again.
SubmittedTotalWasCharged ==
    \A g \in submitted : total[g] \in charged[g] \/ g \in moved

\* A charge too many costs a run that stopped between the charge and writing
\* payment_confirmed_at, or one more run at the same time; no other failure does.
ChargesBounded == \A g \in Groups : paid[g] <= Cardinality(Runs) + cut[g]

\* README.md:330: payment_confirmed_at and submitted_at are updated in this order so
\* that nothing is paid twice.
NoDoublePayment == \A g \in Groups : paid[g] <= 1

\* A submitted row is final: no later or overlapping run changes its total or takes a mark
\* back, and a charge is only ever made by a run that read the row before its payment was
\* confirmed, so a run that starts, lists or comes to the row afterwards does not charge it.
SubmittedIsFinal ==
    [][/\ \A g \in submitted : g \in submitted' /\ g \in confirmed' /\ total'[g] = total[g]
       /\ \A g \in Groups : paid'[g] # paid[g] =>
             \E r \in Runs : cur[r] = g /\ ~settled[r] /\ pc'[r] # pc[r]]_vars

\* A run ends, whatever fails.
RunEnds == \A r \in Runs : ~Ended(r) ~> Ended(r)
=============================================================================
