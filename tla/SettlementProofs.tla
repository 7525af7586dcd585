-------------------------- MODULE SettlementProofs --------------------------
(* Proofs about Settlement, for every number of processes, rows, starts and   *)
(* faults: type correctness, that a submitted row was paid, that a run which  *)
(* reports success left nothing behind, what a submitted row shows, and how   *)
(* often a group is charged.                                                 *)
EXTENDS Settlement, TLAPS, FiniteSetTheorems

-----------------------------------------------------------------------------
(* Types. *)

WorkOK ==
    /\ found \in [Runs -> [Groups -> Sums]]
    /\ unsubmitted \in [Runs -> SUBSET Groups] /\ todo \in [Runs -> SUBSET Groups]
    /\ failed \in [Runs -> SUBSET Groups]
    /\ cur \in [Runs -> Groups] /\ amount \in [Runs -> 0..MaxDue]
    /\ settled \in [Runs -> BOOLEAN]

LEMMA FailOK ==
    ASSUME TypeOK, NEW r \in Runs, Fail(r)
    PROVE  pc' \in [Runs -> Places] /\ WorkOK'
  BY DEF Fail, Done, Goto, TypeOK, WorkOK, Places

LEMMA FaultOK ==
    ASSUME TypeOK, Fault
    PROVE  faults' \in 0..MaxFaults
  BY BoundsAssumption DEF Fault, TypeOK

LEMMA CutOK ==
    ASSUME TypeOK, NEW r \in Runs, CutShort(r)
    PROVE  cut' \in [Groups -> Nat]
  BY DEF CutShort, TypeOK

LEMMA ChargeOK ==
    ASSUME TypeOK, NEW r \in Runs, Charge(r)
    PROVE  paid' \in [Groups -> Nat] /\ charged' \in [Groups -> SUBSET (0..MaxDue)]
  BY DEF Charge, TypeOK

LEMMA TypeKept ==
    ASSUME TypeOK, [Next]_vars
    PROVE  TypeOK'
  <1> USE DEF table, work, money, world
  <1>1. ASSUME NEW r \in Runs, Aggregate(r)
        PROVE  TypeOK'
    BY <1>1, BoundsAssumption DEF Aggregate, Goto, TypeOK, Places
  <1>2. ASSUME NEW r \in Runs, UpsertBatch(r)
        PROVE  TypeOK'
    <2>1. total' \in [Groups -> 0..MaxDue]
      BY <1>2 DEF UpsertBatch, Owing, Sums, TypeOK
    <2> QED
      BY <1>2, <2>1 DEF UpsertBatch, Owing, Goto, TypeOK, Places
  <1>3. ASSUME NEW r \in Runs, FindUnsubmitted(r)
        PROVE  TypeOK'
    BY <1>3 DEF FindUnsubmitted, Goto, TypeOK, Places
  <1>4. ASSUME NEW r \in Runs, ReadFails(r)
        PROVE  TypeOK'
    BY <1>4, FaultOK DEF ReadFails, Goto, TypeOK, Places
  <1>5. ASSUME NEW r \in Runs, NEW g \in Groups, FindByID(r, g)
        PROVE  TypeOK'
    BY <1>5 DEF FindByID, StateOf, Goto, TypeOK, Places
  <1>6. ASSUME NEW r \in Runs, NEW g \in Groups, FindByIDFails(r, g)
        PROVE  TypeOK'
    BY <1>6, FaultOK DEF FindByIDFails, TypeOK
  <1>7. ASSUME NEW r \in Runs, Authorize(r)
        PROVE  TypeOK'
    BY <1>7 DEF Authorize, Goto, TypeOK, Places
  <1>8. ASSUME NEW r \in Runs, ConfirmTransaction(r)
        PROVE  TypeOK'
    BY <1>8, ChargeOK DEF ConfirmTransaction, Goto, TypeOK, Places
  <1>9. ASSUME NEW r \in Runs, ConfirmUnanswered(r)
        PROVE  TypeOK'
    <2>1. cut' \in [Groups -> Nat]
      BY <1>9 DEF ConfirmUnanswered, TypeOK
    <2> QED
      BY <1>9, <2>1, ChargeOK, FailOK, FaultOK DEF ConfirmUnanswered, TypeOK, WorkOK
  <1>10. ASSUME NEW r \in Runs, UpdatePaymentConfirmedAt(r) \/ UpdateSubmittedAt(r)
         PROVE  TypeOK'
    <2>1. CASE UpdatePaymentConfirmedAt(r)
      BY <2>1 DEF UpdatePaymentConfirmedAt, Goto, TypeOK, Places
    <2>2. CASE UpdateSubmittedAt(r)
      <3>1. cur[r] \in Groups /\ todo' \in [Runs -> SUBSET Groups]
        BY <2>2 DEF UpdateSubmittedAt, Done, TypeOK
      <3>2. pc' \in [Runs -> Places]
        BY <2>2 DEF UpdateSubmittedAt, Done, Goto, TypeOK, Places
      <3> QED
        BY <2>2, <3>1, <3>2 DEF UpdateSubmittedAt, TypeOK
    <2> QED
      BY <1>10, <2>1, <2>2
  <1>11. ASSUME NEW r \in Runs, CallFails(r)
         PROVE  TypeOK'
    BY <1>11, CutOK, FailOK, FaultOK DEF CallFails, TypeOK, WorkOK
  <1>12. ASSUME NEW r \in Runs, RunDone(r)
         PROVE  TypeOK'
    BY <1>12 DEF RunDone, Goto, TypeOK, Places
  <1>13. ASSUME NEW r \in Runs, Crash(r)
         PROVE  TypeOK'
    BY <1>13, CutOK, FaultOK DEF Crash, Goto, TypeOK, Places
  <1>14. ASSUME NEW g \in Groups, Change(g)
         PROVE  TypeOK'
    BY <1>14, BoundsAssumption DEF Change, TypeOK
  <1>15. CASE UNCHANGED vars
    BY <1>15 DEF vars, TypeOK
  <1> QED
    BY <1>1, <1>2, <1>3, <1>4, <1>5, <1>6, <1>7, <1>8, <1>9, <1>10, <1>11, <1>12,
       <1>13, <1>14, <1>15 DEF Next, Step, MonthOver

\* Whatever the bounds: totals stay sums of reservations, runs work on existing rows.
THEOREM TypeCorrect == Spec => []TypeOK
  <1>1. Init => TypeOK
    BY BoundsAssumption DEF Init, TypeOK, Sums, Places
  <1> QED
    BY <1>1, TypeKept, PTL DEF Spec

-----------------------------------------------------------------------------
(* A submitted row was paid.  What the run still knows before it writes a mark *)
(* makes the invariant inductive: the charge behind it, then the mark before.  *)

PaidInv ==
    /\ SubmittedWasPaid
    /\ \A r \in Runs : pc[r] = "mark" => paid[cur[r]] > 0
    /\ \A r \in Runs : pc[r] = "submit" => cur[r] \in confirmed

\* The steps that write a mark or charge; all others only move a run about.
Charging(r) == ConfirmTransaction(r) \/ ConfirmUnanswered(r)
Marking(r)  == UpdatePaymentConfirmedAt(r) \/ UpdateSubmittedAt(r)

\* No step but the two updates takes a run past "mark", and none but the charge to it.
LEMMA Moves ==
    ASSUME TypeOK, [Next]_vars, NEW r \in Runs
    PROVE  /\ pc'[r] = "mark" =>
                 \/ ConfirmTransaction(r)
                 \/ pc[r] = "mark" /\ cur'[r] = cur[r]
           /\ pc'[r] = "submit" =>
                 \/ UpdatePaymentConfirmedAt(r)
                 \/ pc[r] = "submit" /\ cur'[r] = cur[r]
                 \/ cur'[r] \in confirmed
  <1>1. ASSUME NEW q \in Runs, Aggregate(q) \/ FindUnsubmitted(q) \/ ReadFails(q)
                               \/ Authorize(q) \/ RunDone(q) \/ Crash(q)
        PROVE  (pc'[r] = pc[r] \/ pc'[r] \notin {"mark", "submit"}) /\ cur' = cur
    BY <1>1 DEF Aggregate, FindUnsubmitted, ReadFails, Authorize, RunDone, Crash,
                Goto, TypeOK, work
  <1>2. ASSUME NEW q \in Runs, UpsertBatch(q)
        PROVE  (pc'[r] = pc[r] \/ pc'[r] \notin {"mark", "submit"}) /\ cur' = cur
    BY <1>2 DEF UpsertBatch, Goto, TypeOK, work
  <1>3. ASSUME NEW q \in Runs, NEW g \in Groups, FindByID(q, g)
        PROVE  \/ UNCHANGED <<pc[r], cur[r]>>
               \/ pc'[r] \notin {"mark", "submit"}
               \/ pc'[r] = "submit" /\ cur'[r] \in confirmed
    <2>1. CASE q = r
      BY <1>3, <2>1 DEF FindByID, StateOf, Goto, TypeOK
    <2>2. CASE q # r
      BY <1>3, <2>2 DEF FindByID, Goto, TypeOK
    <2> QED
      BY <2>1, <2>2
  <1>4. ASSUME NEW q \in Runs, ConfirmUnanswered(q) \/ CallFails(q)
        PROVE  (pc'[r] = pc[r] \/ pc'[r] = "next") /\ cur' = cur
    BY <1>4 DEF ConfirmUnanswered, CallFails, Fail, Done, Goto, TypeOK
  <1>5. ASSUME NEW q \in Runs, ConfirmTransaction(q) \/ UpdatePaymentConfirmedAt(q)
        PROVE  (pc'[r] = pc[r] \/ q = r) /\ cur' = cur
    BY <1>5 DEF ConfirmTransaction, UpdatePaymentConfirmedAt, Goto, TypeOK, work
  <1>6. ASSUME NEW q \in Runs, UpdateSubmittedAt(q)
        PROVE  (pc'[r] = pc[r] \/ pc'[r] = "next") /\ cur' = cur
    BY <1>6 DEF UpdateSubmittedAt, Done, Goto, TypeOK
  <1>7. CASE UNCHANGED <<pc, cur>>
    BY <1>7
  <1>8. ASSUME NEW q \in Runs, ConfirmTransaction(q)
        PROVE  pc'[q] = "mark"
    BY <1>8 DEF ConfirmTransaction, Goto, TypeOK
  <1>9. ASSUME NEW q \in Runs, UpdatePaymentConfirmedAt(q)
        PROVE  pc'[q] = "submit"
    BY <1>9 DEF UpdatePaymentConfirmedAt, Goto, TypeOK
  <1>10. ASSUME NEW q \in Runs, NEW g \in Groups, FindByIDFails(q, g)
         PROVE  UNCHANGED <<pc, cur>>
    BY <1>10 DEF FindByIDFails
  <1>11. ASSUME NEW g \in Groups, Change(g)
         PROVE  UNCHANGED <<pc, cur>>
    BY <1>11 DEF Change, work
  <1> QED
    BY <1>1, <1>2, <1>3, <1>4, <1>5, <1>6, <1>7, <1>8, <1>9, <1>10, <1>11
       DEF Next, Step, MonthOver, vars, work

\* Charges only accumulate, and the columns only get set.
LEMMA Marks ==
    ASSUME TypeOK, [Next]_vars
    PROVE  /\ \A g \in Groups : paid'[g] >= paid[g]
           /\ \/ UNCHANGED <<confirmed, submitted>>
              \/ \E r \in Runs : /\ pc[r] = "mark" /\ submitted' = submitted
                                /\ confirmed' = confirmed \cup {cur[r]}
              \/ \E r \in Runs : /\ pc[r] = "submit" /\ confirmed' = confirmed
                                /\ submitted' = submitted \cup {cur[r]}
  <1> USE DEF table, money
  <1>1. ASSUME NEW r \in Runs, Charging(r)
        PROVE  (\A g \in Groups : paid'[g] >= paid[g]) /\ UNCHANGED <<confirmed, submitted>>
    BY <1>1 DEF Charging, ConfirmTransaction, ConfirmUnanswered, Charge, TypeOK
  <1>2. ASSUME UNCHANGED paid
        PROVE  \A g \in Groups : paid'[g] >= paid[g]
    BY <1>2 DEF TypeOK
  <1>3. ASSUME NEW r \in Runs, Marking(r)
        PROVE  /\ UNCHANGED paid
               /\ \/ /\ pc[r] = "mark" /\ submitted' = submitted
                     /\ confirmed' = confirmed \cup {cur[r]}
                  \/ /\ pc[r] = "submit" /\ confirmed' = confirmed
                     /\ submitted' = submitted \cup {cur[r]}
    BY <1>3 DEF Marking, UpdatePaymentConfirmedAt, UpdateSubmittedAt
  <1>4. ASSUME NEW r \in Runs, Aggregate(r) \/ Step(r) \/ Crash(r), ~Charging(r), ~Marking(r)
        PROVE  UNCHANGED <<paid, confirmed, submitted>>
    BY <1>4 DEF Charging, Marking, Step, Aggregate, UpsertBatch, FindUnsubmitted, ReadFails,
                FindByID, FindByIDFails, Authorize, CallFails, RunDone, Crash
  <1>5. ASSUME NEW g \in Groups, Change(g)
        PROVE  UNCHANGED <<paid, confirmed, submitted>>
    BY <1>5 DEF Change
  <1> QED
    BY <1>1, <1>2, <1>3, <1>4, <1>5 DEF Next, MonthOver, vars

LEMMA PaidKept ==
    ASSUME TypeOK, PaidInv, [Next]_vars
    PROVE  PaidInv'
  <1> DEFINE Cur(r) == cur[r]
  <1>1. \A r \in Runs : cur[r] \in Groups
    BY DEF TypeOK
  <1>2. \A g \in Groups : paid[g] \in Nat /\ paid'[g] \in Nat /\ paid'[g] >= paid[g]
    BY Marks, TypeKept DEF TypeOK
  <1>3. confirmed \subseteq confirmed'
    BY Marks
  <1>4. \A g \in confirmed' : paid'[g] > 0
    BY <1>1, <1>2, Marks DEF PaidInv, SubmittedWasPaid, TypeOK
  <1>5. submitted' \subseteq confirmed'
    BY Marks DEF PaidInv, SubmittedWasPaid
  <1>6. ASSUME NEW r \in Runs, pc'[r] = "mark"
        PROVE  paid'[cur'[r]] > 0
    <2>1. CASE ConfirmTransaction(r)
      BY <2>1, <1>1 DEF ConfirmTransaction, Charge, TypeOK, work
    <2>2. CASE pc[r] = "mark" /\ cur'[r] = cur[r]
      BY <2>2, <1>1, <1>2 DEF PaidInv
    <2> QED
      BY <1>6, <2>1, <2>2, Moves
  <1>7. ASSUME NEW r \in Runs, pc'[r] = "submit"
        PROVE  cur'[r] \in confirmed'
    <2>1. CASE UpdatePaymentConfirmedAt(r)
      BY <2>1 DEF UpdatePaymentConfirmedAt, work
    <2>2. CASE pc[r] = "submit" /\ cur'[r] = cur[r]
      BY <2>2, <1>3 DEF PaidInv
    <2> QED
      BY <1>3, <1>7, <2>1, <2>2, Moves
  <1> QED
    BY <1>4, <1>5, <1>6, <1>7 DEF PaidInv, SubmittedWasPaid

\* Whatever processes overlap, stop or fail to read or write: no row is submitted that
\* was not confirmed, and none confirmed that was not charged.
THEOREM SubmittedPaid == Spec => []SubmittedWasPaid
  <1>1. Init => PaidInv
    BY DEF Init, PaidInv, SubmittedWasPaid
  <1>2. PaidInv => SubmittedWasPaid
    BY DEF PaidInv
  <1> QED
    BY <1>1, <1>2, PaidKept, TypeCorrect, PTL DEF Spec

-----------------------------------------------------------------------------
(* A successful run is complete.  Every row it found is submitted, still to do *)
(* or counted as failed, so with nothing to do and nothing failed all are      *)
(* submitted; other runs can only submit more.                                 *)

Working == {"next", "auth", "pay", "mark", "submit"}
Accounted(r) ==
    /\ pc[r] \in Working => unsubmitted[r] \subseteq submitted \cup todo[r] \cup failed[r]
    /\ pc[r] = "ok" => unsubmitted[r] \subseteq submitted
CompleteInv == \A r \in Runs : Accounted(r)

\* A step of another run, or of the reservation server, leaves a run's books alone.
LEMMA OwnBooks ==
    ASSUME TypeOK, [Next]_vars, NEW r \in Runs,
           ~(Aggregate(r) \/ Step(r) \/ Crash(r))
    PROVE  UNCHANGED <<pc[r], unsubmitted[r], todo[r], failed[r]>>
  <1>1. ASSUME NEW q \in Runs, q # r, Aggregate(q) \/ Crash(q)
        PROVE  UNCHANGED <<pc[r], unsubmitted[r], todo[r], failed[r]>>
    BY <1>1 DEF Aggregate, Crash, Goto, TypeOK, work
  <1>2. ASSUME NEW q \in Runs, q # r, Step(q)
        PROVE  UNCHANGED <<pc[r], unsubmitted[r], todo[r], failed[r]>>
    <2>1. CASE UpsertBatch(q) \/ FindUnsubmitted(q) \/ ReadFails(q)
      BY <1>2, <2>1 DEF UpsertBatch, FindUnsubmitted, ReadFails, Goto, TypeOK, work
    <2>2. ASSUME NEW g \in Groups, FindByID(q, g) \/ FindByIDFails(q, g)
          PROVE  UNCHANGED <<pc[r], unsubmitted[r], todo[r], failed[r]>>
      BY <1>2, <2>2 DEF FindByID, FindByIDFails, Goto, TypeOK
    <2>3. CASE Authorize(q) \/ ConfirmTransaction(q) \/ UpdatePaymentConfirmedAt(q) \/ RunDone(q)
      BY <1>2, <2>3 DEF Authorize, ConfirmTransaction, UpdatePaymentConfirmedAt, RunDone,
                        Goto, TypeOK, work
    <2>4. CASE ConfirmUnanswered(q) \/ UpdateSubmittedAt(q) \/ CallFails(q)
      BY <1>2, <2>4 DEF ConfirmUnanswered, UpdateSubmittedAt, CallFails, Fail, Done, Goto, TypeOK
    <2> QED
      BY <1>2, <2>1, <2>2, <2>3, <2>4 DEF Step
  <1>3. ASSUME NEW g \in Groups, Change(g)
        PROVE  UNCHANGED <<pc[r], unsubmitted[r], todo[r], failed[r]>>
    BY <1>3 DEF Change, work
  <1> QED
    BY <1>1, <1>2, <1>3 DEF Next, MonthOver, vars, work

LEMMA SubmittedGrows ==
    ASSUME TypeOK, [Next]_vars
    PROVE  submitted \subseteq submitted'
  BY Marks

LEMMA AccountedKept ==
    ASSUME TypeOK, [Next]_vars, NEW r \in Runs, Accounted(r)
    PROVE  Accounted(r)'
  <1> USE SubmittedGrows
  <1>1. CASE UNCHANGED <<pc[r], unsubmitted[r], todo[r], failed[r]>>
    BY <1>1 DEF Accounted
  <1>2. CASE Aggregate(r) \/ UpsertBatch(r) \/ ReadFails(r) \/ Crash(r)
    BY <1>2 DEF Aggregate, UpsertBatch, ReadFails, Crash, Goto, TypeOK, Accounted, Working
  <1>3. CASE FindUnsubmitted(r)
    BY <1>3 DEF FindUnsubmitted, Goto, TypeOK, Accounted, Working
  <1>4. ASSUME NEW g \in Groups, FindByID(r, g)
        PROVE  Accounted(r)'
    <2>1. /\ pc[r] = "next" /\ pc'[r] \in {"next", "submit", "auth"}
          /\ UNCHANGED <<unsubmitted, failed>>
      BY <1>4 DEF FindByID, StateOf, Goto, TypeOK
    <2>2. todo[r] \subseteq submitted \cup todo'[r]
      BY <1>4 DEF FindByID, TypeOK
    <2> QED
      BY <2>1, <2>2 DEF Accounted, Working
  <1>5. ASSUME NEW g \in Groups, FindByIDFails(r, g)
        PROVE  Accounted(r)'
    BY <1>5 DEF FindByIDFails, TypeOK, Accounted, Working
  <1>6. CASE Authorize(r) \/ ConfirmTransaction(r) \/ UpdatePaymentConfirmedAt(r)
    BY <1>6 DEF Authorize, ConfirmTransaction, UpdatePaymentConfirmedAt, Goto, TypeOK,
                Accounted, Working, work
  <1>7. CASE ConfirmUnanswered(r) \/ CallFails(r)
    <2>1. pc[r] \in Working /\ pc'[r] = "next" /\ UNCHANGED unsubmitted
      BY <1>7 DEF ConfirmUnanswered, CallFails, Fail, Done, Goto, TypeOK, Working
    <2>2. todo'[r] \cup failed'[r] = todo[r] \cup failed[r] \cup {cur[r]}
      BY <1>7 DEF ConfirmUnanswered, CallFails, Fail, Done, TypeOK
    <2> QED
      BY <2>1, <2>2 DEF Accounted, Working
  <1>8. CASE UpdateSubmittedAt(r)
    <2>1. /\ pc[r] = "submit" /\ pc'[r] = "next" /\ UNCHANGED <<unsubmitted, failed>>
          /\ submitted' = submitted \cup {cur[r]}
      BY <1>8 DEF UpdateSubmittedAt, Done, Goto, TypeOK
    <2>2. todo'[r] = todo[r] \ {cur[r]}
      BY <1>8 DEF UpdateSubmittedAt, Done, TypeOK
    <2> QED
      BY <2>1, <2>2 DEF Accounted, Working
  <1>9. CASE RunDone(r)
    BY <1>9 DEF RunDone, Goto, TypeOK, Accounted, Working, work
  <1> QED
    BY <1>1, <1>2, <1>3, <1>4, <1>5, <1>6, <1>7, <1>8, <1>9, OwnBooks DEF Step

\* Although a run goes on after a row that fails, and others submit rows under it: when
\* it exits with 0, all it found unsubmitted is submitted.
THEOREM SuccessComplete == Spec => []SuccessIsComplete
  <1>1. Init => CompleteInv
    BY DEF Init, CompleteInv, Accounted, Working
  <1>2. TypeOK /\ CompleteInv /\ [Next]_vars => CompleteInv'
    BY AccountedKept DEF CompleteInv
  <1>3. CompleteInv => SuccessIsComplete
    BY DEF CompleteInv, Accounted, SuccessIsComplete
  <1> QED
    BY <1>1, <1>2, <1>3, TypeCorrect, PTL DEF Spec

-----------------------------------------------------------------------------
(* A submitted row is final.  A run on its way to a charge read the row before *)
(* its payment was confirmed; that holds until it charges, whoever confirms the *)
(* payment meanwhile.                                                          *)

ReadInTime == \A r \in Runs : pc[r] \in {"auth", "pay"} => ~settled[r]

\* Only reading a row sets the note, and a row that is paid for is not charged.
LEMMA ReadInTimeKept ==
    ASSUME TypeOK, ReadInTime, [Next]_vars
    PROVE  ReadInTime'
  <1> USE DEF ReadInTime, work, TypeOK
  <1>1. ASSUME NEW r \in Runs, Aggregate(r) \/ UpsertBatch(r) \/ FindUnsubmitted(r)
                               \/ ReadFails(r) \/ RunDone(r) \/ Crash(r)
        PROVE  ReadInTime'
    BY <1>1 DEF Aggregate, UpsertBatch, FindUnsubmitted, ReadFails, RunDone, Crash, Goto
  <1>2. ASSUME NEW r \in Runs, NEW g \in Groups, FindByID(r, g)
        PROVE  ReadInTime'
    BY <1>2 DEF FindByID, StateOf, Goto
  <1>3. ASSUME NEW r \in Runs, NEW g \in Groups, FindByIDFails(r, g)
        PROVE  ReadInTime'
    BY <1>3 DEF FindByIDFails
  <1>4. ASSUME NEW r \in Runs, Authorize(r) \/ ConfirmTransaction(r)
                               \/ UpdatePaymentConfirmedAt(r)
        PROVE  ReadInTime'
    BY <1>4 DEF Authorize, ConfirmTransaction, UpdatePaymentConfirmedAt, Goto
  <1>5. ASSUME NEW r \in Runs, ConfirmUnanswered(r) \/ UpdateSubmittedAt(r) \/ CallFails(r)
        PROVE  ReadInTime'
    BY <1>5 DEF ConfirmUnanswered, UpdateSubmittedAt, CallFails, Fail, Done, Goto
  <1>6. ASSUME NEW g \in Groups, Change(g)
        PROVE  ReadInTime'
    BY <1>6 DEF Change
  <1>7. CASE UNCHANGED vars
    BY <1>7 DEF vars
  <1> QED
    BY <1>1, <1>2, <1>3, <1>4, <1>5, <1>6, <1>7 DEF Next, Step, MonthOver

\* A charge is made by a run that read the row in time.
LEMMA ChargedInTime ==
    ASSUME TypeOK, ReadInTime, [Next]_vars, NEW g \in Groups, paid'[g] # paid[g]
    PROVE  \E r \in Runs : cur[r] = g /\ ~settled[r] /\ pc'[r] # pc[r]
  <1>1. ASSUME NEW r \in Runs, Charging(r)
        PROVE  \E q \in Runs : cur[q] = g /\ ~settled[q] /\ pc'[q] # pc[q]
    <2>1. pc[r] = "pay" /\ pc'[r] \in {"mark", "next"}
      BY <1>1 DEF Charging, ConfirmTransaction, ConfirmUnanswered, Fail, Done, Goto, TypeOK
    <2>2. cur[r] = g
      BY <1>1 DEF Charging, ConfirmTransaction, ConfirmUnanswered, Charge, TypeOK
    <2>3. ~settled[r]
      BY <2>1 DEF ReadInTime
    <2> QED
      BY <2>1, <2>2, <2>3
  <1>2. ASSUME NEW r \in Runs, Aggregate(r) \/ Step(r) \/ Crash(r), ~Charging(r)
        PROVE  UNCHANGED paid
    BY <1>2 DEF Charging, Step, Aggregate, UpsertBatch, FindUnsubmitted, ReadFails, FindByID,
                FindByIDFails, Authorize, CallFails, UpdatePaymentConfirmedAt,
                UpdateSubmittedAt, RunDone, Crash, money
  <1>3. ASSUME NEW q \in Groups, Change(q)
        PROVE  UNCHANGED paid
    BY <1>3 DEF Change, money
  <1> QED
    BY <1>1, <1>2, <1>3 DEF Next, MonthOver, vars, money

\* A submitted row keeps its total and its marks.
LEMMA SubmittedKept ==
    ASSUME TypeOK, PaidInv, [Next]_vars, NEW g \in submitted
    PROVE  g \in submitted' /\ g \in confirmed' /\ total'[g] = total[g]
  <1>1. g \in Groups /\ g \in confirmed
    BY DEF PaidInv, SubmittedWasPaid, TypeOK
  <1>2. g \in submitted' /\ g \in confirmed'
    BY <1>1, Marks
  <1>3. ASSUME NEW r \in Runs, UpsertBatch(r)
        PROVE  total'[g] = total[g]
    BY <1>1, <1>3 DEF UpsertBatch
  <1>4. ASSUME NEW r \in Runs, Aggregate(r) \/ Step(r) \/ Crash(r), ~UpsertBatch(r)
        PROVE  UNCHANGED total
    BY <1>4 DEF Step, Aggregate, FindUnsubmitted, ReadFails, FindByID, FindByIDFails, Authorize,
                ConfirmTransaction, ConfirmUnanswered, CallFails, UpdatePaymentConfirmedAt,
                UpdateSubmittedAt, RunDone, Crash, table
  <1>5. ASSUME NEW q \in Groups, Change(q)
        PROVE  UNCHANGED total
    BY <1>5 DEF Change, table
  <1> QED
    BY <1>2, <1>3, <1>4, <1>5 DEF Next, MonthOver, vars, table

\* Two overlapping runs, a repeated batch and the reservation server leave a submitted
\* row's total and marks alone, and no run charges a row whose payment was confirmed when
\* the run read it.
THEOREM SubmittedFinal == Spec => SubmittedIsFinal
  <1> DEFINE Final == /\ \A g \in submitted :
                            g \in submitted' /\ g \in confirmed' /\ total'[g] = total[g]
                      /\ \A g \in Groups : paid'[g] # paid[g] =>
                            \E r \in Runs : cur[r] = g /\ ~settled[r] /\ pc'[r] # pc[r]
  <1>1. Init => PaidInv /\ ReadInTime
    BY DEF Init, PaidInv, SubmittedWasPaid, ReadInTime
  <1>2. TypeOK /\ PaidInv /\ ReadInTime /\ [Next]_vars => PaidInv' /\ ReadInTime'
    BY PaidKept, ReadInTimeKept
  <1>3. TypeOK /\ PaidInv /\ ReadInTime /\ [Next]_vars => Final
    BY ChargedInTime, SubmittedKept
  <1> QED
    BY <1>1, <1>2, <1>3, TypeCorrect, PTL DEF Spec, SubmittedIsFinal

-----------------------------------------------------------------------------
(* What a submitted row shows.  As long as a group's reservations stay as they *)
(* were first summed, every sum of it anywhere is the same one: in the row, in *)
(* a run about to write it, in a run about to charge it, at the payment        *)
(* service.  Only rows are charged, and only what was charged is confirmed.    *)

Paying == {"auth", "pay", "mark"}
OnlyRows ==
    /\ confirmed \subseteq rows
    /\ \A r \in Runs : todo[r] \subseteq rows
    /\ \A r \in Runs : pc[r] \in Paying => cur[r] \in rows
    /\ \A g \in Groups : charged[g] # {} => g \in rows
    /\ \A g \in confirmed : charged[g] # {}
    /\ \A r \in Runs : pc[r] = "mark" => charged[cur[r]] # {}
OneSum(g) ==
    \/ g \in moved
    \/ /\ g \in rows => total[g] = due[g]
       /\ charged[g] \subseteq {due[g]}
       /\ \A r \in Runs : pc[r] = "upsert" => found[r][g] = due[g]
       /\ \A r \in Runs : pc[r] \in Paying /\ cur[r] = g => amount[r] = due[g]

LEMMA OnlyRowsKept ==
    ASSUME TypeOK, PaidInv, OnlyRows, [Next]_vars
    PROVE  OnlyRows'
  <1> USE DEF OnlyRows, Paying, table, money, work, TypeOK
  <1>1. ASSUME NEW r \in Runs, Aggregate(r) \/ UpsertBatch(r) \/ FindUnsubmitted(r)
        PROVE  OnlyRows'
    <2>1. CASE Aggregate(r)
      BY <2>1 DEF Aggregate, Goto
    <2>2. CASE UpsertBatch(r)
      <3>1. rows \subseteq rows' /\ pc' = [pc EXCEPT ![r] = "find"]
        BY <2>2 DEF UpsertBatch, Goto
      <3>2. UNCHANGED <<confirmed, charged, todo, cur>>
        BY <2>2 DEF UpsertBatch
      <3> QED
        BY <3>1, <3>2
    <2>3. CASE FindUnsubmitted(r)
      BY <2>3 DEF FindUnsubmitted, Goto
    <2> QED
      BY <1>1, <2>1, <2>2, <2>3
  <1>2. ASSUME NEW r \in Runs, NEW g \in Groups, FindByID(r, g)
        PROVE  OnlyRows'
    BY <1>2 DEF FindByID, StateOf, Goto
  <1>3. ASSUME NEW r \in Runs, NEW g \in Groups, FindByIDFails(r, g)
        PROVE  OnlyRows'
    BY <1>3 DEF FindByIDFails
  <1>4. ASSUME NEW r \in Runs, ReadFails(r) \/ Authorize(r) \/ RunDone(r) \/ Crash(r)
        PROVE  OnlyRows'
    BY <1>4 DEF ReadFails, Authorize, RunDone, Crash, Goto
  <1>5. ASSUME NEW r \in Runs, ConfirmTransaction(r)
        PROVE  OnlyRows'
    BY <1>5 DEF ConfirmTransaction, Charge, Goto
  <1>6. ASSUME NEW r \in Runs, ConfirmUnanswered(r)
        PROVE  OnlyRows'
    BY <1>6 DEF ConfirmUnanswered, Charge, Fail, Done, Goto
  <1>7. ASSUME NEW r \in Runs, CallFails(r)
        PROVE  OnlyRows'
    BY <1>7 DEF CallFails, Fail, Done, Goto
  <1>8. ASSUME NEW r \in Runs, UpdatePaymentConfirmedAt(r)
        PROVE  OnlyRows'
    BY <1>8 DEF UpdatePaymentConfirmedAt, Goto
  <1>9. ASSUME NEW r \in Runs, UpdateSubmittedAt(r)
        PROVE  OnlyRows'
    <2>1. todo'[r] \subseteq todo[r] /\ \A q \in Runs \ {r} : todo'[q] = todo[q]
      BY <1>9 DEF UpdateSubmittedAt, Done
    <2>2. pc' = [pc EXCEPT ![r] = "next"]
      BY <1>9 DEF UpdateSubmittedAt, Done, Goto
    <2> QED
      BY <1>9, <2>1, <2>2 DEF UpdateSubmittedAt
  <1>10. ASSUME NEW g \in Groups, Change(g)
         PROVE  OnlyRows'
    BY <1>10 DEF Change
  <1>11. CASE UNCHANGED vars
    BY <1>11 DEF vars
  <1> QED
    BY <1>1, <1>2, <1>3, <1>4, <1>5, <1>6, <1>7, <1>8, <1>9, <1>10, <1>11
       DEF Next, Step, MonthOver

LEMMA OneSumKept ==
    ASSUME TypeOK, PaidInv, OnlyRows, [Next]_vars, NEW g \in Groups, OneSum(g)
    PROVE  OneSum(g)'
  <1> USE DEF OneSum, Paying, table, money, work, world, TypeOK
  <1>1. ASSUME NEW r \in Runs, Aggregate(r)
        PROVE  OneSum(g)'
    BY <1>1 DEF Aggregate, Goto
  <1>2. ASSUME NEW r \in Runs, UpsertBatch(r)
        PROVE  OneSum(g)'
    <2>1. CASE g \in moved
      BY <1>2, <2>1 DEF UpsertBatch
    <2>2. CASE g \notin moved
      <3>1. found[r][g] = due[g] /\ pc' = [pc EXCEPT ![r] = "find"]
        BY <1>2, <2>2 DEF UpsertBatch, Goto
      <3>2. g \in rows' => total'[g] = due[g]
        BY <1>2, <2>2, <3>1 DEF UpsertBatch, Owing, OnlyRows, PaidInv, SubmittedWasPaid
      <3> QED
        BY <1>2, <2>2, <3>1, <3>2 DEF UpsertBatch
    <2> QED
      BY <2>1, <2>2
  <1>3. ASSUME NEW r \in Runs, NEW q \in Groups, FindByID(r, q)
        PROVE  OneSum(g)'
    BY <1>3 DEF FindByID, StateOf, Goto, OnlyRows
  <1>4. ASSUME NEW r \in Runs, NEW q \in Groups, FindByIDFails(r, q)
        PROVE  OneSum(g)'
    BY <1>4 DEF FindByIDFails
  <1>5. ASSUME NEW r \in Runs, FindUnsubmitted(r) \/ ReadFails(r) \/ Authorize(r)
                               \/ RunDone(r) \/ Crash(r)
        PROVE  OneSum(g)'
    BY <1>5 DEF FindUnsubmitted, ReadFails, Authorize, RunDone, Crash, Goto
  <1>6. ASSUME NEW r \in Runs, ConfirmTransaction(r)
        PROVE  OneSum(g)'
    BY <1>6 DEF ConfirmTransaction, Charge, Goto
  <1>7. ASSUME NEW r \in Runs, ConfirmUnanswered(r)
        PROVE  OneSum(g)'
    BY <1>7 DEF ConfirmUnanswered, Charge, Fail, Done, Goto
  <1>8. ASSUME NEW r \in Runs, CallFails(r)
        PROVE  OneSum(g)'
    BY <1>8 DEF CallFails, Fail, Done, Goto
  <1>9. ASSUME NEW r \in Runs, UpdatePaymentConfirmedAt(r)
        PROVE  OneSum(g)'
    BY <1>9 DEF UpdatePaymentConfirmedAt, Goto
  <1>10. ASSUME NEW r \in Runs, UpdateSubmittedAt(r)
         PROVE  OneSum(g)'
    BY <1>10 DEF UpdateSubmittedAt, Done, Goto
  <1>11. ASSUME NEW q \in Groups, Change(q)
         PROVE  OneSum(g)'
    BY <1>11 DEF Change, OnlyRows
  <1>12. CASE UNCHANGED vars
    BY <1>12 DEF vars
  <1> QED
    BY <1>1, <1>2, <1>3, <1>4, <1>5, <1>6, <1>7, <1>8, <1>9, <1>10, <1>11, <1>12
       DEF Next, Step, MonthOver

\* Unless a reservation of the group changed after the group was first summed, the
\* total of its submitted row is an amount the payment service charged.
THEOREM SubmittedTotal == Spec => []SubmittedTotalWasCharged
  <1> DEFINE SumInv == PaidInv /\ OnlyRows /\ \A g \in Groups : OneSum(g)
  <1>1. Init => SumInv
    BY DEF Init, PaidInv, SubmittedWasPaid, OnlyRows, OneSum, Paying
  <1>2. TypeOK /\ SumInv /\ [Next]_vars => SumInv'
    BY PaidKept, OnlyRowsKept, OneSumKept
  <1>3. TypeOK /\ SumInv => SubmittedTotalWasCharged
    BY DEF PaidInv, SubmittedWasPaid, OnlyRows, OneSum, SubmittedTotalWasCharged, TypeOK
  <1> QED
    BY <1>1, <1>2, <1>3, TypeCorrect, PTL DEF Spec

-----------------------------------------------------------------------------
(* How often a group is charged.  Until its payment is confirmed, every charge *)
(* is one of a run that still has to confirm it, or one that was cut short;    *)
(* once it is confirmed, only the runs already past their check can charge.    *)

Unconfirmed(g) == {r \in Runs : pc[r] = "mark" /\ cur[r] = g}
Committed(g)   == {r \in Runs : pc[r] \in {"auth", "pay"} /\ cur[r] = g}
Balanced(g) ==
    IF g \in confirmed
    THEN paid[g] + Cardinality(Committed(g)) <= Cardinality(Runs) + cut[g]
    ELSE paid[g] = cut[g] + Cardinality(Unconfirmed(g))

One(member, S) == IF member \in S THEN 1 ELSE 0

\* Two sets of runs that differ in one run at most.
LEMMA CountByOne ==
    ASSUME NEW S \in SUBSET Runs, NEW T \in SUBSET Runs, NEW r, S \ {r} = T \ {r}
    PROVE  /\ Cardinality(S) \in Nat /\ Cardinality(T) \in Nat
           /\ Cardinality(T) + One(r, S) = Cardinality(S) + One(r, T)
  <1>1. IsFiniteSet(S) /\ IsFiniteSet(T)
    BY RunsAssumption, FS_Subset
  <1>2. Cardinality(S) \in Nat /\ Cardinality(T) \in Nat
    BY <1>1, FS_CardinalityType
  <1>3. /\ Cardinality(S \ {r}) = IF r \in S THEN Cardinality(S) - 1 ELSE Cardinality(S)
        /\ Cardinality(T \ {r}) = IF r \in T THEN Cardinality(T) - 1 ELSE Cardinality(T)
    BY <1>1, FS_RemoveElement
  <1> QED
    BY <1>2, <1>3 DEF One

\* Those that charged and those that will are different runs.
LEMMA CountTogether ==
    ASSUME NEW g \in Groups
    PROVE  Cardinality(Unconfirmed(g)) + Cardinality(Committed(g)) <= Cardinality(Runs)
  <1> DEFINE U == Unconfirmed(g)
             C == Committed(g)
  <1>1. U \in SUBSET Runs /\ C \in SUBSET Runs /\ U \cap C = {}
    BY DEF Unconfirmed, Committed
  <1> HIDE DEF U, C
  <1>2. IsFiniteSet(U) /\ IsFiniteSet(C)
    BY <1>1, RunsAssumption, FS_Subset
  <1>3. Cardinality(U \cup C) = Cardinality(U) + Cardinality(C) - Cardinality(U \cap C)
    BY <1>2, FS_Union
  <1>4. Cardinality(U \cup C) <= Cardinality(Runs)
    BY <1>1, RunsAssumption, FS_Subset
  <1>5. Cardinality(U) \in Nat /\ Cardinality(C) \in Nat /\ Cardinality(Runs) \in Nat
        /\ Cardinality({}) = 0
    BY <1>2, RunsAssumption, FS_CardinalityType, FS_EmptySet
  <1>6. Cardinality(U \cap C) = 0
    BY <1>1, FS_EmptySet
  <1>7. Cardinality(U) + Cardinality(C) <= Cardinality(Runs)
    BY <1>3, <1>4, <1>5, <1>6
  <1> QED
    BY <1>7 DEF U, C

\* A step of one run moves no other.
LEMMA OneRunMoves ==
    ASSUME TypeOK, NEW r \in Runs, Aggregate(r) \/ Step(r) \/ Crash(r)
    PROVE  \A q \in Runs : q # r => pc'[q] = pc[q] /\ cur'[q] = cur[q]
  <1>1. CASE Aggregate(r) \/ Crash(r)
    BY <1>1 DEF Aggregate, Crash, Goto, TypeOK, work
  <1>2. CASE UpsertBatch(r) \/ FindUnsubmitted(r) \/ ReadFails(r) \/ RunDone(r)
    BY <1>2 DEF UpsertBatch, FindUnsubmitted, ReadFails, RunDone, Goto, TypeOK, work
  <1>3. ASSUME NEW g \in Groups, FindByID(r, g) \/ FindByIDFails(r, g)
        PROVE  \A q \in Runs : q # r => pc'[q] = pc[q] /\ cur'[q] = cur[q]
    BY <1>3 DEF FindByID, FindByIDFails, Goto, TypeOK
  <1>4. CASE Authorize(r) \/ ConfirmTransaction(r) \/ UpdatePaymentConfirmedAt(r)
    BY <1>4 DEF Authorize, ConfirmTransaction, UpdatePaymentConfirmedAt, Goto, TypeOK, work
  <1>5. CASE ConfirmUnanswered(r) \/ UpdateSubmittedAt(r) \/ CallFails(r)
    BY <1>5 DEF ConfirmUnanswered, UpdateSubmittedAt, CallFails, Fail, Done, Goto, TypeOK
  <1> QED
    BY <1>1, <1>2, <1>3, <1>4, <1>5 DEF Step

\* What a step of run r does to the counts of a group, in numbers.
LEMMA Counts ==
    ASSUME TypeOK, NEW r \in Runs, Aggregate(r) \/ Step(r) \/ Crash(r), NEW g \in Groups
    PROVE  /\ Cardinality(Unconfirmed(g))' + One(r, Unconfirmed(g))
                = Cardinality(Unconfirmed(g)) + One(r, Unconfirmed(g)')
           /\ Cardinality(Committed(g))' + One(r, Committed(g))
                = Cardinality(Committed(g)) + One(r, Committed(g)')
           /\ Cardinality(Unconfirmed(g)) \in Nat /\ Cardinality(Unconfirmed(g))' \in Nat
           /\ Cardinality(Committed(g)) \in Nat /\ Cardinality(Committed(g))' \in Nat
  <1> DEFINE U == Unconfirmed(g)
             V == Unconfirmed(g)'
             C == Committed(g)
             D == Committed(g)'
  <1>1. U \ {r} = V \ {r} /\ C \ {r} = D \ {r}
    BY OneRunMoves DEF Unconfirmed, Committed
  <1>2. {U, V, C, D} \subseteq SUBSET Runs
    BY DEF Unconfirmed, Committed
  <1> HIDE DEF U, V, C, D
  <1>3. /\ Cardinality(V) + One(r, U) = Cardinality(U) + One(r, V)
        /\ Cardinality(U) \in Nat /\ Cardinality(V) \in Nat
    BY <1>1, <1>2, CountByOne
  <1>4. /\ Cardinality(D) + One(r, C) = Cardinality(C) + One(r, D)
        /\ Cardinality(C) \in Nat /\ Cardinality(D) \in Nat
    BY <1>1, <1>2, CountByOne
  <1> QED
    BY <1>3, <1>4 DEF U, V, C, D

\* A step that charges nothing and cuts nothing short, and takes no run of the group
\* past its check or to a charge.
LEMMA BalancedQuiet ==
    ASSUME TypeOK, NEW g \in Groups, Balanced(g), NEW r \in Runs,
           Aggregate(r) \/ Step(r) \/ Crash(r), UNCHANGED <<confirmed, paid, cut>>,
           r \in Unconfirmed(g) <=> r \in Unconfirmed(g)',
           g \in confirmed /\ r \in Committed(g)' => r \in Committed(g)
    PROVE  Balanced(g)'
  <1>1. paid[g] \in Nat /\ cut[g] \in Nat /\ Cardinality(Runs) \in Nat
    BY RunsAssumption, FS_CardinalityType DEF TypeOK
  <1> QED
    BY <1>1, Counts DEF Balanced, One

LEMMA BalancedKept ==
    ASSUME TypeOK, [Next]_vars, NEW g \in Groups, Balanced(g)
    PROVE  Balanced(g)'
  <1> USE DEF table, work, money, TypeOK
  <1>0. paid[g] \in Nat /\ cut[g] \in Nat /\ Cardinality(Runs) \in Nat
    BY RunsAssumption, FS_CardinalityType
  <1>1. ASSUME NEW r \in Runs,
               Aggregate(r) \/ UpsertBatch(r) \/ FindUnsubmitted(r) \/ ReadFails(r) \/ RunDone(r)
        PROVE  Balanced(g)'
    <2>1. UNCHANGED <<confirmed, paid, cut>> /\ r \notin Unconfirmed(g) /\ r \notin Unconfirmed(g)'
          /\ r \notin Committed(g)'
      BY <1>1 DEF Aggregate, UpsertBatch, FindUnsubmitted, ReadFails, RunDone, Ended, Goto,
                  Unconfirmed, Committed
    <2> QED
      BY <1>1, <2>1, BalancedQuiet DEF Step
  <1>2. ASSUME NEW r \in Runs, NEW q \in Groups, FindByID(r, q) \/ FindByIDFails(r, q)
        PROVE  Balanced(g)'
    <2>1. UNCHANGED <<confirmed, paid, cut>> /\ r \notin Unconfirmed(g) /\ r \notin Unconfirmed(g)'
      BY <1>2 DEF FindByID, FindByIDFails, StateOf, Goto, Unconfirmed
    <2>2. g \in confirmed => r \notin Committed(g)'
      BY <1>2 DEF FindByID, FindByIDFails, StateOf, Goto, Committed
    <2> QED
      BY <1>2, <2>1, <2>2, BalancedQuiet DEF Step
  <1>3. ASSUME NEW r \in Runs, Authorize(r) \/ UpdateSubmittedAt(r)
        PROVE  Balanced(g)'
    <2>1. UNCHANGED <<confirmed, paid, cut>> /\ r \notin Unconfirmed(g) /\ r \notin Unconfirmed(g)'
          /\ (r \in Committed(g)' => r \in Committed(g))
      BY <1>3 DEF Authorize, UpdateSubmittedAt, Done, Goto, Unconfirmed, Committed
    <2> QED
      BY <1>3, <2>1, BalancedQuiet DEF Step
  <1>4. ASSUME NEW r \in Runs, ConfirmTransaction(r)
        PROVE  Balanced(g)'
    <2>1. /\ r \notin Unconfirmed(g) /\ r \notin Committed(g)'
          /\ r \in Committed(g) <=> cur[r] = g
          /\ r \in Unconfirmed(g)' <=> cur[r] = g
      BY <1>4 DEF ConfirmTransaction, Goto, Unconfirmed, Committed
    <2>2. /\ paid'[g] = IF cur[r] = g THEN paid[g] + 1 ELSE paid[g]
          /\ UNCHANGED <<confirmed, cut>>
      BY <1>4 DEF ConfirmTransaction, Charge
    <2>3. Aggregate(r) \/ Step(r) \/ Crash(r)
      BY <1>4 DEF Step
    <2>4. /\ Cardinality(Unconfirmed(g))' = Cardinality(Unconfirmed(g)) + (IF cur[r] = g THEN 1 ELSE 0)
          /\ Cardinality(Committed(g))' + (IF cur[r] = g THEN 1 ELSE 0) = Cardinality(Committed(g))
          /\ Cardinality(Unconfirmed(g)) \in Nat /\ Cardinality(Committed(g))' \in Nat
      BY <2>1, <2>3, Counts DEF One
    <2> HIDE DEF TypeOK
    <2> QED
      BY <1>0, <2>2, <2>4 DEF Balanced
  <1>5. ASSUME NEW r \in Runs, ConfirmUnanswered(r)
        PROVE  Balanced(g)'
    <2>1. /\ r \notin Unconfirmed(g) /\ r \notin Unconfirmed(g)' /\ r \notin Committed(g)'
          /\ r \in Committed(g) <=> cur[r] = g
      BY <1>5 DEF ConfirmUnanswered, Fail, Done, Goto, Unconfirmed, Committed
    <2>2. /\ paid'[g] = IF cur[r] = g THEN paid[g] + 1 ELSE paid[g]
          /\ cut'[g] = IF cur[r] = g THEN cut[g] + 1 ELSE cut[g]
          /\ UNCHANGED confirmed
      BY <1>5 DEF ConfirmUnanswered, Charge
    <2>3. /\ Cardinality(Unconfirmed(g))' = Cardinality(Unconfirmed(g))
          /\ Cardinality(Committed(g))' + (IF cur[r] = g THEN 1 ELSE 0) = Cardinality(Committed(g))
          /\ Cardinality(Unconfirmed(g)) \in Nat /\ Cardinality(Committed(g))' \in Nat
      BY <1>5, <2>1, Counts DEF One, Step
    <2> QED
      BY <1>0, <2>2, <2>3 DEF Balanced
  <1>6. ASSUME NEW r \in Runs, CallFails(r) \/ Crash(r)
        PROVE  Balanced(g)'
    <2>1. /\ r \notin Unconfirmed(g)' /\ r \notin Committed(g)'
          /\ r \in Unconfirmed(g) <=> pc[r] = "mark" /\ cur[r] = g
      BY <1>6 DEF CallFails, Crash, Fail, Done, Goto, Unconfirmed, Committed
    <2>2. /\ cut'[g] = IF pc[r] = "mark" /\ cur[r] = g THEN cut[g] + 1 ELSE cut[g]
          /\ UNCHANGED <<confirmed, paid>>
      BY <1>6 DEF CallFails, Crash, CutShort
    <2>3. /\ Cardinality(Unconfirmed(g))' + (IF pc[r] = "mark" /\ cur[r] = g THEN 1 ELSE 0)
                = Cardinality(Unconfirmed(g))
          /\ Cardinality(Committed(g))' <= Cardinality(Committed(g))
          /\ Cardinality(Unconfirmed(g))' \in Nat
          /\ Cardinality(Committed(g)) \in Nat /\ Cardinality(Committed(g))' \in Nat
      <3>1. /\ One(r, Unconfirmed(g)') = 0 /\ One(r, Committed(g)') = 0
            /\ One(r, Committed(g)) \in {0, 1}
            /\ One(r, Unconfirmed(g)) = IF pc[r] = "mark" /\ cur[r] = g THEN 1 ELSE 0
        BY <2>1 DEF One
      <3>2. Aggregate(r) \/ Step(r) \/ Crash(r)
        BY <1>6 DEF Step
      <3> HIDE DEF TypeOK
      <3> QED
        BY <3>1, <3>2, Counts
    <2>4. CASE pc[r] = "mark" /\ cur[r] = g
      <3>1. cut'[g] = cut[g] + 1 /\ paid'[g] = paid[g]
            /\ Cardinality(Unconfirmed(g))' + 1 = Cardinality(Unconfirmed(g))
        BY <2>2, <2>3, <2>4
      <3> HIDE DEF TypeOK
      <3> QED
        BY <1>0, <2>2, <2>3, <3>1 DEF Balanced
    <2>5. CASE ~(pc[r] = "mark" /\ cur[r] = g)
      BY <1>0, <2>2, <2>3, <2>5 DEF Balanced
    <2> QED
      BY <2>4, <2>5
  <1>7. ASSUME NEW r \in Runs, UpdatePaymentConfirmedAt(r)
        PROVE  Balanced(g)'
    <2>1. /\ r \notin Unconfirmed(g)' /\ r \notin Committed(g)' /\ r \notin Committed(g)
          /\ UNCHANGED <<paid, cut>> /\ confirmed' = confirmed \cup {cur[r]}
          /\ r \in Unconfirmed(g) <=> cur[r] = g
      BY <1>7 DEF UpdatePaymentConfirmedAt, Goto, Unconfirmed, Committed
    <2>2. Cardinality(Unconfirmed(g)) + Cardinality(Committed(g)) <= Cardinality(Runs)
      BY CountTogether
    <2>3. Aggregate(r) \/ Step(r) \/ Crash(r)
      BY <1>7 DEF Step
    <2> HIDE DEF TypeOK
    <2> QED
      BY <1>0, <2>1, <2>2, <2>3, Counts DEF Balanced, One
  <1>8. ASSUME UNCHANGED <<pc, cur, confirmed, paid, cut>>
        PROVE  Balanced(g)'
    BY <1>8 DEF Balanced, Unconfirmed, Committed
  <1>9. ASSUME NEW q \in Groups, Change(q)
        PROVE  UNCHANGED <<pc, cur, confirmed, paid, cut>>
    BY <1>9 DEF Change
  <1> QED
    BY <1>1, <1>2, <1>3, <1>4, <1>5, <1>6, <1>7, <1>8, <1>9 DEF Next, Step, MonthOver, vars

\* For every number of overlapping processes, starts and failures: a group is charged at
\* most once per process, and once more for each charge a process could not record.
THEOREM ChargesAreBounded == Spec => []ChargesBounded
  <1> DEFINE Books == \A g \in Groups : Balanced(g)
  <1>1. Init => Books
    <2> SUFFICES ASSUME Init, NEW g \in Groups
                 PROVE  Balanced(g)
      OBVIOUS
    <2>1. Unconfirmed(g) = {} /\ confirmed = {} /\ paid[g] = 0 /\ cut[g] = 0
      BY DEF Init, Unconfirmed
    <2>2. Cardinality(Unconfirmed(g)) = 0
      BY <2>1, FS_EmptySet
    <2> QED
      BY <2>1, <2>2 DEF Balanced
  <1>2. TypeOK /\ Books /\ [Next]_vars => Books'
    BY BalancedKept
  <1>3. TypeOK /\ Books => ChargesBounded
    <2> SUFFICES ASSUME TypeOK, Books, NEW g \in Groups
                 PROVE  paid[g] <= Cardinality(Runs) + cut[g]
      BY DEF ChargesBounded
    <2>1. Balanced(g) /\ paid[g] \in Nat /\ cut[g] \in Nat
      BY DEF TypeOK
    <2>2. {Unconfirmed(g), Committed(g)} \subseteq SUBSET Runs
      BY DEF Unconfirmed, Committed
    <2>3. /\ Cardinality(Unconfirmed(g)) \in Nat /\ Cardinality(Committed(g)) \in Nat
          /\ Cardinality(Runs) \in Nat
      BY <2>2, RunsAssumption, FS_Subset, FS_CardinalityType
    <2> QED
      BY <2>1, <2>3, CountTogether DEF Balanced
  <1> QED
    BY <1>1, <1>2, <1>3, TypeCorrect, PTL DEF Spec
=============================================================================
