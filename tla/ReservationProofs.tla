-------------------------- MODULE ReservationProofs --------------------------
(* Proofs about Reservation, for every number of handlers, parents, resources   *)
(* and partners: type correctness, the one way the parents of a request can     *)
(* come apart, that deleted rows stay deleted, and that only handlers with a    *)
(* stale copy open a cancelled request again.  For one handler: that no         *)
(* vendor's reservation is forgotten silently.  One, because two that confirm   *)
(* at once overwrite each other's ids in the mapping table.                     *)
EXTENDS Reservation, TLAPS

-----------------------------------------------------------------------------
(* The handlers' records. *)

LEMMA RowOn ==
    ASSUME NEW r \in Rows
    PROVE  r.on \in Resources
  BY ConstantsAssumption DEF Resources

LEMMA JobFields ==
    ASSUME JobOK, NEW h \in Handlers
    PROVE  /\ job[h].op \in Operations \cup {"none"} /\ job[h].pc \in Places
           /\ job[h].alive \in BOOLEAN /\ job[h].seen \in Snapshots
           /\ job[h].rows \in Tables /\ job[h].handles \in Tables /\ job[h].todo \in Work
           /\ job[h].saga \in Sagas /\ job[h].left \in Nat
           /\ job[h].passes \in 0..2 /\ job[h].answer \in Answers
           /\ job[h].left <= Len(job[h].saga)
  BY DEF JobOK, Jobs

\* A step that puts a well-formed record in place of one handler's.
LEMMA JobReplaced ==
    ASSUME JobOK, NEW h \in Handlers, NEW j \in Jobs, j.left <= Len(j.saga),
           job' = [job EXCEPT ![h] = j]
    PROVE  JobOK'
  BY DEF JobOK

LEMMA UnusedOK ==
    ASSUME NEW o \in Operations \cup {"none"}, NEW a \in Answers
    PROVE  Unused(o, a) \in Jobs /\ Unused(o, a).left <= Len(Unused(o, a).saga)
  <1>1. [p \in Parents |-> "gone"] \in Snapshots
    BY DEF Snapshots
  <1>2. [r \in Rows |-> NoRow] \in Tables /\ [r \in Rows |-> NoId] \in Tables
    BY DEF Tables, Column
  <1>3. {} \in Work
    BY DEF Work
  <1>4. <<>> \in Sagas
    BY DEF Sagas
  <1> QED
    BY <1>1, <1>2, <1>3, <1>4 DEF Unused, Jobs, Places

LEMMA AnswerOK ==
    ASSUME JobOK, NEW h \in Handlers, NEW a \in Answers, Answer(h, a)
    PROVE  JobOK'
  <1>1. job[h].op \in Operations \cup {"none"}
    BY JobFields
  <1> QED
    BY <1>1, UnusedOK, JobReplaced DEF Answer

LEMMA GotoOK ==
    ASSUME JobOK, NEW h \in Handlers, NEW place \in Places, Goto(h, place)
    PROVE  JobOK'
  BY DEF Goto, JobOK, Jobs

LEMMA RollbackOK ==
    ASSUME JobOK, NEW h \in Handlers, NEW n \in 1..2, Rollback(h, n)
    PROVE  JobOK'
  <1> DEFINE l == Len(job[h].saga)
             j == [job[h] EXCEPT !.pc = "undo", !.left = l, !.passes = n]
  <1>1. job[h] \in Jobs /\ l \in Nat
    BY JobFields DEF Sagas, JobOK
  <1>2. job' = [job EXCEPT ![h] = j]
    BY DEF Rollback, JobOK
  <1>3. l <= Len(job[h].saga) /\ n \in 0..2 /\ "undo" \in Places
    BY <1>1 DEF Places
  <1> HIDE DEF l
  <1>4. j \in Jobs /\ j.left = l /\ j.saga = job[h].saga
    BY <1>1, <1>3 DEF Jobs
  <1> HIDE DEF j
  <1>5. j.left <= Len(j.saga)
    BY <1>3, <1>4
  <1> QED
    BY <1>2, <1>4, <1>5, JobReplaced

LEMMA RecordOK ==
    ASSUME JobOK, NEW h \in Handlers, NEW step \in Steps, NEW place \in Places,
           Record(h, step, place)
    PROVE  JobOK'
  <1> DEFINE s == Append(job[h].saga, step)
             j == [job[h] EXCEPT !.saga = s, !.pc = place]
  <1>1. s \in Sagas /\ Len(job[h].saga) \in Nat /\ Len(s) = Len(job[h].saga) + 1
    BY JobFields DEF Sagas
  <1>2. job' = [job EXCEPT ![h] = j]
    BY DEF Record, JobOK
  <1> HIDE DEF s
  <1>3. j \in Jobs /\ j.left = job[h].left /\ j.saga = s
    BY <1>1 DEF JobOK, Jobs
  <1>4. j.left <= Len(j.saga)
    BY <1>1, <1>3, JobFields
  <1> HIDE DEF j
  <1> QED
    BY <1>2, <1>3, <1>4, JobReplaced

LEMMA RecordDoneOK ==
    ASSUME JobOK, NEW h \in Handlers, NEW step \in Steps, NEW x, RecordDone(h, step, x)
    PROVE  JobOK'
  <1> DEFINE s == Append(job[h].saga, step)
             t == job[h].todo \ {x}
             j == [job[h] EXCEPT !.saga = s, !.todo = t]
  <1>1. s \in Sagas /\ Len(job[h].saga) \in Nat /\ Len(s) = Len(job[h].saga) + 1
    BY JobFields DEF Sagas
  <1>2. t \in Work
    BY JobFields DEF Work
  <1>3. job' = [job EXCEPT ![h] = j]
    BY DEF RecordDone, JobOK
  <1> HIDE DEF s, t
  <1>4. j \in Jobs /\ j.left = job[h].left /\ j.saga = s
    BY <1>1, <1>2 DEF JobOK, Jobs
  <1>5. j.left <= Len(j.saga)
    BY <1>1, <1>4, JobFields
  <1> HIDE DEF j
  <1> QED
    BY <1>3, <1>4, <1>5, JobReplaced

LEMMA HandledOK ==
    ASSUME JobOK, NEW h \in Handlers, NEW r, NEW id \in Ids
    PROVE  Handled(h, r, id) \in Tables
  <1>1. job[h].handles \in Tables
    BY JobFields
  <1> QED
    BY <1>1 DEF Handled, Tables, Column

LEMMA RecordHandleOK ==
    ASSUME JobOK, NEW h \in Handlers, NEW r \in Rows, NEW id \in Ids, RecordHandle(h, r, id)
    PROVE  JobOK'
  <1> DEFINE s == Append(job[h].saga, Step("cancelHandle", r.on, id))
             t == job[h].todo \ Slot(h, r)
             hs == Handled(h, r, id)
             j == [job[h] EXCEPT !.saga = s, !.todo = t, !.handles = hs]
  <1>1. s \in Sagas /\ Len(job[h].saga) \in Nat /\ Len(s) = Len(job[h].saga) + 1
    <2>1. Step("cancelHandle", r.on, id) \in Steps
      BY RowOn DEF Step, Steps
    <2> QED
      BY <2>1, JobFields DEF Sagas
  <1>2. t \in Work /\ hs \in Tables
    BY JobFields, HandledOK DEF Work
  <1>3. job' = [job EXCEPT ![h] = j]
    BY DEF RecordHandle, JobOK
  <1> HIDE DEF s, t, hs
  <1>4. j \in Jobs /\ j.left = job[h].left /\ j.saga = s
    BY <1>1, <1>2 DEF JobOK, Jobs
  <1>5. j.left <= Len(j.saga)
    BY <1>1, <1>4, JobFields
  <1> HIDE DEF j
  <1> QED
    BY <1>3, <1>4, <1>5, JobReplaced

LEMMA StepUndoneOK ==
    ASSUME JobOK, NEW h \in Handlers, job[h].left > 0, StepUndone(h)
    PROVE  JobOK'
  <1> DEFINE l == job[h].left - 1
             j == [job[h] EXCEPT !.left = l]
  <1>1. job[h] \in Jobs
    BY DEF JobOK
  <1>2. job[h].left \in Nat /\ Len(job[h].saga) \in Nat /\ job[h].left <= Len(job[h].saga)
    BY JobFields DEF Sagas
  <1>3. l \in Nat /\ l <= Len(job[h].saga)
    BY <1>2
  <1>4. job' = [job EXCEPT ![h] = j]
    BY DEF StepUndone, JobOK
  <1> HIDE DEF l
  <1>5. j \in Jobs /\ j.left = l /\ j.saga = job[h].saga
    BY <1>1, <1>3 DEF Jobs
  <1> HIDE DEF j
  <1>6. j.left <= Len(j.saga)
    BY <1>3, <1>5
  <1> QED
    BY <1>4, <1>5, <1>6, JobReplaced

-----------------------------------------------------------------------------
(* The undo records. *)

LEMMA TrackedOK ==
    ASSUME JobOK, NEW h \in Handlers
    PROVE  Tracked(h) \subseteq Resources \X Ids
  <1>1. \A i \in 1..Len(job[h].saga) : job[h].saga[i] \in Steps
    BY JobFields DEF Sagas
  <1>2. \A s \in Steps : s.kind = "cancelHandle" => s.on \in Resources /\ s.id \in Ids
    BY DEF Steps
  <1> QED
    BY <1>1, <1>2 DEF Tracked

LEMMA CurrentOK ==
    ASSUME JobOK, NEW h \in Handlers, Undoing(h)
    PROVE  /\ Current(h) \in Steps
           /\ Current(h).kind = "cancelHandle" =>
                 Current(h).on \in Resources /\ Current(h).id \in Ids
           /\ Current(h).kind = "reReserve" => Current(h).on \in Resources
           /\ Current(h).kind \in {"deletePartner", "reconfirmPartner"} =>
                 Current(h).on \in Partners
  <1>1. Current(h) \in Steps
    BY JobFields DEF Undoing, Current, Sagas
  <1> QED
    BY <1>1 DEF Steps

-----------------------------------------------------------------------------
(* The shared rows, the vendors, the counters and the history. *)

LEMMA SavedOK ==
    ASSUME RowsOK, NEW xs, NEW rows \in Tables
    PROVE  Saved(xs, rows) \in Tables
  BY DEF RowsOK, Saved, Tables

LEMMA IssueOK ==
    ASSUME VendorOK, NEW x \in Resources, NEW n \in Nat, Issue(x, n)
    PROVE  /\ VendorOK'
           /\ Fresh(x, n) \subseteq Ids
           /\ n > 0 => issued[x] + n \in Ids
  <1>1. issued[x] \in Nat /\ issued[x] + n \in 0..MaxIds
    BY ConstantsAssumption DEF VendorOK, Issue
  <1>2. Fresh(x, n) \subseteq Ids /\ (n > 0 => issued[x] + n \in Ids)
    BY <1>1, ConstantsAssumption DEF Fresh, Ids
  <1>3. issued' \in [Resources -> 0..MaxIds]
    BY <1>1 DEF VendorOK, Issue
  <1>4. live' \in [Resources -> SUBSET Ids]
    BY <1>2 DEF VendorOK, Issue
  <1> QED
    BY <1>2, <1>3, <1>4 DEF VendorOK

LEMMA ReleaseOK ==
    ASSUME VendorOK, NEW x, NEW id, Release(x, id)
    PROVE  VendorOK'
  BY DEF VendorOK, Release

LEMMA FaultOK ==
    ASSUME CounterOK, NEW n \in Nat, Fault(n), UNCHANGED ops
    PROVE  CounterOK'
  BY ConstantsAssumption DEF CounterOK, Fault

LEMMA HistoryStepOK ==
    ASSUME HistoryOK, NEW names \in SUBSET GapNames, Gap(names),
           NEW more \in SUBSET (Resources \X Ids), lost' = lost \cup more
    PROVE  HistoryOK'
  BY DEF HistoryOK, Gap

LEMMA GapOK ==
    ASSUME HistoryOK, NEW names \in SUBSET GapNames, Gap(names), UNCHANGED lost
    PROVE  HistoryOK'
  BY DEF HistoryOK, Gap

LEMMA Unchanged ==
    ASSUME TypeOK
    PROVE  /\ UNCHANGED status /\ UNCHANGED mapping => RowsOK'
           /\ UNCHANGED vendor => VendorOK'
           /\ UNCHANGED partner => PartnerOK'
           /\ UNCHANGED job => JobOK'
           /\ UNCHANGED <<faults, ops>> => CounterOK'
           /\ UNCHANGED history => HistoryOK'
  BY DEF TypeOK, RowsOK, VendorOK, PartnerOK, JobOK, CounterOK, HistoryOK, vendor, history

-----------------------------------------------------------------------------
(* Type correctness, one step per action. *)

LEMMA ArriveOK ==
    ASSUME TypeOK, NEW h \in Handlers, NEW o \in Operations, Arrive(h, o)
    PROVE  TypeOK'
  <1>1. JobOK'
    <2> USE DEF TypeOK
    <2>1. Unused(o, "none") \in Jobs /\ Unused(o, "rejected") \in Jobs
      BY UnusedOK DEF Answers
    <2>2. CASE job' = [job EXCEPT ![h] = Unused(o, "rejected")]
      BY <2>2, UnusedOK, JobReplaced DEF Answers
    <2>3. CASE Admits(o) /\ job' = [job EXCEPT ![h] =
                [Unused(o, "none") EXCEPT !.pc = IF o \in {"Confirm", "Delete"}
                                                 THEN "maps" ELSE "partners",
                                          !.todo = IF o = "Delete" THEN {} ELSE Involved]]
      <3> DEFINE place == IF o \in {"Confirm", "Delete"} THEN "maps" ELSE "partners"
                 work  == IF o = "Delete" THEN {} ELSE Involved
                 j == [Unused(o, "none") EXCEPT !.pc = place, !.todo = work]
      <3>1. place \in Places /\ work \in Work
        BY DEF Places, Work, Involved
      <3>2. job' = [job EXCEPT ![h] = j]
        BY <2>3
      <3> HIDE DEF place, work
      <3>3. j \in Jobs /\ j.left = 0 /\ j.saga = <<>>
        BY <2>1, <3>1 DEF Jobs, Unused
      <3> HIDE DEF j
      <3>4. j.left <= Len(j.saga)
        BY <3>3
      <3> QED
        BY <3>2, <3>3, <3>4, JobReplaced
    <2> QED
      BY <2>2, <2>3 DEF Arrive
  <1>2. CounterOK'
    BY ConstantsAssumption DEF TypeOK, CounterOK, Arrive
  <1> QED
    BY <1>1, <1>2, Unchanged DEF TypeOK, Arrive, db

LEMMA LoadMappingsOK ==
    ASSUME TypeOK, NEW h \in Handlers, LoadMappings(h)
    PROVE  TypeOK'
  <1>1. JobOK'
    <2> DEFINE place == IF job[h].op = "Confirm" THEN "partners" ELSE "resources"
               work  == IF job[h].op = "Confirm" THEN Involved ELSE {}
               j == [job[h] EXCEPT !.rows = mapping, !.pc = place, !.todo = work]
    <2>1. job[h] \in Jobs /\ mapping \in Tables /\ job[h].left <= Len(job[h].saga)
      BY DEF TypeOK, JobOK, RowsOK
    <2>2. place \in Places /\ work \in Work
      BY DEF Places, Work, Involved
    <2>3. job' = [job EXCEPT ![h] = j]
      BY DEF LoadMappings, TypeOK, JobOK
    <2> HIDE DEF place, work
    <2>4. j \in Jobs /\ j.left = job[h].left /\ j.saga = job[h].saga
      BY <2>1, <2>2 DEF Jobs
    <2> HIDE DEF j
    <2> QED
      BY <2>1, <2>3, <2>4, JobReplaced DEF TypeOK
  <1> QED
    BY <1>1, Unchanged DEF TypeOK, LoadMappings, db

LEMMA PartnersOK ==
    ASSUME TypeOK, NEW h \in Handlers, NEW e \in Partners,
           PartnerAgrees(h, e) \/ PartnerRefuses(h, e) \/ PartnerSkipped(h, e)
    PROVE  TypeOK'
  <1> USE DEF TypeOK
  <1> job[h].op \in Operations \cup {"none"}
    BY JobFields
  <1>1. Settled(e, job[h].op) => PartnerOK'
    BY DEF PartnerOK, Settled, Target, Statuses
  <1>2. CASE PartnerAgrees(h, e)
    <2>1. Step(UndoOf(job[h].op), e, NoId) \in Steps
      BY DEF Step, Steps, UndoOf
    <2>2. JobOK'
      BY <1>2, <2>1, RecordDoneOK DEF PartnerAgrees
    <2> QED
      BY <1>1, <1>2, <2>2, Unchanged DEF PartnerAgrees, db
  <1>3. CASE PartnerRefuses(h, e)
    <2>1. JobOK'
      BY <1>3, RollbackOK DEF PartnerRefuses
    <2>2. PartnerOK'
      BY <1>1, <1>3, Unchanged DEF PartnerRefuses
    <2>3. CounterOK'
      BY <1>3, Unchanged, FaultOK DEF PartnerRefuses
    <2>4. HistoryOK'
      BY <1>3, Unchanged, GapOK DEF PartnerRefuses, NoGap, GapNames
    <2> QED
      BY <1>3, <2>1, <2>2, <2>3, <2>4, Unchanged DEF PartnerRefuses, db
  <1>4. CASE PartnerSkipped(h, e)
    <2> DEFINE j == [job[h] EXCEPT !.todo = @ \ {e}]
    <2>1. job[h] \in Jobs /\ job[h].left <= Len(job[h].saga)
      BY DEF JobOK
    <2>2. job' = [job EXCEPT ![h] = j]
      BY <1>4 DEF PartnerSkipped, JobOK
    <2>3. j \in Jobs /\ j.left = job[h].left /\ j.saga = job[h].saga
      BY <2>1 DEF Jobs, Work
    <2> HIDE DEF j
    <2>4. JobOK'
      BY <2>1, <2>2, <2>3, JobReplaced
    <2>5. CounterOK'
      BY <1>4, Unchanged, FaultOK DEF PartnerSkipped
    <2>6. HistoryOK'
      BY <1>4, Unchanged, GapOK DEF PartnerSkipped, GapNames
    <2> QED
      BY <1>4, <2>4, <2>5, <2>6, Unchanged DEF PartnerSkipped, db
  <1> QED
    BY <1>2, <1>3, <1>4

LEMMA LoadParentsOK ==
    ASSUME TypeOK, NEW h \in Handlers, LoadParents(h) \/ LoadParentsFails(h)
    PROVE  TypeOK'
  <1> USE DEF TypeOK
  <1>1. CASE LoadParents(h)
    <2> DEFINE j == [job[h] EXCEPT !.seen = status, !.pc = "commit"]
    <2>1. job[h] \in Jobs /\ status \in Snapshots /\ job[h].left <= Len(job[h].saga)
      BY DEF JobOK, RowsOK
    <2>2. job' = [job EXCEPT ![h] = j]
      BY <1>1 DEF LoadParents, JobOK
    <2>3. j \in Jobs /\ j.left = job[h].left /\ j.saga = job[h].saga
      BY <2>1 DEF Jobs, Places
    <2> HIDE DEF j
    <2>4. JobOK'
      BY <2>1, <2>2, <2>3, JobReplaced
    <2> QED
      BY <1>1, <2>4, Unchanged DEF LoadParents, db
  <1>2. CASE LoadParentsFails(h)
    <2>1. JobOK'
      BY <1>2, AnswerOK DEF LoadParentsFails, Answers
    <2>2. CounterOK'
      BY <1>2, FaultOK DEF LoadParentsFails
    <2>3. HistoryOK'
      BY <1>2, TrackedOK, HistoryStepOK DEF LoadParentsFails, GapNames
    <2> QED
      BY <1>2, <2>1, <2>2, <2>3, Unchanged DEF LoadParentsFails, db
  <1> QED
    BY <1>1, <1>2

LEMMA CommitOK ==
    ASSUME TypeOK, NEW h \in Handlers, Commit(h) \/ CommitFails(h)
    PROVE  TypeOK'
  <1> USE DEF TypeOK
  <1>1. CASE Commit(h)
    <2> DEFINE kind  == IF job[h].op = "Confirm" THEN "unconfirm" ELSE "restoreStatus"
               place == IF job[h].op = "Confirm" THEN "save" ELSE "resources"
    <2>1. Step(kind, NoOne, NoId) \in Steps /\ place \in Places
      BY DEF Step, Steps, Places
    <2>2. JobOK'
      BY <1>1, <2>1, RecordOK DEF Commit
    <2>3. status' \in Snapshots /\ UNCHANGED mapping
      BY <1>1 DEF Commit, RowsOK, Snapshots, Statuses, Target
    <2> QED
      BY <1>1, <2>2, <2>3, Unchanged DEF Commit, RowsOK
  <1>2. CASE CommitFails(h)
    <2>1. JobOK'
      BY <1>2, RollbackOK DEF CommitFails
    <2>2. CounterOK'
      BY <1>2, FaultOK, Unchanged DEF CommitFails
    <2> QED
      BY <1>2, <2>1, <2>2, Unchanged DEF CommitFails, db
  <1> QED
    BY <1>1, <1>2

LEMMA SharedOK ==
    ASSUME TypeOK, NEW h \in Handlers, Shared(h)
    PROVE  TypeOK'
  <1> USE DEF TypeOK
  <1>1. CASE TurnAway(h)
    <2>1. JobOK'
      BY <1>1, AnswerOK DEF TurnAway, Answers
    <2> QED
      BY <1>1, <2>1, Unchanged DEF TurnAway, db
  <1>2. CASE PartnersDone(h)
    <2>1. JobOK'
      BY <1>2, GotoOK DEF PartnersDone, Places
    <2> QED
      BY <1>2, <2>1, Unchanged DEF PartnersDone, db
  <1> HIDE DEF TypeOK
  <1> QED
    BY <1>1, <1>2, LoadMappingsOK, PartnersOK, LoadParentsOK, CommitOK DEF Shared

LEMMA CheckOK ==
    ASSUME TypeOK, NEW h \in Handlers, Check(h) \/ CheckRefuses(h)
    PROVE  TypeOK'
  <1> USE DEF TypeOK
  <1>1. CASE Check(h)
    <2>0. PICK work \in Sorted(h), skipped \in SUBSET Ports :
             /\ Fault(IF skipped = {} THEN 0 ELSE 1)
             /\ job' = [job EXCEPT ![h].pc = "reserve", ![h].todo = work]
      BY <1>1 DEF Check
    <2> DEFINE j == [job[h] EXCEPT !.pc = "reserve", !.todo = work]
    <2>1. job[h] \in Jobs /\ job[h].left <= Len(job[h].saga)
      BY DEF JobOK
    <2>2. work \in Work /\ "reserve" \in Places
      BY DEF Work, Sorted, Loaded, Places
    <2>3. job' = [job EXCEPT ![h] = j]
      BY <2>0 DEF JobOK
    <2>4. j \in Jobs /\ j.left = job[h].left /\ j.saga = job[h].saga
      BY <2>1, <2>2 DEF Jobs
    <2> HIDE DEF j
    <2>5. JobOK'
      BY <2>1, <2>3, <2>4, JobReplaced
    <2>6. CounterOK'
      BY <1>1, <2>0, FaultOK DEF Check
    <2> QED
      BY <1>1, <2>5, <2>6, Unchanged DEF Check, db
  <1>2. CASE CheckRefuses(h)
    <2>1. JobOK'
      BY <1>2, RollbackOK DEF CheckRefuses
    <2> QED
      BY <1>2, <2>1, Unchanged DEF CheckRefuses, db
  <1> QED
    BY <1>1, <1>2

LEMMA ReserveOK ==
    ASSUME TypeOK, NEW h \in Handlers, NEW r \in Rows, Reserve(h, r)
    PROVE  TypeOK'
  <1> USE DEF TypeOK
  <1> DEFINE x == r.on
  <1>1. PICK k \in 0..MaxFaults :
          /\ Fault(k) /\ Issue(x, k + 1)
          /\ RecordHandle(h, r, issued[x] + k + 1)
          /\ lost' = lost \cup ({x} \X Fresh(x, k))
          /\ Gap(IF k = 0 THEN {} ELSE {"answerLost"})
    BY DEF Reserve
  <1>2. k \in Nat /\ k + 1 \in Nat /\ k + 1 > 0 /\ x \in Resources
    BY ConstantsAssumption, RowOn
  <1> HIDE DEF x
  <1>3. VendorOK' /\ Fresh(x, k + 1) \subseteq Ids /\ issued[x] + (k + 1) \in Ids
    BY <1>1, <1>2, IssueOK
  <1>4. issued[x] \in Nat
    BY <1>2, ConstantsAssumption DEF VendorOK
  <1>5. issued[x] + k + 1 \in Ids /\ Fresh(x, k) \subseteq Ids
    BY <1>2, <1>3, <1>4 DEF Fresh
  <1>7. JobOK'
    BY <1>1, <1>5, RecordHandleOK
  <1>8. CounterOK'
    BY <1>1, <1>2, FaultOK DEF Reserve
  <1>9. HistoryOK'
    <2>1. {x} \X Fresh(x, k) \in SUBSET (Resources \X Ids)
      BY <1>2, <1>5
    <2>2. (IF k = 0 THEN {} ELSE {"answerLost"}) \in SUBSET GapNames
      BY DEF GapNames
    <2> QED
      BY <1>1, <2>1, <2>2, HistoryStepOK
  <1> QED
    BY <1>3, <1>7, <1>8, <1>9, Unchanged DEF Reserve, db

LEMMA ReserveFailsOK ==
    ASSUME TypeOK, NEW h \in Handlers, NEW r \in Rows, ReserveFails(h, r)
    PROVE  TypeOK'
  <1> USE DEF TypeOK
  <1> DEFINE x == r.on
  <1>1. PICK k \in 0..(IF job[h].alive THEN MaxFaults ELSE 0) :
          /\ Fault(k) /\ Issue(x, k)
          /\ lost' = lost \cup ({x} \X Fresh(x, k))
          /\ Gap(IF k = 0 THEN {} ELSE {"answerLost"})
    BY DEF ReserveFails
  <1>2. k \in Nat /\ x \in Resources
    BY ConstantsAssumption, RowOn
  <1> HIDE DEF x
  <1>3. VendorOK' /\ Fresh(x, k) \subseteq Ids
    BY <1>1, <1>2, IssueOK
  <1>4. JobOK'
    BY RollbackOK DEF ReserveFails
  <1>5. CounterOK'
    BY <1>1, <1>2, FaultOK DEF ReserveFails
  <1>6. HistoryOK'
    <2>1. {x} \X Fresh(x, k) \in SUBSET (Resources \X Ids)
      BY <1>2, <1>3
    <2>2. (IF k = 0 THEN {} ELSE {"answerLost"}) \in SUBSET GapNames
      BY DEF GapNames
    <2> QED
      BY <1>1, <2>1, <2>2, HistoryStepOK
  <1> QED
    BY <1>3, <1>4, <1>5, <1>6, Unchanged DEF ReserveFails, db

LEMMA NewRowsOK ==
    ASSUME TypeOK, NEW h \in Handlers, NEW theirs
    PROVE  NewRows(h, theirs) \in Tables
  <1>1. job[h].handles \in Tables
    BY JobFields DEF TypeOK
  <1> QED
    BY <1>1 DEF NewRows, Tables, Column

LEMMA SaveMappingsOK ==
    ASSUME TypeOK, NEW h \in Handlers, SaveMappings(h) \/ SaveMappingsFails(h)
    PROVE  TypeOK'
  <1> USE DEF TypeOK
  <1>1. RowsOK'
    BY NewRowsOK, SavedOK DEF SaveMappings, SaveMappingsFails, RowsOK
  <1>2. CASE SaveMappings(h)
    <2>1. JobOK'
      BY <1>2, AnswerOK DEF SaveMappings, Answers
    <2> QED
      BY <1>1, <1>2, <2>1, Unchanged DEF SaveMappings
  <1>3. CASE SaveMappingsFails(h)
    <2>1. JobOK'
      BY <1>3, RollbackOK DEF SaveMappingsFails
    <2>2. CounterOK'
      BY <1>3, FaultOK DEF SaveMappingsFails
    <2>3. HistoryOK'
      BY <1>3, GapOK DEF SaveMappingsFails, GapNames
    <2> QED
      BY <1>1, <1>3, <2>1, <2>2, <2>3, Unchanged DEF SaveMappingsFails
  <1> QED
    BY <1>2, <1>3

LEMMA ConfirmingOK ==
    ASSUME TypeOK, NEW h \in Handlers, Confirming(h)
    PROVE  TypeOK'
  <1>1. CASE ReserveDone(h)
    <2>1. JobOK'
      BY <1>1, GotoOK DEF ReserveDone, Places, TypeOK
    <2> QED
      BY <1>1, <2>1, Unchanged DEF ReserveDone, db, TypeOK
  <1> QED
    BY <1>1, CheckOK, ReserveOK, ReserveFailsOK, SaveMappingsOK DEF Confirming

LEMMA LoadResourcesOK ==
    ASSUME TypeOK, NEW h \in Handlers, LoadResources(h) \/ LoadResourcesFails(h)
    PROVE  TypeOK'
  <1> USE DEF TypeOK
  <1>1. CASE LoadResources(h)
    <2>0. PICK rs \in {OurRows(Read(h)), Rows} :
             /\ Fault(IF rs = OurRows(Read(h)) THEN 0 ELSE 1)
             /\ job' = [job EXCEPT ![h].rows = Read(h), ![h].pc = "cancel",
                                   ![h].todo = {r \in rs : Read(h)[r] \notin {NoRow, NoId}}]
      BY <1>1 DEF LoadResources
    <2> DEFINE work == {r \in rs : Read(h)[r] \notin {NoRow, NoId}}
               j == [job[h] EXCEPT !.rows = Read(h), !.pc = "cancel", !.todo = work]
    <2>1. /\ job[h] \in Jobs /\ Read(h) \in Tables
          /\ job[h].left <= Len(job[h].saga)
      BY JobFields DEF JobOK, RowsOK, Read
    <2>2. work \in Work /\ "cancel" \in Places
      BY DEF Work, Places, OurRows
    <2>3. job' = [job EXCEPT ![h] = j]
      BY <2>0 DEF JobOK
    <2> HIDE DEF work
    <2>4. j \in Jobs /\ j.left = job[h].left /\ j.saga = job[h].saga
      BY <2>1, <2>2 DEF Jobs
    <2> HIDE DEF j
    <2>5. JobOK'
      BY <2>1, <2>3, <2>4, JobReplaced
    <2>6. CounterOK'
      BY <1>1, <2>0, FaultOK DEF LoadResources
    <2> QED
      BY <1>1, <2>5, <2>6, Unchanged DEF LoadResources, db
  <1>2. CASE LoadResourcesFails(h)
    <2>1. JobOK'
      BY <1>2, RollbackOK DEF LoadResourcesFails
    <2>2. CounterOK'
      BY <1>2, FaultOK DEF LoadResourcesFails
    <2> QED
      BY <1>2, <2>1, <2>2, Unchanged DEF LoadResourcesFails, db
  <1> QED
    BY <1>1, <1>2

LEMMA CancelResourceOK ==
    ASSUME TypeOK, NEW h \in Handlers, NEW r \in Rows,
           CancelResource(h, r) \/ CancelResourceFails(h, r)
    PROVE  TypeOK'
  <1> USE DEF TypeOK
  <1>1. CASE CancelResource(h, r)
    <2>1. Step("reReserve", r.on, NoId) \in Steps
      BY RowOn DEF Step, Steps
    <2>2. JobOK'
      BY <1>1, <2>1, RecordDoneOK DEF CancelResource
    <2>3. VendorOK'
      BY <1>1, ReleaseOK DEF CancelResource
    <2> QED
      BY <1>1, <2>2, <2>3, Unchanged DEF CancelResource, db
  <1>2. CASE CancelResourceFails(h, r)
    <2>1. JobOK'
      BY <1>2, RollbackOK DEF CancelResourceFails
    <2>2. VendorOK'
      BY <1>2, ReleaseOK, Unchanged DEF CancelResourceFails
    <2>3. CounterOK'
      BY <1>2, FaultOK, Unchanged DEF CancelResourceFails
    <2>4. HistoryOK'
      BY <1>2, GapOK, Unchanged DEF CancelResourceFails, GapNames
    <2> QED
      BY <1>2, <2>1, <2>2, <2>3, <2>4, Unchanged DEF CancelResourceFails, db
  <1> QED
    BY <1>1, <1>2

LEMMA ReloadOK ==
    ASSUME TypeOK, NEW h \in Handlers, Reload(h) \/ ReloadFails(h)
    PROVE  TypeOK'
  <1> USE DEF TypeOK
  <1>1. CASE Reload(h)
    <2> DEFINE j == [job[h] EXCEPT !.rows = mapping, !.pc = "clear"]
    <2>1. job[h] \in Jobs /\ mapping \in Tables /\ job[h].left <= Len(job[h].saga)
      BY DEF JobOK, RowsOK
    <2>2. job' = [job EXCEPT ![h] = j]
      BY <1>1 DEF Reload, JobOK
    <2>3. j \in Jobs /\ j.left = job[h].left /\ j.saga = job[h].saga
      BY <2>1 DEF Jobs, Places
    <2> HIDE DEF j
    <2>4. JobOK'
      BY <2>1, <2>2, <2>3, JobReplaced
    <2> QED
      BY <1>1, <2>4, Unchanged DEF Reload, db
  <1>2. CASE ReloadFails(h)
    <2>1. JobOK'
      BY <1>2, AnswerOK DEF ReloadFails, Answers
    <2>2. CounterOK'
      BY <1>2, FaultOK DEF ReloadFails
    <2>3. HistoryOK'
      BY <1>2, GapOK DEF ReloadFails, GapNames
    <2> QED
      BY <1>2, <2>1, <2>2, <2>3, Unchanged DEF ReloadFails, db
  <1> QED
    BY <1>1, <1>2

LEMMA ClearMappingsOK ==
    ASSUME TypeOK, NEW h \in Handlers, ClearMappings(h) \/ ClearMappingsFails(h)
    PROVE  TypeOK'
  <1> USE DEF TypeOK
  <1>1. Cleared(h) \in Tables
    BY DEF Cleared, Tables, Column
  <1>2. RowsOK'
    BY <1>1, SavedOK DEF ClearMappings, ClearMappingsFails, RowsOK
  <1>3. CASE ClearMappings(h)
    <2>1. JobOK'
      BY <1>3, AnswerOK DEF ClearMappings, Answers
    <2> QED
      BY <1>2, <1>3, <2>1, Unchanged DEF ClearMappings
  <1>4. CASE ClearMappingsFails(h)
    <2>1. JobOK'
      BY <1>4, RollbackOK DEF ClearMappingsFails
    <2>2. CounterOK'
      BY <1>4, FaultOK DEF ClearMappingsFails
    <2>3. HistoryOK'
      BY <1>4, GapOK DEF ClearMappingsFails, GapNames
    <2> QED
      BY <1>2, <1>4, <2>1, <2>2, <2>3, Unchanged DEF ClearMappingsFails
  <1> QED
    BY <1>3, <1>4

LEMMA DeletingOK ==
    ASSUME TypeOK, NEW h \in Handlers, DeleteMappings(h) \/ DeleteRows(h) \/ DeleteFails(h)
    PROVE  TypeOK'
  <1> USE DEF TypeOK
  <1>1. CASE DeleteMappings(h)
    <2>1. Step("insertMapping", NoOne, NoId) \in Steps
      BY DEF Step, Steps
    <2>2. JobOK'
      BY <1>1, <2>1, RecordOK DEF DeleteMappings, Places
    <2>3. RowsOK'
      BY <1>1 DEF DeleteMappings, RowsOK, Tables, Column
    <2> QED
      BY <1>1, <2>2, <2>3, Unchanged DEF DeleteMappings
  <1>2. CASE DeleteRows(h)
    <2>1. JobOK'
      BY <1>2, AnswerOK DEF DeleteRows, Answers
    <2>2. RowsOK'
      BY <1>2 DEF DeleteRows, RowsOK, Snapshots
    <2> QED
      BY <1>2, <2>1, <2>2, Unchanged DEF DeleteRows
  <1>3. CASE DeleteFails(h)
    <2>1. JobOK'
      BY <1>3, RollbackOK DEF DeleteFails
    <2>2. CounterOK'
      BY <1>3, FaultOK DEF DeleteFails
    <2> QED
      BY <1>3, <2>1, <2>2, Unchanged DEF DeleteFails, db
  <1> QED
    BY <1>1, <1>2, <1>3

LEMMA CancellingOK ==
    ASSUME TypeOK, NEW h \in Handlers, Cancelling(h)
    PROVE  TypeOK'
  <1>1. CASE CancelDone(h)
    <2>1. JobOK'
      BY <1>1, GotoOK DEF CancelDone, Places, TypeOK
    <2> QED
      BY <1>1, <2>1, Unchanged DEF CancelDone, db, TypeOK
  <1> QED
    BY <1>1, LoadResourcesOK, CancelResourceOK, ReloadOK, ClearMappingsOK, DeletingOK
    DEF Cancelling

LEMMA UndoVendorOK ==
    ASSUME TypeOK, NEW h \in Handlers, UndoReserve(h) \/ UndoCancel(h)
    PROVE  TypeOK'
  <1> USE DEF TypeOK
  <1>1. Undoing(h) /\ job[h].left > 0 /\ StepUndone(h)
    BY DEF UndoReserve, UndoCancel, UndoKind, Undoing
  <1>2. JobOK'
    BY <1>1, StepUndoneOK
  <1>3. CASE UndoReserve(h)
    <2>1. VendorOK'
      BY <1>3, ReleaseOK DEF UndoReserve
    <2> QED
      BY <1>2, <1>3, <2>1, Unchanged DEF UndoReserve, db
  <1>4. CASE UndoCancel(h)
    <2> DEFINE x == Current(h).on
    <2>1. x \in Resources
      BY <1>1, <1>4, CurrentOK DEF UndoCancel, UndoKind
    <2>2. PICK n \in 1..(MaxFaults + 1) :
            /\ Fault(n - 1) /\ Issue(x, n)
            /\ lost' = lost \cup ({x} \X Fresh(x, n))
      BY <1>4 DEF UndoCancel
    <2>3. n \in Nat /\ n - 1 \in Nat
      BY ConstantsAssumption
    <2> HIDE DEF x
    <2>4. VendorOK' /\ Fresh(x, n) \subseteq Ids
      BY <2>1, <2>2, <2>3, IssueOK
    <2>5. CounterOK'
      BY <1>4, <2>2, <2>3, FaultOK DEF UndoCancel
    <2>6. HistoryOK'
      <3>1. {x} \X Fresh(x, n) \in SUBSET (Resources \X Ids)
        BY <2>1, <2>4
      <3>2. {"reReserved"} \in SUBSET GapNames
        BY DEF GapNames
      <3> QED
        BY <1>4, <2>2, <3>1, <3>2, HistoryStepOK DEF UndoCancel
    <2> QED
      BY <1>2, <1>4, <2>4, <2>5, <2>6, Unchanged DEF UndoCancel, db
  <1> QED
    BY <1>3, <1>4

LEMMA UndoPartnerOK ==
    ASSUME TypeOK, NEW h \in Handlers, UndoPartnerConfirm(h) \/ UndoPartnerCancel(h)
    PROVE  TypeOK'
  <1> USE DEF TypeOK
  <1>1. JobOK'
    BY StepUndoneOK DEF UndoPartnerConfirm, UndoPartnerCancel, UndoKind, Undoing
  <1>2. PartnerOK'
    BY DEF UndoPartnerConfirm, UndoPartnerCancel, PartnerOK, Statuses
  <1>3. HistoryOK'
    BY GapOK DEF UndoPartnerConfirm, UndoPartnerCancel, GapNames
  <1> QED
    BY <1>1, <1>2, <1>3, Unchanged DEF UndoPartnerConfirm, UndoPartnerCancel, db

LEMMA UndoRowsOK ==
    ASSUME TypeOK, NEW h \in Handlers,
           RestoreParents(h) \/ Unconfirm(h) \/ UndoDeleteMappings(h)
    PROVE  TypeOK'
  <1> USE DEF TypeOK
  <1>1. JobOK'
    BY StepUndoneOK DEF RestoreParents, Unconfirm, UndoDeleteMappings, UndoKind, Undoing
  <1>2. job[h].seen \in Snapshots /\ job[h].rows \in Tables
    BY JobFields
  <1>3. CASE RestoreParents(h)
    <2>1. RowsOK'
      BY <1>2, <1>3 DEF RestoreParents, RowsOK
    <2> QED
      BY <1>1, <1>3, <2>1, Unchanged DEF RestoreParents
  <1>4. CASE Unconfirm(h)
    <2>1. RowsOK'
      BY <1>4 DEF Unconfirm, RowsOK, Snapshots, Statuses
    <2>2. HistoryOK'
      BY <1>4, GapOK DEF Unconfirm, GapNames
    <2> QED
      BY <1>1, <1>4, <2>1, <2>2, Unchanged DEF Unconfirm
  <1>5. CASE UndoDeleteMappings(h)
    <2>1. RowsOK'
      BY <1>2, <1>5, SavedOK DEF UndoDeleteMappings, RowsOK
    <2> QED
      BY <1>1, <1>5, <2>1, Unchanged DEF UndoDeleteMappings
  <1> QED
    BY <1>3, <1>4, <1>5

LEMMA UndoFailsOK ==
    ASSUME TypeOK, NEW h \in Handlers, UndoFails(h)
    PROVE  TypeOK'
  <1> USE DEF TypeOK
  <1>1. Undoing(h)
    BY DEF UndoFails
  <1>2. JobOK'
    BY <1>1, StepUndoneOK DEF UndoFails, Undoing
  <1>3. CounterOK'
    BY FaultOK, Unchanged DEF UndoFails
  <1>4. HistoryOK'
    <2> DEFINE more == IF Current(h).kind = "cancelHandle"
                       THEN {<<Current(h).on, Current(h).id>>} ELSE {}
    <2>1. more \in SUBSET (Resources \X Ids)
      BY <1>1, CurrentOK
    <2>2. {"undoFailed"} \in SUBSET GapNames
      BY DEF GapNames
    <2> QED
      BY <2>1, <2>2, HistoryStepOK DEF UndoFails
  <1> QED
    BY <1>2, <1>3, <1>4, Unchanged DEF UndoFails, db

LEMMA UndoUnansweredOK ==
    ASSUME TypeOK, NEW h \in Handlers, UndoUnanswered(h)
    PROVE  TypeOK'
  <1> USE DEF TypeOK
  <1> DEFINE s == Current(h)
  <1>1. Undoing(h)
    BY DEF UndoUnanswered
  <1>2. JobOK'
    BY <1>1, StepUndoneOK DEF UndoUnanswered, Undoing
  <1>3. {"undoFailed"} \in SUBSET GapNames /\ Gap({"undoFailed"})
    BY DEF UndoUnanswered, GapNames
  <1>4. CASE s.kind = "reReserve"
    <2>1. s.on \in Resources
      BY <1>1, <1>4, CurrentOK
    <2>2. PICK n \in 1..MaxFaults :
            /\ Fault(n) /\ Issue(s.on, n)
            /\ lost' = lost \cup ({s.on} \X Fresh(s.on, n))
      BY <1>4 DEF UndoUnanswered
    <2>3. n \in Nat
      BY ConstantsAssumption
    <2>4. VendorOK' /\ Fresh(s.on, n) \subseteq Ids
      BY <2>1, <2>2, <2>3, IssueOK
    <2>5. CounterOK'
      BY <2>2, <2>3, FaultOK DEF UndoUnanswered
    <2>6. {s.on} \X Fresh(s.on, n) \in SUBSET (Resources \X Ids)
      BY <2>1, <2>4
    <2>7. HistoryOK'
      BY <1>3, <2>2, <2>6, HistoryStepOK
    <2> QED
      BY <1>2, <1>4, <2>4, <2>5, <2>7, Unchanged DEF UndoUnanswered, db
  <1>5. CASE s.kind # "reReserve"
    <2>1. CounterOK'
      BY <1>5, FaultOK DEF UndoUnanswered
    <2>2. HistoryOK'
      BY <1>3, <1>5, GapOK DEF UndoUnanswered
    <2>3. VendorOK' /\ PartnerOK'
      BY <1>5, ReleaseOK, Unchanged DEF UndoUnanswered, PartnerOK
    <2> QED
      BY <1>2, <2>1, <2>2, <2>3, Unchanged DEF UndoUnanswered, db
  <1> QED
    BY <1>4, <1>5

LEMMA PassDoneOK ==
    ASSUME TypeOK, NEW h \in Handlers, PassDone(h)
    PROVE  TypeOK'
  <1> USE DEF TypeOK
  <1>1. JobOK'
    <2>1. CASE job[h].passes = 2
      <3> DEFINE l == Len(job[h].saga)
                 j == [job[h] EXCEPT !.passes = 1, !.left = l]
      <3>1. job[h] \in Jobs /\ l \in Nat
        BY JobFields DEF Sagas, JobOK
      <3>2. job' = [job EXCEPT ![h] = j]
        BY <2>1 DEF PassDone, JobOK
      <3>3. l <= Len(job[h].saga) /\ 1 \in 0..2
        BY <3>1
      <3> HIDE DEF l
      <3>4. j \in Jobs /\ j.left = l /\ j.saga = job[h].saga
        BY <3>1, <3>3 DEF Jobs
      <3> HIDE DEF j
      <3>5. j.left <= Len(j.saga)
        BY <3>3, <3>4
      <3> QED
        BY <3>2, <3>4, <3>5, JobReplaced
    <2>2. CASE job[h].passes # 2
      BY <2>2, AnswerOK DEF PassDone, Answers
    <2> QED
      BY <2>1, <2>2
  <1> QED
    BY <1>1, Unchanged DEF PassDone, db

LEMMA DisconnectOK ==
    ASSUME TypeOK, NEW h \in Handlers, Disconnect(h)
    PROVE  TypeOK'
  <1> USE DEF TypeOK
  <1>1. JobOK'
    <2> DEFINE j == [job[h] EXCEPT !.alive = FALSE]
    <2>1. job[h] \in Jobs /\ job[h].left <= Len(job[h].saga)
      BY DEF JobOK
    <2>2. job' = [job EXCEPT ![h] = j]
      BY DEF Disconnect, JobOK
    <2>3. j \in Jobs /\ j.left = job[h].left /\ j.saga = job[h].saga
      BY <2>1 DEF Jobs
    <2> HIDE DEF j
    <2> QED
      BY <2>1, <2>2, <2>3, JobReplaced
  <1>2. CounterOK'
    BY FaultOK DEF Disconnect
  <1> QED
    BY <1>1, <1>2, Unchanged DEF Disconnect, db

LEMMA CrashOK ==
    ASSUME TypeOK, Crash
    PROVE  TypeOK'
  <1> USE DEF TypeOK
  <1>1. JobOK'
    <2>1. \A h \in Handlers : job[h].op \in Operations \cup {"none"}
      BY JobFields
    <2>2. \A h \in Handlers : /\ Unused(job[h].op, "none") \in Jobs
                              /\ Unused(job[h].op, "none").left <=
                                    Len(Unused(job[h].op, "none").saga)
      BY <2>1, UnusedOK DEF Answers
    <2> QED
      BY <2>2 DEF Crash, JobOK
  <1>2. CounterOK'
    BY FaultOK DEF Crash
  <1>3. HistoryOK'
    <2>1. UNION {Tracked(h) : h \in Handlers} \in SUBSET (Resources \X Ids)
      BY TrackedOK
    <2>2. (IF \A h \in Handlers : job[h].saga = <<>> THEN {} ELSE {"crashed"})
            \in SUBSET GapNames
      BY DEF GapNames
    <2> QED
      BY <2>1, <2>2, HistoryStepOK DEF Crash
  <1> QED
    BY <1>1, <1>2, <1>3, Unchanged DEF Crash, db

LEMMA UndoOK ==
    ASSUME TypeOK, NEW h \in Handlers, Undo(h)
    PROVE  TypeOK'
  BY UndoVendorOK, UndoPartnerOK, UndoRowsOK, UndoFailsOK, UndoUnansweredOK, PassDoneOK
  DEF Undo

LEMMA InitOK ==
    ASSUME Init
    PROVE  TypeOK
  <1>1. RowsOK
    BY DEF Init, RowsOK, Snapshots, Tables, Statuses, Column
  <1>2. VendorOK /\ PartnerOK
    BY ConstantsAssumption DEF Init, VendorOK, PartnerOK, Statuses
  <1>3. JobOK
    BY UnusedOK DEF Init, JobOK, Answers
  <1>4. CounterOK /\ HistoryOK
    BY ConstantsAssumption DEF Init, CounterOK, HistoryOK
  <1> QED
    BY <1>1, <1>2, <1>3, <1>4 DEF TypeOK

LEMMA NextOK ==
    ASSUME TypeOK, [Next]_vars
    PROVE  TypeOK'
  <1>1. CASE UNCHANGED vars
    BY <1>1, Unchanged DEF vars, vendor, history, TypeOK
  <1>2. ASSUME NEW h \in Handlers, Progress(h)
        PROVE  TypeOK'
    BY <1>2, SharedOK, ConfirmingOK, CancellingOK, UndoOK DEF Progress
  <1> QED
    BY <1>1, <1>2, ArriveOK, DisconnectOK, CrashOK DEF Next, Idle

\* Whatever handlers, parents, resources and partners there are: every row, record and
\* set of the reservation server stays within its type, and every undo record names
\* what its undo acts on.
THEOREM TypeCorrect == Spec => []TypeOK
  <1>1. Init => TypeOK
    BY InitOK
  <1>2. TypeOK /\ [Next]_vars => TypeOK'
    BY NextOK
  <1> QED
    BY <1>1, <1>2, PTL DEF Spec

-----------------------------------------------------------------------------
(* The parents of one request.  A status column is written from a handler's   *)
(* snapshot of it, so the invariant has to speak of the snapshots too.        *)

SplitInv == ParentsSplitOneWay /\ \A h \in Handlers : OnlyPrimaryStrays(job[h].seen)

\* What a step does to the snapshots: it keeps them, or empties or refreshes one.
SeenStep(h) ==
    \A g \in Handlers :
        \/ job'[g].seen = job[g].seen
        \/ job'[g].seen = [p \in Parents |-> "gone"]
        \/ g = h /\ job'[g].seen = status

LEMMA EqualParents ==
    ASSUME NEW v
    PROVE  OnlyPrimaryStrays([p \in Parents |-> v])
  BY ConstantsAssumption DEF OnlyPrimaryStrays

LEMMA SeenShared ==
    ASSUME JobOK, NEW h \in Handlers, Shared(h)
    PROVE  SeenStep(h)
  <1> USE DEF JobOK, Jobs, SeenStep
  <1>1. CASE LoadMappings(h) \/ PartnersDone(h)
    BY <1>1 DEF LoadMappings, PartnersDone, Goto
  <1>2. CASE TurnAway(h) \/ LoadParentsFails(h)
    BY <1>2 DEF TurnAway, LoadParentsFails, Answer, Unused
  <1>3. ASSUME NEW e \in Partners, PartnerAgrees(h, e)
        PROVE  SeenStep(h)
    BY <1>3 DEF PartnerAgrees, RecordDone
  <1>4. ASSUME NEW e \in Partners, PartnerRefuses(h, e)
        PROVE  SeenStep(h)
    BY <1>4 DEF PartnerRefuses, Rollback
  <1>8. ASSUME NEW e \in Partners, PartnerSkipped(h, e)
        PROVE  SeenStep(h)
    BY <1>8 DEF PartnerSkipped
  <1>5. CASE LoadParents(h)
    BY <1>5 DEF LoadParents
  <1>6. CASE Commit(h)
    BY <1>6 DEF Commit, Record
  <1>7. CASE CommitFails(h)
    BY <1>7 DEF CommitFails, Rollback
  <1> HIDE DEF SeenStep
  <1> QED
    BY <1>1, <1>2, <1>3, <1>4, <1>5, <1>6, <1>7, <1>8 DEF Shared

LEMMA SeenConfirming ==
    ASSUME JobOK, NEW h \in Handlers, Confirming(h)
    PROVE  SeenStep(h)
  <1> USE DEF JobOK, Jobs, SeenStep
  <1>1. CASE Check(h) \/ ReserveDone(h)
    BY <1>1 DEF Check, ReserveDone, Goto
  <1>2. CASE CheckRefuses(h) \/ SaveMappingsFails(h)
    BY <1>2 DEF CheckRefuses, SaveMappingsFails, Rollback
  <1>3. ASSUME NEW r \in Rows, Reserve(h, r)
        PROVE  SeenStep(h)
    BY <1>3 DEF Reserve, RecordHandle
  <1>4. ASSUME NEW r \in Rows, ReserveFails(h, r)
        PROVE  SeenStep(h)
    BY <1>4 DEF ReserveFails, Rollback
  <1>5. CASE SaveMappings(h)
    BY <1>5 DEF SaveMappings, Answer, Unused
  <1> HIDE DEF SeenStep
  <1> QED
    BY <1>1, <1>2, <1>3, <1>4, <1>5 DEF Confirming

LEMMA SeenCancelling ==
    ASSUME JobOK, NEW h \in Handlers, Cancelling(h)
    PROVE  SeenStep(h)
  <1> USE DEF JobOK, Jobs, SeenStep
  <1>1. CASE LoadResources(h) \/ CancelDone(h) \/ Reload(h)
    BY <1>1 DEF LoadResources, CancelDone, Reload, Goto
  <1>2. CASE LoadResourcesFails(h) \/ ClearMappingsFails(h) \/ DeleteFails(h)
    BY <1>2 DEF LoadResourcesFails, ClearMappingsFails, DeleteFails, Rollback
  <1>3. CASE ReloadFails(h) \/ ClearMappings(h) \/ DeleteRows(h)
    BY <1>3 DEF ReloadFails, ClearMappings, DeleteRows, Answer, Unused
  <1>4. ASSUME NEW r \in Rows, CancelResource(h, r)
        PROVE  SeenStep(h)
    BY <1>4 DEF CancelResource, RecordDone
  <1>5. ASSUME NEW r \in Rows, CancelResourceFails(h, r)
        PROVE  SeenStep(h)
    BY <1>5 DEF CancelResourceFails, Rollback
  <1>6. CASE DeleteMappings(h)
    BY <1>6 DEF DeleteMappings, Record
  <1> HIDE DEF SeenStep
  <1> QED
    BY <1>1, <1>2, <1>3, <1>4, <1>5, <1>6 DEF Cancelling

LEMMA SeenUndo ==
    ASSUME JobOK, NEW h \in Handlers, Undo(h)
    PROVE  SeenStep(h)
  <1> USE DEF JobOK, Jobs, SeenStep
  <1>1. CASE StepUndone(h)
    BY <1>1 DEF StepUndone
  <1>2. CASE PassDone(h)
    BY <1>2 DEF PassDone, Answer, Unused
  <1> HIDE DEF JobOK, Jobs, SeenStep
  <1> QED
    BY <1>1, <1>2
    DEF Undo, UndoReserve, UndoCancel, UndoPartnerConfirm, UndoPartnerCancel,
        RestoreParents, Unconfirm, UndoDeleteMappings, UndoFails, UndoUnanswered

\* Every write of the status column, with what is written.
LEMMA StatusWrites ==
    ASSUME NEW h \in Handlers, Progress(h)
    PROVE  \/ UNCHANGED status
           \/ ~NoRows /\ \E v \in Statuses : status' = [p \in Parents |-> v]
           \/ status' = [p \in Parents |-> "gone"]
           \/ ~NoRows /\ status' = job[h].seen
           \/ ~NoRows /\ status' = [status EXCEPT ![Primary] = "PENDING"]
  <1>1. CASE Commit(h)
    BY <1>1 DEF Commit, Target, Statuses
  <1>2. CASE RestoreParents(h)
    BY <1>2 DEF RestoreParents
  <1>3. CASE Unconfirm(h) \/ DeleteRows(h)
    BY <1>3 DEF Unconfirm, DeleteRows
  <1>4. Shared(h) => UNCHANGED status \/ Commit(h)
    BY DEF Shared, LoadMappings, TurnAway, PartnerAgrees, PartnerRefuses, PartnerSkipped, PartnersDone,
           LoadParents, LoadParentsFails, CommitFails, db
  <1>5. Confirming(h) => UNCHANGED status
    BY DEF Confirming, Check, CheckRefuses, Reserve, ReserveFails, ReserveDone,
           SaveMappings, SaveMappingsFails, db
  <1>6. Cancelling(h) => UNCHANGED status \/ DeleteRows(h)
    BY DEF Cancelling, LoadResources, LoadResourcesFails, CancelResource,
           CancelResourceFails, CancelDone, Reload, ReloadFails, ClearMappings,
           ClearMappingsFails, DeleteMappings, DeleteFails, db
  <1>7. Undo(h) => UNCHANGED status \/ RestoreParents(h) \/ Unconfirm(h)
    BY DEF Undo, UndoReserve, UndoCancel, UndoPartnerConfirm, UndoPartnerCancel,
           UndoDeleteMappings, UndoFails, UndoUnanswered, PassDone, db
  <1> QED
    BY <1>1, <1>2, <1>3, <1>4, <1>5, <1>6, <1>7 DEF Progress

LEMMA SplitPrimed ==
    ASSUME OnlyPrimaryStrays(status'), \A g \in Handlers : OnlyPrimaryStrays(job'[g].seen)
    PROVE  SplitInv'
  BY DEF SplitInv, ParentsSplitOneWay, OnlyPrimaryStrays

LEMMA SeenArrive ==
    ASSUME JobOK, NEW h \in Handlers, NEW o \in Operations, Arrive(h, o)
    PROVE  SeenStep(h)
  <1>1. Unused(o, "none").seen = [p \in Parents |-> "gone"]
    BY DEF Unused
  <1>2. Unused(o, "rejected").seen = [p \in Parents |-> "gone"]
    BY DEF Unused
  <1>3. Unused(o, "none") \in Jobs
    BY UnusedOK DEF Answers
  <1>4. job'[h].seen = [p \in Parents |-> "gone"]
    <2>1. CASE job' = [job EXCEPT ![h] = Unused(o, "rejected")]
      BY <1>2, <2>1 DEF JobOK
    <2>2. CASE job' # [job EXCEPT ![h] = Unused(o, "rejected")]
      <3> DEFINE place == IF o \in {"Confirm", "Delete"} THEN "maps" ELSE "partners"
                 work  == IF o = "Delete" THEN {} ELSE Involved
                 j == [Unused(o, "none") EXCEPT !.pc = place, !.todo = work]
      <3>1. job' = [job EXCEPT ![h] = j]
        BY <2>2 DEF Arrive
      <3>2. j.seen = Unused(o, "none").seen
        BY <1>3 DEF Jobs
      <3> HIDE DEF j
      <3> QED
        BY <1>1, <3>1, <3>2 DEF JobOK
    <2> QED
      BY <2>1, <2>2
  <1>5. \A g \in Handlers : g # h => job'[g] = job[g]
    BY DEF Arrive, JobOK
  <1> QED
    BY <1>4, <1>5 DEF SeenStep

LEMMA SplitKept ==
    ASSUME TypeOK, SplitInv, [Next]_vars
    PROVE  SplitInv'
  <1>1. OnlyPrimaryStrays(status) /\ \A g \in Handlers : OnlyPrimaryStrays(job[g].seen)
    BY DEF SplitInv, ParentsSplitOneWay
  <1>2. ASSUME NEW h \in Handlers, SeenStep(h)
        PROVE  \A g \in Handlers : OnlyPrimaryStrays(job'[g].seen)
    BY <1>1, <1>2, EqualParents DEF SeenStep
  <1>3. CASE UNCHANGED <<status, job>>
    BY <1>1, <1>3, SplitPrimed
  <1>4. ASSUME NEW h \in Handlers, Progress(h)
        PROVE  SplitInv'
    <2>1. SeenStep(h)
      BY <1>4, SeenShared, SeenConfirming, SeenCancelling, SeenUndo DEF Progress, TypeOK
    <2>2. OnlyPrimaryStrays([status EXCEPT ![Primary] = "PENDING"])
      BY <1>1, ConstantsAssumption DEF OnlyPrimaryStrays, TypeOK, RowsOK, Snapshots
    <2>3. OnlyPrimaryStrays(status')
      BY <1>1, <1>4, <2>2, StatusWrites, EqualParents
    <2> QED
      BY <1>2, <2>1, <2>3, SplitPrimed
  <1>5. ASSUME NEW h \in Handlers, NEW o \in Operations, Arrive(h, o)
        PROVE  SplitInv'
    <2>1. UNCHANGED status
      BY <1>5 DEF Arrive, db
    <2> QED
      BY <1>1, <1>2, <1>5, <2>1, SeenArrive, SplitPrimed DEF TypeOK
  <1>6. ASSUME NEW h \in Handlers, Disconnect(h)
        PROVE  SplitInv'
    <2>1. UNCHANGED status /\ SeenStep(h)
      BY <1>6 DEF Disconnect, SeenStep, TypeOK, JobOK, Jobs, db
    <2> QED
      BY <1>1, <1>2, <2>1, SplitPrimed
  <1>7. CASE Crash
    <2>1. UNCHANGED status /\ \A g \in Handlers : job'[g].seen = [p \in Parents |-> "gone"]
      BY <1>7 DEF Crash, Unused, db
    <2> QED
      BY <1>1, <2>1, EqualParents, SplitPrimed
  <1> QED
    BY <1>3, <1>4, <1>5, <1>6, <1>7 DEF Next, Idle, vars

\* However many handlers write the parents from snapshots of different times, and
\* wherever they crash: the parents other than the primary one never disagree, and the
\* primary differs from them only by being pending.
THEOREM SplitOneWay == Spec => []ParentsSplitOneWay
  <1>1. Init => SplitInv
    <2> SUFFICES ASSUME Init
                 PROVE  SplitInv
      OBVIOUS
    <2>1. \A h \in Handlers : job[h].seen = [p \in Parents |-> "gone"]
      BY DEF Init, Unused
    <2>2. OnlyPrimaryStrays(status)
      BY EqualParents DEF Init
    <2>3. \A h \in Handlers : OnlyPrimaryStrays(job[h].seen)
      BY <2>1, EqualParents
    <2> QED
      BY <2>2, <2>3 DEF SplitInv, ParentsSplitOneWay
  <1>2. TypeOK /\ SplitInv /\ [Next]_vars => SplitInv'
    BY SplitKept
  <1>3. SplitInv => ParentsSplitOneWay
    BY DEF SplitInv
  <1> QED
    BY <1>1, <1>2, <1>3, TypeCorrect, PTL DEF Spec

-----------------------------------------------------------------------------
(* Deleted rows. *)

\* No commit and no undo of any handler, whatever it read before, brings back the rows
\* of a request that was deleted.
THEOREM DeletionIsFinal == Spec => DeletedStaysDeleted
  <1>1. [Next]_vars => (NoRows => NoRows')
    <2> SUFFICES ASSUME [Next]_vars, NoRows
                 PROVE  NoRows'
      OBVIOUS
    <2>1. CASE UNCHANGED status
      BY <2>1 DEF NoRows
    <2>2. ASSUME NEW h \in Handlers, Progress(h)
          PROVE  NoRows'
      BY <2>2, StatusWrites DEF NoRows
    <2> QED
      BY <2>1, <2>2 DEF Next, Arrive, Disconnect, Crash, Idle, vars, db
  <1> QED
    BY <1>1, PTL DEF Spec, DeletedStaysDeleted

-----------------------------------------------------------------------------
(* Where the vendors' reservations are written down. *)

(* Records. *)

\* Steps of the record that are still to be undone.
Standing(j) == IF j.pc = "undo" THEN j.left ELSE Len(j.saga)
\* The record says how to cancel the vendor's reservation id of x.
Held(j, x, id) ==
    \E i \in 1..Standing(j) :
        j.saga[i].kind = "cancelHandle" /\ j.saga[i].on = x /\ j.saga[i].id = id

\* Which undo steps an operation records.
SagaOf(j) ==
    \A i \in 1..Len(j.saga) :
        /\ j.saga[i].kind = "unconfirm" => j.op = "Confirm"
        /\ j.saga[i].kind = "restoreStatus" => j.op \in {"Cancel", "Rescind"}

LEMMA AnswerRecord ==
    ASSUME JobOK, NEW h \in Handlers, NEW a \in Answers, Answer(h, a)
    PROVE  /\ job'[h].op = job[h].op /\ job'[h].pc = "idle" /\ job'[h].answer = a
           /\ job'[h].seen[Primary] = "gone" /\ job'[h].saga = <<>>
           /\ SagaOf(job'[h]) /\ \A x, id : ~Held(job'[h], x, id)
           /\ \A g \in Handlers : g # h => job'[g] = job[g]
  <1>1. job'[h] = Unused(job[h].op, a) /\ \A g \in Handlers : g # h => job'[g] = job[g]
    BY DEF Answer, JobOK
  <1>2. /\ Unused(job[h].op, a).pc = "idle" /\ Unused(job[h].op, a).saga = <<>>
        /\ Unused(job[h].op, a).op = job[h].op /\ Unused(job[h].op, a).answer = a
        /\ Unused(job[h].op, a).seen[Primary] = "gone"
    BY ConstantsAssumption DEF Unused
  <1>3. Len(<<>>) = 0
    OBVIOUS
  <1> QED
    BY <1>1, <1>2, <1>3 DEF Standing, Held, SagaOf

\* A record with another place and no other undo step.
SameRecord(j, k) ==
    /\ k.op = j.op /\ k.saga = j.saga /\ k.answer = j.answer /\ k.handles = j.handles
    /\ (SagaOf(k) <=> SagaOf(j)) /\ \A x, id : Held(k, x, id) <=> Held(j, x, id)
OthersKept(h) == \A g \in Handlers : g # h => job'[g] = job[g]

LEMMA GotoRecord ==
    ASSUME JobOK, NEW h \in Handlers, NEW place \in Places, place # "undo", Goto(h, place), ~At(h, "undo")
    PROVE  /\ SameRecord(job[h], job'[h]) /\ OthersKept(h) /\ job'[h].pc = place
           /\ job'[h].seen = job[h].seen /\ job'[h].rows = job[h].rows
           /\ job'[h].todo = job[h].todo
  <1> DEFINE j == [job[h] EXCEPT !.pc = place]
  <1>1. job[h] \in Jobs
    BY DEF JobOK
  <1>2. job'[h] = j /\ OthersKept(h)
    BY DEF Goto, JobOK, OthersKept
  <1>3. /\ j.pc = place /\ j.saga = job[h].saga /\ j.todo = job[h].todo /\ j.op = job[h].op
        /\ j.answer = job[h].answer /\ j.seen = job[h].seen /\ j.rows = job[h].rows
        /\ j.handles = job[h].handles
    BY <1>1 DEF Jobs
  <1> HIDE DEF j
  <1>4. Standing(j) = Standing(job[h])
    BY <1>3 DEF Standing, At
  <1>5. \A x, id : Held(j, x, id) <=> Held(job[h], x, id)
    BY <1>3, <1>4 DEF Held
  <1> QED
    BY <1>2, <1>3, <1>5 DEF SameRecord, SagaOf

LEMMA RollbackRecord ==
    ASSUME JobOK, NEW h \in Handlers, NEW n \in 1..2, Rollback(h, n), ~At(h, "undo")
    PROVE  /\ SameRecord(job[h], job'[h]) /\ OthersKept(h) /\ job'[h].pc = "undo"
           /\ job'[h].seen = job[h].seen /\ job'[h].rows = job[h].rows
           /\ job'[h].todo = job[h].todo
  <1> DEFINE l == Len(job[h].saga)
             j == [job[h] EXCEPT !.pc = "undo", !.left = l, !.passes = n]
  <1>1. job[h] \in Jobs
    BY DEF JobOK
  <1>2. job'[h] = j /\ OthersKept(h)
    BY DEF Rollback, JobOK, OthersKept
  <1>3. /\ j.pc = "undo" /\ j.saga = job[h].saga /\ j.todo = job[h].todo /\ j.op = job[h].op
        /\ j.answer = job[h].answer /\ j.seen = job[h].seen /\ j.rows = job[h].rows
        /\ j.handles = job[h].handles
        /\ j.left = Len(job[h].saga)
    BY <1>1 DEF Jobs
  <1> HIDE DEF j
  <1>4. Standing(j) = Standing(job[h])
    BY <1>3 DEF Standing, At
  <1>5. \A x, id : Held(j, x, id) <=> Held(job[h], x, id)
    BY <1>3, <1>4 DEF Held
  <1> QED
    BY <1>2, <1>3, <1>5 DEF SameRecord, SagaOf

\* The record with one step more.
Recorded(j, k, step) ==
    /\ k.op = j.op /\ k.answer = j.answer /\ k.saga # <<>>
    /\ SagaOf(j) => (SagaOf(k) <=> /\ step.kind = "unconfirm" => j.op = "Confirm"
                                   /\ step.kind = "restoreStatus" => j.op \in {"Cancel", "Rescind"})
    /\ \A x, id : Held(k, x, id) <=>
          Held(j, x, id) \/ (step.kind = "cancelHandle" /\ step.on = x /\ step.id = id)

LEMMA AppendedRecord ==
    ASSUME JobOK, NEW h \in Handlers, NEW step \in Steps, ~At(h, "undo"),
           NEW j, job' = [job EXCEPT ![h] = j], j.pc # "undo", j.op = job[h].op,
           j.answer = job[h].answer, j.saga = Append(job[h].saga, step)
    PROVE  Recorded(job[h], job'[h], step) /\ OthersKept(h) /\ job'[h] = j
  <1> DEFINE old == job[h].saga
             n == Len(old)
             s == Append(old, step)
  <1>1. old \in Seq(Steps)
    BY JobFields DEF Sagas
  <1>2. job'[h] = j /\ OthersKept(h)
    BY DEF JobOK, OthersKept
  <1>3. /\ n \in Nat /\ Len(s) = n + 1 /\ s[n + 1] = step /\ s # <<>>
        /\ \A i \in 1..n : s[i] = old[i]
    BY <1>1
  <1>4. j.saga = s
    OBVIOUS
  <1> HIDE DEF s
  <1>5. Standing(j) = n + 1 /\ Standing(job[h]) = n
    BY <1>3, <1>4 DEF Standing, At
  <1>6. 1..(n + 1) = (1..n) \cup {n + 1}
    BY <1>3
  <1>7. \A x, id : Held(j, x, id) <=>
          Held(job[h], x, id) \/ (step.kind = "cancelHandle" /\ step.on = x /\ step.id = id)
    <2>1. \A x, id : Held(job[h], x, id) <=>
             \E i \in 1..n : s[i].kind = "cancelHandle" /\ s[i].on = x /\ s[i].id = id
      BY <1>3, <1>5 DEF Held
    <2>2. \A x, id : Held(j, x, id) <=>
             \E i \in 1..(n + 1) : s[i].kind = "cancelHandle" /\ s[i].on = x /\ s[i].id = id
      BY <1>4, <1>5 DEF Held
    <2> HIDE DEF n
    <2> QED
      BY <1>3, <1>6, <2>1, <2>2 DEF n
  <1>8. SagaOf(job[h]) => (SagaOf(j) <=> /\ step.kind = "unconfirm" => job[h].op = "Confirm"
                                         /\ step.kind = "restoreStatus" => job[h].op \in {"Cancel", "Rescind"})
    <2>1. SagaOf(j) <=> \A i \in 1..(n + 1) :
             /\ s[i].kind = "unconfirm" => job[h].op = "Confirm"
             /\ s[i].kind = "restoreStatus" => job[h].op \in {"Cancel", "Rescind"}
      BY <1>3, <1>4 DEF SagaOf
    <2>2. SagaOf(job[h]) <=> \A i \in 1..n :
             /\ s[i].kind = "unconfirm" => job[h].op = "Confirm"
             /\ s[i].kind = "restoreStatus" => job[h].op \in {"Cancel", "Rescind"}
      BY <1>3 DEF SagaOf
    <2> HIDE DEF n
    <2> QED
      BY <1>3, <1>6, <2>1, <2>2 DEF n
  <1>9. j.saga # <<>>
    BY <1>3, <1>4
  <1> QED
    BY <1>2, <1>7, <1>8, <1>9 DEF Recorded

LEMMA RecordRecord ==
    ASSUME JobOK, NEW h \in Handlers, NEW step \in Steps, NEW place \in Places, place # "undo",
           Record(h, step, place), ~At(h, "undo")
    PROVE  /\ Recorded(job[h], job'[h], step) /\ OthersKept(h) /\ job'[h].pc = place
           /\ job'[h].seen = job[h].seen /\ job'[h].rows = job[h].rows
           /\ job'[h].todo = job[h].todo /\ job'[h].handles = job[h].handles
  <1> DEFINE s == Append(job[h].saga, step)
             j == [job[h] EXCEPT !.saga = s, !.pc = place]
  <1>1. job' = [job EXCEPT ![h] = j]
    BY DEF Record, JobOK
  <1>2. s = Append(job[h].saga, step)
    OBVIOUS
  <1> HIDE DEF s
  <1>3. /\ j.pc = place /\ j.op = job[h].op /\ j.answer = job[h].answer /\ j.saga = s
        /\ j.seen = job[h].seen /\ j.rows = job[h].rows /\ j.todo = job[h].todo
        /\ j.handles = job[h].handles
    BY DEF JobOK, Jobs
  <1> HIDE DEF j
  <1>4. Recorded(job[h], job'[h], step) /\ OthersKept(h) /\ job'[h] = j
    <2>1. j.saga = Append(job[h].saga, step)
      BY <1>2, <1>3
    <2>2. j.pc # "undo" /\ j.op = job[h].op /\ j.answer = job[h].answer
      BY <1>3 DEF At
    <2> QED
      BY <1>1, <2>1, <2>2, AppendedRecord
  <1> QED
    BY <1>3, <1>4

LEMMA RecordDoneRecord ==
    ASSUME JobOK, NEW h \in Handlers, NEW step \in Steps, NEW x, RecordDone(h, step, x),
           ~At(h, "undo")
    PROVE  /\ Recorded(job[h], job'[h], step) /\ OthersKept(h) /\ job'[h].pc = job[h].pc
           /\ job'[h].seen = job[h].seen /\ job'[h].rows = job[h].rows
           /\ job'[h].todo = job[h].todo \ {x} /\ job'[h].handles = job[h].handles
  <1> DEFINE s == Append(job[h].saga, step)
             rest == job[h].todo \ {x}
             j == [job[h] EXCEPT !.saga = s, !.todo = rest]
  <1>1. job' = [job EXCEPT ![h] = j]
    BY DEF RecordDone, JobOK
  <1>2. s = Append(job[h].saga, step) /\ rest = job[h].todo \ {x}
    OBVIOUS
  <1> HIDE DEF s, rest
  <1>3. /\ j.pc = job[h].pc /\ j.op = job[h].op /\ j.answer = job[h].answer /\ j.saga = s
        /\ j.seen = job[h].seen /\ j.rows = job[h].rows /\ j.todo = rest
        /\ j.handles = job[h].handles
    BY DEF JobOK, Jobs
  <1> HIDE DEF j
  <1>4. Recorded(job[h], job'[h], step) /\ OthersKept(h) /\ job'[h] = j
    <2>1. j.saga = Append(job[h].saga, step)
      BY <1>2, <1>3
    <2>2. j.pc # "undo" /\ j.op = job[h].op /\ j.answer = job[h].answer
      BY <1>3 DEF At
    <2> QED
      BY <1>1, <2>1, <2>2, AppendedRecord
  <1> QED
    BY <1>2, <1>3, <1>4

LEMMA RecordHandleRecord ==
    ASSUME JobOK, NEW h \in Handlers, NEW r \in Rows, NEW id \in Ids, RecordHandle(h, r, id),
           ~At(h, "undo")
    PROVE  /\ Recorded(job[h], job'[h], Step("cancelHandle", r.on, id)) /\ OthersKept(h)
           /\ job'[h].pc = job[h].pc
           /\ job'[h].seen = job[h].seen /\ job'[h].rows = job[h].rows
           /\ job'[h].todo = job[h].todo \ Slot(h, r) /\ job'[h].handles = Handled(h, r, id)
  <1> DEFINE step == Step("cancelHandle", r.on, id)
             s == Append(job[h].saga, step)
             rest == job[h].todo \ Slot(h, r)
             ids == Handled(h, r, id)
             j == [job[h] EXCEPT !.saga = s, !.todo = rest, !.handles = ids]
  <1>1. job' = [job EXCEPT ![h] = j]
    BY DEF RecordHandle, JobOK
  <1>2. /\ s = Append(job[h].saga, step) /\ rest = job[h].todo \ Slot(h, r)
        /\ ids = Handled(h, r, id) /\ step = Step("cancelHandle", r.on, id)
    OBVIOUS
  <1>3. step \in Steps
    BY RowOn DEF Step, Steps
  <1> HIDE DEF step, s, rest, ids
  <1>4. /\ j.pc = job[h].pc /\ j.op = job[h].op /\ j.answer = job[h].answer /\ j.saga = s
        /\ j.seen = job[h].seen /\ j.rows = job[h].rows /\ j.todo = rest
        /\ j.handles = ids
    BY DEF JobOK, Jobs
  <1> HIDE DEF j
  <1>5. Recorded(job[h], job'[h], step) /\ OthersKept(h) /\ job'[h] = j
    <2>1. j.saga = Append(job[h].saga, step)
      BY <1>2, <1>4
    <2>2. j.pc # "undo" /\ j.op = job[h].op /\ j.answer = job[h].answer
      BY <1>4 DEF At
    <2> QED
      BY <1>1, <1>3, <2>1, <2>2, AppendedRecord
  <1> QED
    BY <1>2, <1>4, <1>5

LEMMA UndoneRecord ==
    ASSUME JobOK, NEW h \in Handlers, Undoing(h), StepUndone(h)
    PROVE  /\ job'[h].op = job[h].op /\ job'[h].answer = job[h].answer /\ OthersKept(h)
           /\ job'[h].saga = job[h].saga
           /\ job'[h].pc = "undo" /\ job'[h].seen = job[h].seen /\ job'[h].rows = job[h].rows
           /\ SagaOf(job'[h]) <=> SagaOf(job[h])
           /\ \A x, id : Held(job[h], x, id) =>
                 \/ Held(job'[h], x, id)
                 \/ Current(h).kind = "cancelHandle" /\ Current(h).on = x /\ Current(h).id = id
  <1> DEFINE l == job[h].left - 1
             j == [job[h] EXCEPT !.left = l]
  <1>1. job[h] \in Jobs /\ job[h].pc = "undo" /\ job[h].left \in Nat
    BY JobFields DEF Undoing, At, JobOK
  <1>2. job'[h] = j /\ OthersKept(h)
    BY DEF StepUndone, JobOK, OthersKept
  <1> HIDE DEF l
  <1>3. /\ j.pc = "undo" /\ j.left = l /\ j.saga = job[h].saga /\ j.op = job[h].op
        /\ j.answer = job[h].answer /\ j.seen = job[h].seen /\ j.rows = job[h].rows
        /\ j.handles = job[h].handles
    BY <1>1 DEF Jobs
  <1> HIDE DEF j
  <1>4. Standing(j) = l /\ Standing(job[h]) = job[h].left
    BY <1>1, <1>3 DEF Standing
  <1>5. \A i \in 1..job[h].left : i \in 1..l \/ i = job[h].left
    BY <1>1 DEF l
  <1>6. \A x, id : Held(job[h], x, id) =>
             \/ Held(j, x, id)
             \/ Current(h).kind = "cancelHandle" /\ Current(h).on = x /\ Current(h).id = id
    BY <1>3, <1>4, <1>5 DEF Held, Current
  <1> QED
    BY <1>2, <1>3, <1>6 DEF SagaOf

-----------------------------------------------------------------------------
(* Which operation can be at which place, for any number of handlers. *)

PlacesOf(j) ==
    /\ j.pc \in {"check", "reserve", "save"} => j.op = "Confirm"
    /\ j.pc \in {"reload", "clear"} => j.op \in {"Cancel", "Rescind"}
    /\ j.pc \in {"resources", "cancel"} => j.op \in {"Cancel", "Rescind", "Delete"}
    /\ j.pc \in {"deleteMaps", "deleteRows"} => j.op = "Delete"
    /\ j.pc \in {"partners", "parents", "commit"} => j.op \in {"Confirm", "Cancel", "Rescind"}
    /\ j.pc = "maps" => j.saga = <<>> /\ j.op \in {"Confirm", "Delete"}
    /\ j.pc = "idle" => j.saga = <<>>

Sound(j) == SagaOf(j) /\ PlacesOf(j)

LEMMA UndoSound ==
    ASSUME JobOK, NEW h \in Handlers, Sound(job[h]), NEW n \in 1..2, Rollback(h, n), ~At(h, "undo")
    PROVE  Sound(job'[h]) /\ OthersKept(h)
  BY RollbackRecord DEF Sound, SameRecord, PlacesOf

LEMMA AnswerSound ==
    ASSUME JobOK, NEW h \in Handlers, NEW a \in Answers, Answer(h, a)
    PROVE  Sound(job'[h]) /\ OthersKept(h)
  BY AnswerRecord DEF Sound, PlacesOf, OthersKept

LEMMA UndoneSound ==
    ASSUME JobOK, NEW h \in Handlers, Sound(job[h]), Undoing(h), StepUndone(h)
    PROVE  Sound(job'[h]) /\ OthersKept(h)
  BY UndoneRecord DEF Sound, PlacesOf

LEMMA SoundShared ==
    ASSUME JobOK, NEW h \in Handlers, Sound(job[h]), Shared(h)
    PROVE  Sound(job'[h]) /\ OthersKept(h)
  <1>1. CASE LoadMappings(h)
    BY <1>1 DEF LoadMappings, JobOK, Jobs, Sound, SagaOf, PlacesOf, OthersKept, At
  <1>2. CASE TurnAway(h) \/ LoadParentsFails(h)
    BY <1>2, AnswerSound DEF TurnAway, LoadParentsFails, Answers
  <1>3. ASSUME NEW e \in Partners, PartnerAgrees(h, e)
        PROVE  Sound(job'[h]) /\ OthersKept(h)
    <2> DEFINE s == Step(UndoOf(job[h].op), e, NoId)
    <2>1. s \in Steps /\ s.kind \notin {"unconfirm", "restoreStatus"}
      BY DEF Step, Steps, UndoOf
    <2>2. RecordDone(h, s, e) /\ At(h, "partners")
      BY <1>3 DEF PartnerAgrees
    <2> HIDE DEF s
    <2> QED
      BY <2>1, <2>2, RecordDoneRecord DEF Recorded, Sound, PlacesOf, At
  <1>4. ASSUME NEW e \in Partners, PartnerRefuses(h, e)
        PROVE  Sound(job'[h]) /\ OthersKept(h)
    BY <1>4, UndoSound DEF PartnerRefuses, At
  <1>5. ASSUME NEW e \in Partners, PartnerSkipped(h, e)
        PROVE  Sound(job'[h]) /\ OthersKept(h)
    BY <1>5 DEF PartnerSkipped, JobOK, Jobs, Sound, SagaOf, PlacesOf, OthersKept, At
  <1>6. CASE PartnersDone(h)
    <2> DEFINE place == IF job[h].op = "Confirm" THEN "check" ELSE "parents"
    <2>1. place \in Places /\ place # "undo" /\ Goto(h, place) /\ At(h, "partners")
          /\ (job[h].op = "Confirm" => place = "check") /\ place \in {"check", "parents"}
          /\ (job[h].op # "Confirm" => place = "parents")
      BY <1>6 DEF PartnersDone, Places
    <2> HIDE DEF place
    <2> QED
      BY <2>1, GotoRecord DEF SameRecord, Sound, PlacesOf, At
  <1>7. CASE LoadParents(h)
    BY <1>7 DEF LoadParents, JobOK, Jobs, Sound, SagaOf, PlacesOf, OthersKept, At
  <1>8. CASE Commit(h)
    <2> DEFINE place == IF job[h].op = "Confirm" THEN "save" ELSE "resources"
               kind == IF job[h].op = "Confirm" THEN "unconfirm" ELSE "restoreStatus"
               s == Step(kind, NoOne, NoId)
    <2>1. kind \in {"unconfirm", "restoreStatus"}
          /\ (kind = "unconfirm" <=> job[h].op = "Confirm")
      OBVIOUS
    <2>2. place \in Places /\ place # "undo" /\ (job[h].op = "Confirm" => place = "save")
          /\ place \in {"save", "resources"} /\ (job[h].op # "Confirm" => place = "resources")
      BY DEF Places
    <2>3. Record(h, s, place) /\ At(h, "commit")
      BY <1>8 DEF Commit
    <2> HIDE DEF kind, place
    <2>4. s \in Steps /\ s.kind = kind
      BY <2>1 DEF Step, Steps
    <2> HIDE DEF s
    <2> QED
      BY <2>1, <2>2, <2>3, <2>4, RecordRecord DEF Recorded, Sound, PlacesOf, At
  <1>9. CASE CommitFails(h)
    BY <1>9, UndoSound DEF CommitFails, At
  <1> QED
    BY <1>1, <1>2, <1>3, <1>4, <1>5, <1>6, <1>7, <1>8, <1>9 DEF Shared

LEMMA SoundConfirming ==
    ASSUME TypeOK, NEW h \in Handlers, Sound(job[h]), Confirming(h)
    PROVE  Sound(job'[h]) /\ OthersKept(h)
  <1> USE DEF TypeOK
  <1>1. CASE Check(h)
    BY <1>1 DEF Check, JobOK, Jobs, Sound, SagaOf, PlacesOf, OthersKept, At
  <1>2. CASE CheckRefuses(h) \/ SaveMappingsFails(h)
    BY <1>2, UndoSound DEF CheckRefuses, SaveMappingsFails, At
  <1>3. ASSUME NEW r \in Rows, Reserve(h, r)
        PROVE  Sound(job'[h]) /\ OthersKept(h)
    <2>1. PICK k \in 0..MaxFaults : Issue(r.on, k + 1)
             /\ RecordHandle(h, r, issued[r.on] + k + 1)
      BY <1>3 DEF Reserve
    <2> DEFINE id == issued[r.on] + k + 1
               s == Step("cancelHandle", r.on, id)
    <2>2. id \in Ids
      <3>1. k \in Nat /\ k + 1 \in Nat /\ k + 1 > 0 /\ issued[r.on] \in Nat
        BY ConstantsAssumption, RowOn DEF VendorOK
      <3>2. issued[r.on] + (k + 1) \in Ids
        BY <2>1, <3>1, IssueOK, RowOn
      <3> QED
        BY <3>1, <3>2
    <2>3. RecordHandle(h, r, id) /\ At(h, "reserve")
      BY <1>3, <2>1 DEF Reserve
    <2> HIDE DEF id
    <2>4. s.kind = "cancelHandle"
      BY DEF Step
    <2>5. /\ Recorded(job[h], job'[h], s) /\ OthersKept(h) /\ job'[h].pc = job[h].pc
      BY <2>2, <2>3, RecordHandleRecord DEF At
    <2> HIDE DEF s
    <2> QED
      BY <2>3, <2>4, <2>5 DEF Recorded, Sound, PlacesOf, At
  <1>4. ASSUME NEW r \in Rows, ReserveFails(h, r)
        PROVE  Sound(job'[h]) /\ OthersKept(h)
    BY <1>4, UndoSound DEF ReserveFails, At
  <1>5. CASE ReserveDone(h)
    <2>1. Goto(h, "parents") /\ At(h, "reserve") /\ "parents" \in Places
      BY <1>5 DEF ReserveDone, Places
    <2> QED
      BY <2>1, GotoRecord DEF SameRecord, Sound, PlacesOf, At
  <1>6. CASE SaveMappings(h)
    BY <1>6, AnswerSound DEF SaveMappings, Answers
  <1> QED
    BY <1>1, <1>2, <1>3, <1>4, <1>5, <1>6 DEF Confirming

LEMMA SoundCancelling ==
    ASSUME JobOK, NEW h \in Handlers, Sound(job[h]), Cancelling(h)
    PROVE  Sound(job'[h]) /\ OthersKept(h)
  <1>1. CASE LoadResources(h) \/ Reload(h)
    BY <1>1 DEF LoadResources, Reload, JobOK, Jobs, Sound, SagaOf, PlacesOf, OthersKept, At
  <1>2. CASE LoadResourcesFails(h) \/ ClearMappingsFails(h) \/ DeleteFails(h)
    BY <1>2, UndoSound DEF LoadResourcesFails, ClearMappingsFails, DeleteFails, At
  <1>3. CASE ReloadFails(h) \/ ClearMappings(h) \/ DeleteRows(h)
    BY <1>3, AnswerSound DEF ReloadFails, ClearMappings, DeleteRows, Answers
  <1>4. ASSUME NEW r \in Rows, CancelResource(h, r)
        PROVE  Sound(job'[h]) /\ OthersKept(h)
    <2> DEFINE s == Step("reReserve", r.on, NoId)
    <2>1. s \in Steps /\ s.kind = "reReserve"
      BY RowOn DEF Step, Steps
    <2>2. RecordDone(h, s, r) /\ At(h, "cancel")
      BY <1>4 DEF CancelResource
    <2> HIDE DEF s
    <2> QED
      BY <2>1, <2>2, RecordDoneRecord DEF Recorded, Sound, PlacesOf, At
  <1>5. ASSUME NEW r \in Rows, CancelResourceFails(h, r)
        PROVE  Sound(job'[h]) /\ OthersKept(h)
    BY <1>5, UndoSound DEF CancelResourceFails, At
  <1>6. CASE DeleteMappings(h)
    <2> DEFINE s == Step("insertMapping", NoOne, NoId)
    <2>1. s \in Steps /\ s.kind = "insertMapping" /\ "deleteRows" \in Places
      BY DEF Step, Steps, Places
    <2>2. Record(h, s, "deleteRows") /\ At(h, "deleteMaps")
      BY <1>6 DEF DeleteMappings
    <2> HIDE DEF s
    <2> QED
      BY <2>1, <2>2, RecordRecord DEF Recorded, Sound, PlacesOf, At
  <1>7. CASE CancelDone(h)
    <2> DEFINE place == IF job[h].op = "Delete" THEN "deleteMaps" ELSE "reload"
    <2>1. Goto(h, place) /\ At(h, "cancel") /\ place \in Places /\ place # "undo"
          /\ (job[h].op = "Delete" <=> place = "deleteMaps") /\ place \in {"deleteMaps", "reload"}
      BY <1>7 DEF CancelDone, Places
    <2> HIDE DEF place
    <2> QED
      BY <2>1, GotoRecord DEF SameRecord, Sound, PlacesOf, At
  <1> QED
    BY <1>1, <1>2, <1>3, <1>4, <1>5, <1>6, <1>7 DEF Cancelling

LEMMA SoundUndo ==
    ASSUME JobOK, NEW h \in Handlers, Sound(job[h]), Undo(h)
    PROVE  Sound(job'[h]) /\ OthersKept(h)
  <1>1. CASE Undoing(h) /\ StepUndone(h)
    BY <1>1, UndoneSound
  <1>2. CASE PassDone(h)
    <2>1. CASE job[h].passes = 2
      BY <1>2, <2>1 DEF PassDone, JobOK, Jobs, Sound, SagaOf, PlacesOf, OthersKept, At
    <2>2. CASE job[h].passes # 2
      BY <1>2, <2>2, AnswerSound DEF PassDone, Answers
    <2> QED
      BY <2>1, <2>2
  <1> QED
    BY <1>1, <1>2
    DEF Undo, UndoReserve, UndoCancel, UndoPartnerConfirm, UndoPartnerCancel,
        RestoreParents, Unconfirm, UndoDeleteMappings, UndoFails, UndoUnanswered, UndoKind

\* The record a request that is admitted starts with.
Started(o) ==
    [Unused(o, "none") EXCEPT !.pc = IF o \in {"Confirm", "Delete"} THEN "maps" ELSE "partners",
                              !.todo = IF o = "Delete" THEN {} ELSE Involved]

LEMMA ArriveRecord ==
    ASSUME JobOK, NEW h \in Handlers, NEW o \in Operations, Arrive(h, o)
    PROVE  /\ job'[h].op = o /\ job'[h].saga = <<>> /\ job'[h].seen[Primary] = "gone"
           /\ OthersKept(h) /\ SagaOf(job'[h]) /\ \A x, id : ~Held(job'[h], x, id)
           /\ \A r \in Rows : job'[h].handles[r] = NoId
           /\ \/ job'[h].pc = "idle" /\ job'[h].answer = "rejected"
              \/ /\ Admits(o) /\ job'[h].answer = "none"
                 /\ job'[h].pc = IF o \in {"Confirm", "Delete"} THEN "maps" ELSE "partners"
                 /\ job'[h].todo = IF o = "Delete" THEN {} ELSE Involved
  <1>1. OthersKept(h)
    BY DEF Arrive, JobOK, OthersKept
  <1>2. \A a : /\ Unused(o, a).op = o /\ Unused(o, a).saga = <<>> /\ Unused(o, a).pc = "idle"
               /\ Unused(o, a).answer = a /\ Unused(o, a).seen[Primary] = "gone"
               /\ \A r \in Rows : Unused(o, a).handles[r] = NoId
    BY ConstantsAssumption DEF Unused
  <1>3. \A j : j.saga = <<>> /\ j.pc # "undo" => SagaOf(j) /\ \A x, id : ~Held(j, x, id)
    <2>1. Len(<<>>) = 0
      OBVIOUS
    <2> QED
      BY <2>1 DEF Held, SagaOf, Standing
  <1>4. CASE job' = [job EXCEPT ![h] = Unused(o, "rejected")]
    <2>1. job'[h] = Unused(o, "rejected")
      BY <1>4 DEF JobOK
    <2> QED
      BY <1>1, <1>2, <1>3, <2>1
  <1>5. CASE Admits(o) /\ job' = [job EXCEPT ![h] = Started(o)]
    <2> DEFINE place == IF o \in {"Confirm", "Delete"} THEN "maps" ELSE "partners"
               work  == IF o = "Delete" THEN {} ELSE Involved
    <2>1. Unused(o, "none") \in Jobs
      BY UnusedOK DEF Answers
    <2>2. Started(o) = [Unused(o, "none") EXCEPT !.pc = place, !.todo = work]
      BY DEF Started
    <2>3. place # "idle" /\ place # "undo"
      OBVIOUS
    <2> HIDE DEF place, work
    <2>4. /\ Started(o).op = Unused(o, "none").op /\ Started(o).saga = Unused(o, "none").saga
          /\ Started(o).seen = Unused(o, "none").seen
          /\ Started(o).answer = Unused(o, "none").answer
          /\ Started(o).pc = place /\ Started(o).todo = work
          /\ Started(o).handles = Unused(o, "none").handles
      BY <2>1, <2>2 DEF Jobs
    <2>5. job'[h] = Started(o)
      BY <1>5 DEF JobOK
    <2>6. /\ place = IF o \in {"Confirm", "Delete"} THEN "maps" ELSE "partners"
          /\ work = IF o = "Delete" THEN {} ELSE Involved
      BY DEF place, work
    <2> QED
      BY <1>1, <1>2, <1>3, <1>5, <2>3, <2>4, <2>5, <2>6
  <1> QED
    BY <1>4, <1>5 DEF Arrive, Started

LEMMA ArriveSound ==
    ASSUME JobOK, NEW h \in Handlers, NEW o \in Operations, Arrive(h, o)
    PROVE  Sound(job'[h]) /\ OthersKept(h)
  <1>1. /\ job'[h].op = o /\ job'[h].saga = <<>> /\ OthersKept(h) /\ SagaOf(job'[h])
        /\ job'[h].pc \in {"idle", "maps", "partners"}
        /\ job'[h].pc = "maps" => o \in {"Confirm", "Delete"}
        /\ job'[h].pc = "partners" => o \notin {"Confirm", "Delete"}
    BY ArriveRecord
  <1> QED
    BY <1>1 DEF Sound, PlacesOf, Operations

LEMMA CrashRecord ==
    ASSUME JobOK, NEW h \in Handlers, Crash
    PROVE  /\ job'[h].op = job[h].op /\ job'[h].pc = "idle" /\ job'[h].answer = "none"
           /\ job'[h].seen[Primary] = "gone" /\ job'[h].saga = <<>>
           /\ SagaOf(job'[h]) /\ \A x, id : ~Held(job'[h], x, id)
  <1>1. job'[h] = Unused(job[h].op, "none")
    BY DEF Crash
  <1>2. /\ Unused(job[h].op, "none").pc = "idle" /\ Unused(job[h].op, "none").saga = <<>>
        /\ Unused(job[h].op, "none").op = job[h].op /\ Unused(job[h].op, "none").answer = "none"
        /\ Unused(job[h].op, "none").seen[Primary] = "gone"
    BY ConstantsAssumption DEF Unused
  <1>3. Len(<<>>) = 0
    OBVIOUS
  <1> QED
    BY <1>1, <1>2, <1>3 DEF Standing, Held, SagaOf

LEMMA DisconnectRecord ==
    ASSUME JobOK, NEW h \in Handlers, Disconnect(h)
    PROVE  /\ SameRecord(job[h], job'[h]) /\ OthersKept(h) /\ job'[h].pc = job[h].pc
           /\ job'[h].seen = job[h].seen /\ job'[h].rows = job[h].rows
           /\ job'[h].todo = job[h].todo
  <1> DEFINE j == [job[h] EXCEPT !.alive = FALSE]
  <1>1. job[h] \in Jobs
    BY DEF JobOK
  <1>2. job'[h] = j /\ OthersKept(h)
    BY DEF Disconnect, JobOK, OthersKept
  <1>3. /\ j.pc = job[h].pc /\ j.saga = job[h].saga /\ j.todo = job[h].todo /\ j.op = job[h].op
        /\ j.answer = job[h].answer /\ j.seen = job[h].seen /\ j.rows = job[h].rows
        /\ j.handles = job[h].handles
        /\ j.left = job[h].left
    BY <1>1 DEF Jobs
  <1> HIDE DEF j
  <1> QED
    BY <1>2, <1>3 DEF SameRecord, SagaOf, Held, Standing

SoundInv == \A h \in Handlers : Sound(job[h])

LEMMA SoundKept ==
    ASSUME TypeOK, SoundInv, [Next]_vars
    PROVE  SoundInv'
  <1> USE DEF TypeOK
  <1>1. ASSUME NEW h \in Handlers, Sound(job'[h]), OthersKept(h)
        PROVE  SoundInv'
    BY <1>1 DEF SoundInv, OthersKept
  <1>2. ASSUME NEW h \in Handlers, Progress(h)
        PROVE  SoundInv'
    BY <1>1, <1>2, SoundShared, SoundConfirming, SoundCancelling, SoundUndo DEF Progress, SoundInv
  <1>3. ASSUME NEW h \in Handlers, NEW o \in Operations, Arrive(h, o)
        PROVE  SoundInv'
    BY <1>1, <1>3, ArriveSound
  <1>4. ASSUME NEW h \in Handlers, Disconnect(h)
        PROVE  SoundInv'
    BY <1>1, <1>4, DisconnectRecord DEF SoundInv, Sound, SameRecord, PlacesOf
  <1>5. CASE Crash
    BY <1>5, CrashRecord DEF SoundInv, Sound, PlacesOf
  <1>6. CASE UNCHANGED job
    BY <1>6 DEF SoundInv
  <1> QED
    BY <1>2, <1>3, <1>4, <1>5, <1>6 DEF Next, Idle, vars

LEMMA InitSound ==
    ASSUME Init
    PROVE  SoundInv
  <1>1. Len(<<>>) = 0
    OBVIOUS
  <1> QED
    BY <1>1 DEF Init, Unused, SoundInv, Sound, SagaOf, PlacesOf

\* For any number of handlers, every handler is at a place of its own operation and its
\* record holds only the undo steps that operation takes.
THEOREM RecordsSound == Spec => []SoundInv
  <1>1. Init => SoundInv
    BY InitSound
  <1>2. TypeOK /\ SoundInv /\ [Next]_vars => SoundInv'
    BY SoundKept
  <1> QED
    BY <1>1, <1>2, TypeCorrect, PTL DEF Spec

-----------------------------------------------------------------------------
(* Who opens a cancelled request again. *)

StaleRead(p) ==
    status[p] \in {"CANCELED", "RESCINDED"} /\ status'[p] \in {"PENDING", "RESERVED"} =>
       \E h \in Handlers :
          /\ InUse(h) /\ job'[h] # job[h]
          /\ \/ job[h].op = "Confirm" /\ job[h].pc \in {"commit", "undo"}
             \/ IsCancel(h) /\ At(h, "undo") /\ job[h].seen[p] = status'[p]

LEMMA ReopenedOnlyByStaleRead ==
    ASSUME TypeOK, SoundInv, [Next]_vars, NEW p \in Parents
    PROVE  StaleRead(p)
  <1>1. CASE UNCHANGED status
    BY <1>1 DEF StaleRead
  <1>2. ASSUME NEW h \in Handlers, Commit(h)
        PROVE  StaleRead(p)
    <2>1. At(h, "commit") /\ job'[h].pc # "commit"
      BY <1>2 DEF Commit, Record, TypeOK, JobOK, Jobs
    <2>2. job[h].op = "Confirm" \/ status'[p] \notin {"PENDING", "RESERVED"} \/ UNCHANGED status
      BY <1>2 DEF Commit, Target
    <2> QED
      BY <2>1, <2>2, <1>1 DEF StaleRead, At, InUse
  <1>3. ASSUME NEW h \in Handlers, RestoreParents(h) \/ Unconfirm(h)
        PROVE  StaleRead(p)
    <2>1. Undoing(h) /\ StepUndone(h)
      BY <1>3 DEF RestoreParents, Unconfirm, UndoKind
    <2>2. /\ Current(h).kind = "unconfirm" => job[h].op = "Confirm"
          /\ Current(h).kind = "restoreStatus" => IsCancel(h)
      <3>1. job[h].left \in 1..Len(job[h].saga)
        BY <2>1, JobFields DEF Undoing, TypeOK, Sagas
      <3> QED
        BY <3>1 DEF SoundInv, Sound, SagaOf, Current, IsCancel
    <2>3. job'[h] # job[h]
      <3>1. job'[h].left = job[h].left - 1 /\ job[h].left \in Nat
        BY <2>1, JobFields DEF StepUndone, TypeOK, JobOK, Jobs
      <3> QED
        BY <3>1
    <2>4. CASE RestoreParents(h)
      BY <1>1, <2>1, <2>2, <2>3, <2>4 DEF RestoreParents, UndoKind, Undoing, StaleRead, InUse, At
    <2>5. CASE Unconfirm(h)
      BY <2>1, <2>2, <2>3, <2>5 DEF Unconfirm, UndoKind, Undoing, StaleRead, InUse, At
    <2> QED
      BY <1>3, <2>4, <2>5
  <1>4. ASSUME NEW h \in Handlers, DeleteRows(h)
        PROVE  StaleRead(p)
    BY <1>4 DEF DeleteRows, StaleRead
  <1>5. ASSUME NEW h \in Handlers, Progress(h)
        PROVE  StaleRead(p)
    <2>1. Shared(h) => UNCHANGED status \/ Commit(h)
      BY DEF Shared, LoadMappings, TurnAway, PartnerAgrees, PartnerRefuses, PartnerSkipped,
             PartnersDone, LoadParents, LoadParentsFails, CommitFails, db
    <2>2. Confirming(h) => UNCHANGED status
      BY DEF Confirming, Check, CheckRefuses, Reserve, ReserveFails, ReserveDone,
             SaveMappings, SaveMappingsFails, db
    <2>3. Cancelling(h) => UNCHANGED status \/ DeleteRows(h)
      BY DEF Cancelling, LoadResources, LoadResourcesFails, CancelResource,
             CancelResourceFails, CancelDone, Reload, ReloadFails, ClearMappings,
             ClearMappingsFails, DeleteMappings, DeleteFails, db
    <2>4. Undo(h) => UNCHANGED status \/ RestoreParents(h) \/ Unconfirm(h)
      BY DEF Undo, UndoReserve, UndoCancel, UndoPartnerConfirm, UndoPartnerCancel,
             UndoDeleteMappings, UndoFails, UndoUnanswered, PassDone, db
    <2> QED
      BY <1>1, <1>2, <1>3, <1>4, <1>5, <2>1, <2>2, <2>3, <2>4 DEF Progress
  <1> QED
    BY <1>1, <1>5 DEF Next, Arrive, Disconnect, Crash, Idle, vars, db

StaleCopy(r) ==
    mapping[r] = NoRow /\ mapping'[r] # NoRow =>
       \E h \in Handlers :
          /\ InUse(h) /\ job'[h] # job[h] /\ job[h].rows[r] # NoRow
          /\ \/ job[h].op = "Confirm" /\ At(h, "save")
             \/ IsCancel(h) /\ At(h, "clear")
             \/ At(h, "undo") /\ mapping'[r] = job[h].rows[r]

LEMMA RowsOnlyByStaleCopy ==
    ASSUME TypeOK, SoundInv, [Next]_vars, NEW r \in Rows
    PROVE  StaleCopy(r)
  <1>0. JobOK
    BY DEF TypeOK
  <1>1. CASE UNCHANGED mapping
    BY <1>1 DEF StaleCopy
  <1>2. ASSUME NEW h \in Handlers, SaveMappings(h) \/ SaveMappingsFails(h)
        PROVE  StaleCopy(r)
    <2>1. job[h].pc = "save" /\ job[h].op = "Confirm"
      BY <1>2 DEF SaveMappings, SaveMappingsFails, At, SoundInv, Sound, PlacesOf
    <2>2. mapping'[r] = mapping[r] \/ \E theirs : r \in Renewed(h, theirs)
      BY <1>2 DEF SaveMappings, SaveMappingsFails, Saved
    <2>3. \A theirs : r \in Renewed(h, theirs) => job[h].rows[r] # NoRow
      BY DEF Renewed, Loaded
    <2>4. job'[h].pc \in {"idle", "undo"}
      BY <1>0, <1>2, <2>1, AnswerRecord, RollbackRecord
      DEF SaveMappings, SaveMappingsFails, Answers, At
    <2> QED
      BY <2>1, <2>2, <2>3, <2>4 DEF StaleCopy, InUse, At
  <1>3. ASSUME NEW h \in Handlers, ClearMappings(h) \/ ClearMappingsFails(h)
        PROVE  StaleCopy(r)
    <2>1. job[h].pc = "clear" /\ IsCancel(h)
      BY <1>3 DEF ClearMappings, ClearMappingsFails, At, SoundInv, Sound, PlacesOf, IsCancel
    <2>2. mapping'[r] = mapping[r] \/ r \in Loaded(h)
      BY <1>3 DEF ClearMappings, ClearMappingsFails, Saved
    <2>3. job'[h].pc \in {"idle", "undo"}
      BY <1>0, <1>3, <2>1, AnswerRecord, RollbackRecord
      DEF ClearMappings, ClearMappingsFails, Answers, At
    <2> QED
      BY <2>1, <2>2, <2>3 DEF StaleCopy, InUse, At, Loaded
  <1>4. ASSUME NEW h \in Handlers, UndoDeleteMappings(h)
        PROVE  StaleCopy(r)
    <2>1. Undoing(h) /\ StepUndone(h) /\ mapping' = Saved(Loaded(h), job[h].rows)
      BY <1>4 DEF UndoDeleteMappings, UndoKind
    <2>2. job'[h] # job[h]
      <3>1. job'[h].left = job[h].left - 1 /\ job[h].left \in Nat
        BY <2>1, JobFields DEF StepUndone, TypeOK, JobOK, Jobs
      <3> QED
        BY <3>1
    <2> QED
      BY <2>1, <2>2 DEF StaleCopy, Saved, Loaded, Undoing, InUse, At
  <1>5. ASSUME NEW h \in Handlers, DeleteMappings(h)
        PROVE  StaleCopy(r)
    BY <1>5 DEF DeleteMappings, StaleCopy
  <1>6. ASSUME NEW h \in Handlers, Progress(h)
        PROVE  StaleCopy(r)
    <2>1. Shared(h) => UNCHANGED mapping
      BY DEF Shared, LoadMappings, TurnAway, PartnerAgrees, PartnerRefuses, PartnerSkipped,
             PartnersDone, LoadParents, LoadParentsFails, Commit, CommitFails, db
    <2>2. Confirming(h) => UNCHANGED mapping \/ SaveMappings(h) \/ SaveMappingsFails(h)
      BY DEF Confirming, Check, CheckRefuses, Reserve, ReserveFails, ReserveDone, db
    <2>3. Cancelling(h) => \/ UNCHANGED mapping \/ DeleteMappings(h)
                           \/ ClearMappings(h) \/ ClearMappingsFails(h)
      BY DEF Cancelling, LoadResources, LoadResourcesFails, CancelResource,
             CancelResourceFails, CancelDone, Reload, ReloadFails, DeleteRows, DeleteFails, db
    <2>4. Undo(h) => UNCHANGED mapping \/ UndoDeleteMappings(h)
      BY DEF Undo, UndoReserve, UndoCancel, UndoPartnerConfirm, UndoPartnerCancel,
             RestoreParents, Unconfirm, UndoFails, UndoUnanswered, PassDone, db
    <2> QED
      BY <1>1, <1>2, <1>3, <1>4, <1>5, <1>6, <2>1, <2>2, <2>3, <2>4 DEF Progress
  <1> QED
    BY <1>1, <1>6 DEF Next, Arrive, Disconnect, Crash, Idle, vars, db

\* However many handlers work on a request: one that was cancelled or rescinded is opened
\* again only by the commit or the undo of a Confirm, or by the undo of a Cancel that puts
\* back what it had read; and a mapping row that was deleted comes back only from the copy
\* of a handler that had read it.
THEOREM OnlyStaleReadsReopen == Spec => ReopenedByStaleRead
  <1>1. TypeOK /\ SoundInv /\ [Next]_vars =>
          (\A p \in Parents : StaleRead(p)) /\ \A r \in Rows : StaleCopy(r)
    BY ReopenedOnlyByStaleRead, RowsOnlyByStaleCopy
  <1> QED
    BY <1>1, TypeCorrect, RecordsSound, PTL DEF Spec, ReopenedByStaleRead, StaleRead, StaleCopy

-----------------------------------------------------------------------------
(* One handler at a time: where every vendor's reservation is written down.     *)

Busy(h) == InUse(h) /\ job[h].op = "Confirm"
Lost(x, id) == <<x, id>> \in lost
AllLost == \A x \in Resources : \A id \in live[x] : Lost(x, id)
\* So is everything of the resources that can be given back.
AllFreed == \A x \in Resources : Traceable(x) => \A id \in live[x] : Lost(x, id)
InRow(rows, x, id) == \E r \in RowsOf(x) : rows[r] = id

\* A running Confirm has what is live in its record; otherwise the mapping table has it.
Booked(h) ==
    Busy(h) => \A x \in Resources : \A id \in live[x] : Lost(x, id) \/ Held(job[h], x, id)
Mapped(h) ==
    ~Busy(h) => \A x \in Resources : Traceable(x) =>
                   \A id \in live[x] : Lost(x, id) \/ InRow(mapping, x, id)
\* A pending request has nothing at the vendors, nor will one that is put back to pending.
Pending(h) ==
    ~Busy(h) /\ (status[Primary] = "PENDING" \/ job[h].seen[Primary] = "PENDING") => AllLost

\* The rows stay as a Confirm and a Delete read them, and a Confirm starts with no handle.
Holding == {"reserve", "parents", "commit", "save"}
ReadOnce(h) ==
    /\ job[h].op = "Confirm" /\ job[h].pc \in {"partners", "check"} \cup Holding =>
          job[h].rows = mapping
    /\ job[h].op = "Delete" /\ job[h].pc = "resources" => job[h].rows = mapping
    /\ job[h].op = "Confirm" /\ job[h].pc \in {"maps", "partners", "check"} =>
          /\ \A r \in Rows : job[h].handles[r] = NoId
          /\ \A x \in Resources, id \in Ids : ~Held(job[h], x, id)
\* Each reservation of a resource that can be given back is the handle of a row that was
\* read, each handle is of a reservation in the record, and what is still to be reserved is
\* of no slot that has one.
Handed(h) ==
    job[h].op = "Confirm" /\ job[h].pc \in Holding =>
        /\ \A x \in Resources, id \in Ids : Traceable(x) /\ Held(job[h], x, id) =>
              \E r \in RowsOf(x) : job[h].rows[r] # NoRow /\ job[h].handles[r] = id
        /\ \A r \in Rows : job[h].handles[r] # NoId =>
              job[h].handles[r] \in Ids /\ Held(job[h], r.on, job[h].handles[r])
        /\ job[h].pc = "reserve" =>
              /\ job[h].todo \subseteq Loaded(h)
              /\ \A r \in job[h].todo, q \in Rows :
                    SameSlot(q, r) /\ Traceable(r.on) => job[h].handles[q] = NoId

\* What a Cancel or a Delete has still to cancel is what is still live.
Sweeping(h) ==
    job[h].pc = "cancel" => \A x \in Resources : Traceable(x) => \A id \in live[x] :
        Lost(x, id) \/ \E r \in job[h].todo \cap RowsOf(x) : job[h].rows[r] = id
Swept(h) ==
    /\ job[h].pc \in {"reload", "clear", "deleteMaps", "deleteRows"} => AllFreed
    /\ job[h].pc = "deleteRows" => \A r \in Rows : mapping[r] = NoRow
Gone(h) == NoRows => job[h].pc = "idle" /\ AllFreed /\ \A r \in Rows : mapping[r] = NoRow

\* A Confirm that saves has committed.
Committed(h) == job[h].pc = "save" => \A p \in Parents : status[p] = "RESERVED"

Books(h) ==
    /\ Booked(h) /\ Mapped(h) /\ Pending(h) /\ ReadOnce(h) /\ Handed(h)
    /\ Sweeping(h) /\ Swept(h) /\ Gone(h) /\ Committed(h)

LEMMA SlotFacts ==
    /\ \A r : SameSlot(r, r) /\ SameKey(r, r)
    /\ \A q, r : SameSlot(q, r) => SameSlot(r, q)
    /\ \A p, q, r : SameSlot(p, q) /\ SameSlot(q, r) => SameSlot(p, r)
    /\ \A q, r : SameSlot(q, r) \/ SameKey(q, r) => q.on = r.on
  BY DEF SameSlot, SameKey

\* No partner answers for a resource that can be given back, and its rows pass the filter
\* of a cancellation.
LEMMA TraceableFacts ==
    ASSUME NEW x, Traceable(x), NEW r \in RowsOf(x)
    PROVE  /\ \A rows : rows[r] # NoRow => r \in OurRows(rows)
           /\ ~\E q \in Rows : SameKey(q, r) /\ q.tag = "theirs"
           /\ \A q \in RowsOf(x) : SameKey(q, r) => SameSlot(q, r)
  <1>1. \A q : SameKey(q, r) => q.on = x
    BY SlotFacts DEF RowsOf
  <1>2. /\ (\A q \in RowsOf(x) : q.tag = "ours") \/ (\A q \in Rows : q.tag = "none")
        /\ \A p, q \in RowsOf(x) : SameKey(p, q) => SameSlot(p, q)
    BY DEF Traceable
  <1>3. \A q \in Rows : SameKey(q, r) => q.tag # "theirs"
    BY <1>1, <1>2 DEF RowsOf
  <1>4. \A rows : rows[r] # NoRow => r \in OurRows(rows)
    BY <1>2 DEF OurRows, RowsOf
  <1> QED
    BY <1>2, <1>3, <1>4

LEMMA LoadRecord ==
    ASSUME JobOK, NEW h \in Handlers, LoadMappings(h) \/ LoadResources(h) \/ Reload(h)
    PROVE  /\ SameRecord(job[h], job'[h]) /\ OthersKept(h) /\ job'[h].seen = job[h].seen
           /\ job'[h].rows = IF LoadResources(h) THEN Read(h) ELSE mapping
           /\ LoadMappings(h) => job'[h].pc = IF job[h].op = "Confirm" THEN "partners" ELSE "resources"
           /\ LoadMappings(h) /\ job[h].op = "Confirm" => job'[h].todo = Involved
           /\ LoadResources(h) =>
                 /\ job'[h].pc = "cancel"
                 /\ \A r \in OurRows(Read(h)) :
                       Read(h)[r] \notin {NoRow, NoId} => r \in job'[h].todo
                 /\ \A r \in job'[h].todo : r \in Rows /\ Read(h)[r] \notin {NoRow, NoId}
           /\ Reload(h) => job'[h].pc = "clear"
  <1>1. CASE LoadResources(h)
    <2>1. PICK rs \in {OurRows(Read(h)), Rows} :
            job' = [job EXCEPT ![h].rows = Read(h), ![h].pc = "cancel",
                               ![h].todo = {r \in rs : Read(h)[r] \notin {NoRow, NoId}}]
      BY <1>1 DEF LoadResources
    <2> DEFINE work == {r \in rs : Read(h)[r] \notin {NoRow, NoId}}
    <2>2. /\ \A r \in OurRows(Read(h)) : Read(h)[r] \notin {NoRow, NoId} => r \in work
          /\ \A r \in work : r \in Rows /\ Read(h)[r] \notin {NoRow, NoId}
      BY DEF OurRows
    <2>3. job' = [job EXCEPT ![h].rows = Read(h), ![h].pc = "cancel", ![h].todo = work]
      BY <2>1
    <2> HIDE DEF work
    <2>4. /\ job'[h].op = job[h].op /\ job'[h].saga = job[h].saga /\ job'[h].answer = job[h].answer
          /\ job'[h].seen = job[h].seen /\ job'[h].handles = job[h].handles
          /\ job'[h].rows = Read(h) /\ job'[h].pc = "cancel" /\ job'[h].todo = work
          /\ OthersKept(h) /\ job[h].pc = "resources"
      BY <1>1, <2>3 DEF LoadResources, JobOK, Jobs, OthersKept, At
    <2>5. SameRecord(job[h], job'[h])
      BY <2>4 DEF SameRecord, SagaOf, Held, Standing
    <2>6. ~LoadMappings(h) /\ ~Reload(h)
      BY <2>4 DEF LoadMappings, Reload, At
    <2> QED
      BY <1>1, <2>2, <2>4, <2>5, <2>6
  <1>2. CASE LoadMappings(h) \/ Reload(h)
    <2>1. /\ job'[h].op = job[h].op /\ job'[h].saga = job[h].saga /\ job'[h].answer = job[h].answer
          /\ job'[h].seen = job[h].seen /\ job'[h].handles = job[h].handles
          /\ job'[h].rows = mapping
          /\ job'[h].pc \in {"partners", "resources", "clear"} /\ OthersKept(h)
          /\ job[h].pc \in {"maps", "reload"}
      BY <1>2 DEF LoadMappings, Reload, JobOK, Jobs, OthersKept, At
    <2>2. SameRecord(job[h], job'[h])
      BY <2>1 DEF SameRecord, SagaOf, Held, Standing
    <2>3. /\ LoadMappings(h) => job'[h].pc = IF job[h].op = "Confirm" THEN "partners" ELSE "resources"
          /\ LoadMappings(h) /\ job[h].op = "Confirm" => job'[h].todo = Involved
          /\ Reload(h) => job'[h].pc = "clear"
      BY <1>2 DEF LoadMappings, Reload, JobOK, Jobs
    <2>4. ~LoadResources(h)
      BY <2>1 DEF LoadResources, At
    <2> QED
      BY <2>1, <2>2, <2>3, <2>4
  <1> QED
    BY <1>1, <1>2

LEMMA BooksLoads ==
    ASSUME TypeOK, NEW h \in Handlers, Sound(job[h]), Books(h),
           LoadMappings(h) \/ LoadResources(h) \/ Reload(h)
    PROVE  Books(h)'
  <1>1. UNCHANGED <<status, mapping, live, lost>> /\ job[h].pc \in {"maps", "resources", "reload"}
    BY DEF LoadMappings, LoadResources, Reload, db, vendor, history, At
  <1>2. \A x \in Resources : \A id \in live[x] : id \in Ids /\ id \notin {NoRow, NoId}
    BY DEF TypeOK, VendorOK, Ids, NoRow, NoId
  <1>3. job[h].pc = "maps" => \A x, id : ~Held(job[h], x, id)
    <2>1. Len(<<>>) = 0
      OBVIOUS
    <2> QED
      BY <2>1 DEF Sound, PlacesOf, Held, Standing
  <1>4. CASE LoadMappings(h)
    <2>1. /\ job[h].pc = "maps" /\ job'[h].op = job[h].op /\ job'[h].rows = mapping
          /\ job'[h].seen = job[h].seen /\ job'[h].handles = job[h].handles
          /\ job'[h].pc = IF job[h].op = "Confirm" THEN "partners" ELSE "resources"
          /\ \A x, id : ~Held(job'[h], x, id)
      <3>1. job[h].pc = "maps" /\ ~LoadResources(h)
        BY <1>4 DEF LoadMappings, LoadResources, At
      <3> QED
        BY <1>3, <1>4, <3>1, LoadRecord DEF SameRecord, TypeOK
    <2> QED
      BY <1>1, <1>2, <1>3, <2>1
      DEF Books, Booked, Mapped, Pending, ReadOnce, Handed, Sweeping, Swept, Gone, Committed,
          Busy, Lost, AllLost, AllFreed, InUse, NoRows, Holding
  <1>5. CASE LoadResources(h)
    <2>1. /\ job[h].pc = "resources" /\ job'[h].op = job[h].op /\ job'[h].rows = Read(h)
          /\ job'[h].seen = job[h].seen /\ job'[h].pc = "cancel" /\ job[h].op # "Confirm"
          /\ \A r \in OurRows(Read(h)) :
                Read(h)[r] \notin {NoRow, NoId} => r \in job'[h].todo
      BY <1>5, LoadRecord DEF LoadResources, At, SameRecord, TypeOK, Sound, PlacesOf
    <2>2. Read(h) = mapping
      BY <2>1 DEF Read, Books, ReadOnce
    <2>3. Sweeping(h)'
      <3>1. ASSUME NEW x \in Resources, Traceable(x), NEW id \in live[x], ~Lost(x, id)
            PROVE  \E r \in job'[h].todo \cap RowsOf(x) : job'[h].rows[r] = id
        <4>1. PICK r \in RowsOf(x) : mapping[r] = id
          BY <2>1, <3>1 DEF Books, Mapped, Busy, InRow
        <4>2. mapping[r] \notin {NoRow, NoId} /\ r \in OurRows(mapping)
          BY <1>2, <3>1, <4>1, TraceableFacts
        <4> QED
          BY <2>1, <2>2, <4>1, <4>2
      <3> QED
        BY <1>1, <3>1 DEF Sweeping, Lost
    <2> QED
      BY <1>1, <2>1, <2>3
      DEF Books, Booked, Mapped, Pending, ReadOnce, Handed, Swept, Gone, Committed,
          Busy, Lost, AllLost, AllFreed, InUse, NoRows, Holding
  <1>6. CASE Reload(h)
    <2>1. /\ job[h].pc = "reload" /\ job'[h].op = job[h].op /\ job'[h].seen = job[h].seen
          /\ job'[h].pc = "clear" /\ job[h].op # "Confirm"
      BY <1>6, LoadRecord DEF Reload, At, SameRecord, TypeOK, Sound, PlacesOf
    <2> QED
      BY <1>1, <2>1
      DEF Books, Booked, Mapped, Pending, ReadOnce, Handed, Sweeping, Swept, Gone, Committed,
          Busy, Lost, AllLost, AllFreed, InUse, NoRows, Holding
  <1> QED
    BY <1>4, <1>5, <1>6

\* Steps that turn to the undo, or answer, and leave rows and vendors alone.
LEMMA BooksRollback ==
    ASSUME TypeOK, NEW h \in Handlers, Sound(job[h]), Books(h), NEW n \in 1..2, Rollback(h, n),
           InUse(h), ~At(h, "undo"), UNCHANGED status, lost \subseteq lost',
           \A x \in Resources : \A id \in live'[x] : id \in live[x] \/ <<x, id>> \in lost',
           UNCHANGED mapping \/ AllFreed \/ job[h].op = "Confirm"
    PROVE  Books(h)'
  <1>1. /\ job'[h].op = job[h].op /\ job'[h].seen = job[h].seen /\ job'[h].pc = "undo"
        /\ \A x, id : Held(job'[h], x, id) <=> Held(job[h], x, id)
    BY RollbackRecord DEF SameRecord, TypeOK
  <1> QED
    BY <1>1 DEF Books, Booked, Mapped, Pending, ReadOnce, Handed, Sweeping, Swept, Gone, Committed,
                Busy, Lost, AllLost, AllFreed, InUse, NoRows, Holding

LEMMA BooksAnswer ==
    ASSUME TypeOK, NEW h \in Handlers, Books(h), NEW a \in Answers, Answer(h, a), InUse(h),
           UNCHANGED <<status, live>>, lost \subseteq lost', UNCHANGED mapping \/ AllFreed,
           Busy(h) => \A x \in Resources, id \in Ids : Held(job[h], x, id) => <<x, id>> \in lost'
    PROVE  Books(h)'
  <1>1. /\ job'[h].seen[Primary] = "gone" /\ job'[h].pc = "idle"
        /\ \A x, id : ~Held(job'[h], x, id)
    BY AnswerRecord DEF TypeOK
  <1>2. \A x \in Resources : \A id \in live[x] : id \in Ids
    BY DEF TypeOK, VendorOK
  <1> QED
    BY <1>1, <1>2 DEF Books, Booked, Mapped, Pending, ReadOnce, Handed, Sweeping, Swept, Gone, Committed,
                Busy, Lost, AllLost, AllFreed, InUse, NoRows, Holding

\* What is to be undone is in the record as a whole.
LEMMA HeldTracked ==
    ASSUME JobOK, NEW h \in Handlers, NEW x, NEW id, Held(job[h], x, id)
    PROVE  <<x, id>> \in Tracked(h)
  <1>1. PICK i \in 1..Standing(job[h]) : /\ job[h].saga[i].kind = "cancelHandle"
                                         /\ job[h].saga[i].on = x /\ job[h].saga[i].id = id
    BY DEF Held
  <1>2. i \in 1..Len(job[h].saga)
    BY <1>1, JobFields DEF Standing, Sagas
  <1> QED
    BY <1>1, <1>2 DEF Tracked

\* The handles of a Confirm stand while nothing is reserved.
LEMMA HandedStands ==
    ASSUME NEW h, Handed(h), job[h].pc \in Holding, job'[h].pc # "reserve",
           job'[h].op = job[h].op, job'[h].rows = job[h].rows, job'[h].handles = job[h].handles,
           \A x, id : Held(job'[h], x, id) <=> Held(job[h], x, id)
    PROVE  Handed(h)'
  BY DEF Handed

LEMMA NothingHeld ==
    ASSUME NEW j, j.saga = <<>>, j.pc # "undo"
    PROVE  \A x, id : ~Held(j, x, id)
  <1>1. Len(<<>>) = 0
    OBVIOUS
  <1> QED
    BY <1>1 DEF Held, Standing

LEMMA BooksShared ==
    ASSUME TypeOK, NEW h \in Handlers, Sound(job[h]), Books(h), Shared(h), ~Commit(h)
    PROVE  Books(h)'
  <1>0. JobOK
    BY DEF TypeOK
  <1>1. CASE LoadMappings(h)
    BY <1>1, BooksLoads
  <1>2. CASE TurnAway(h)
    <2>1. Answer(h, "failed") /\ UNCHANGED <<status, mapping, live, lost>> /\ job[h].pc = "maps"
      BY <1>2 DEF TurnAway, db, vendor, history, At
    <2>4. InUse(h)
      BY <2>1 DEF InUse
    <2>2. job[h].saga = <<>> /\ job[h].pc # "undo"
      BY <2>1 DEF Sound, PlacesOf
    <2>3. \A x, id : ~Held(job[h], x, id)
      BY <2>2, NothingHeld
    <2> QED
      BY <2>1, <2>3, <2>4, BooksAnswer DEF Answers
  <1>3. ASSUME NEW e \in Partners, PartnerAgrees(h, e)
        PROVE  Books(h)'
    <2> DEFINE s == Step(UndoOf(job[h].op), e, NoId)
    <2>1. s \in Steps /\ s.kind # "cancelHandle"
      BY DEF Step, Steps, UndoOf
    <2>2. RecordDone(h, s, e) /\ job[h].pc = "partners" /\ ~At(h, "undo")
          /\ UNCHANGED <<status, mapping, live, lost>>
      BY <1>3 DEF PartnerAgrees, At, db, vendor, history
    <2> HIDE DEF s
    <2>3. /\ job'[h].op = job[h].op /\ job'[h].seen = job[h].seen /\ job'[h].pc = "partners"
          /\ job'[h].rows = job[h].rows /\ job'[h].handles = job[h].handles
          /\ \A x, id : Held(job'[h], x, id) <=> Held(job[h], x, id)
      BY <1>0, <2>1, <2>2, RecordDoneRecord DEF Recorded
    <2> QED
      BY <2>2, <2>3
      DEF Books, Booked, Mapped, Pending, ReadOnce, Handed, Sweeping, Swept, Gone, Committed,
          Busy, Lost, AllLost, AllFreed, InUse, NoRows, Holding
  <1>4. ASSUME NEW e \in Partners, PartnerRefuses(h, e)
        PROVE  Books(h)'
    <2>1. Rollback(h, 1) /\ UNCHANGED <<status, mapping, live, lost>> /\ job[h].pc = "partners"
      BY <1>4 DEF PartnerRefuses, NoGap, db, vendor, history, At
    <2> QED
      BY <2>1, BooksRollback DEF InUse, At
  <1>5. ASSUME NEW e \in Partners, PartnerSkipped(h, e)
        PROVE  Books(h)'
    <2>1. /\ job'[h].op = job[h].op /\ job'[h].seen = job[h].seen /\ job'[h].rows = job[h].rows
          /\ job'[h].pc = "partners" /\ job[h].pc = "partners" /\ job'[h].saga = job[h].saga
          /\ job'[h].handles = job[h].handles
          /\ UNCHANGED <<status, mapping, live, lost>>
      BY <1>0, <1>5 DEF PartnerSkipped, JobOK, Jobs, At, db, vendor
    <2>2. \A x, id : Held(job'[h], x, id) <=> Held(job[h], x, id)
      BY <2>1 DEF Held, Standing
    <2> QED
      BY <2>1, <2>2
      DEF Books, Booked, Mapped, Pending, ReadOnce, Handed, Sweeping, Swept, Gone, Committed,
          Busy, Lost, AllLost, AllFreed, InUse, NoRows, Holding
  <1>6. CASE PartnersDone(h)
    <2> DEFINE place == IF job[h].op = "Confirm" THEN "check" ELSE "parents"
    <2>1. place \in Places /\ place # "undo" /\ Goto(h, place) /\ At(h, "partners")
          /\ (job[h].op = "Confirm" => place = "check") /\ place \in {"check", "parents"}
          /\ (job[h].op # "Confirm" => place = "parents")
          /\ UNCHANGED <<status, mapping, live, lost>>
      BY <1>6 DEF PartnersDone, Places, db, vendor, history
    <2> HIDE DEF place
    <2>2. /\ job'[h].op = job[h].op /\ job'[h].seen = job[h].seen /\ job'[h].rows = job[h].rows
          /\ job'[h].pc = place /\ job[h].pc = "partners" /\ job'[h].handles = job[h].handles
          /\ \A x, id : Held(job'[h], x, id) <=> Held(job[h], x, id)
      BY <1>0, <2>1, GotoRecord DEF SameRecord, At
    <2> QED
      BY <2>1, <2>2
      DEF Books, Booked, Mapped, Pending, ReadOnce, Handed, Sweeping, Swept, Gone, Committed,
          Busy, Lost, AllLost, AllFreed, InUse, NoRows, Holding
  <1>7. CASE LoadParents(h)
    <2>1. /\ job'[h].op = job[h].op /\ job'[h].seen = status /\ job'[h].rows = job[h].rows
          /\ job'[h].pc = "commit" /\ job[h].pc = "parents" /\ job'[h].saga = job[h].saga
          /\ job'[h].handles = job[h].handles
          /\ UNCHANGED <<status, mapping, live, lost>>
      BY <1>0, <1>7 DEF LoadParents, JobOK, Jobs, At, db, vendor, history
    <2>2. \A x, id : Held(job'[h], x, id) <=> Held(job[h], x, id)
      BY <2>1 DEF Held, Standing
    <2>3. Handed(h)'
      BY <2>1, <2>2, HandedStands DEF Books, Holding
    <2> QED
      BY <2>1, <2>2, <2>3
      DEF Books, Booked, Mapped, Pending, ReadOnce, Sweeping, Swept, Gone, Committed,
          Busy, Lost, AllLost, AllFreed, InUse, NoRows, Holding
  <1>8. CASE LoadParentsFails(h)
    <2>1. Answer(h, "failed") /\ UNCHANGED <<status, mapping, live>>
          /\ lost' = lost \cup Tracked(h) /\ InUse(h)
      BY <1>8 DEF LoadParentsFails, db, vendor, At, InUse
    <2> QED
      BY <1>0, <2>1, BooksAnswer, HeldTracked DEF Answers
  <1>9. CASE CommitFails(h)
    <2>1. Rollback(h, 1) /\ UNCHANGED <<status, mapping, live, lost>> /\ job[h].pc = "commit"
      BY <1>9 DEF CommitFails, db, vendor, history, At
    <2> QED
      BY <2>1, BooksRollback DEF InUse, At
  <1> QED
    BY <1>1, <1>2, <1>3, <1>4, <1>5, <1>6, <1>7, <1>8, <1>9 DEF Shared

LEMMA BooksCommit ==
    ASSUME TypeOK, NEW h \in Handlers, Sound(job[h]), Books(h), Commit(h)
    PROVE  Books(h)'
  <1> DEFINE place == IF job[h].op = "Confirm" THEN "save" ELSE "resources"
             kind == IF job[h].op = "Confirm" THEN "unconfirm" ELSE "restoreStatus"
             s == Step(kind, NoOne, NoId)
  <1>1. kind \in {"unconfirm", "restoreStatus"}
    OBVIOUS
  <1>2. place \in Places /\ place # "undo" /\ (job[h].op = "Confirm" => place = "save")
        /\ place \in {"save", "resources"} /\ (job[h].op # "Confirm" => place = "resources")
    BY DEF Places
  <1>3. Record(h, s, place) /\ ~At(h, "undo") /\ job[h].pc = "commit"
        /\ UNCHANGED <<mapping, live, lost>>
    BY DEF Commit, vendor, history, At
  <1>4. \/ /\ status' = [p \in Parents |-> IF job[h].op = "Confirm" THEN "RESERVED"
                                           ELSE Target(job[h].op)]
           /\ Primary \in Parents
        \/ UNCHANGED status /\ job[h].op # "Confirm"
    BY ConstantsAssumption DEF Commit, IsCancel
  <1>5. Target(job[h].op) \notin {"PENDING", "gone"}
    BY DEF Target
  <1> HIDE DEF kind, place
  <1>6. s \in Steps /\ s.kind # "cancelHandle"
    BY <1>1 DEF Step, Steps
  <1> HIDE DEF s
  <1>7. /\ job'[h].op = job[h].op /\ job'[h].seen = job[h].seen /\ job'[h].pc = place
        /\ job'[h].rows = job[h].rows /\ job'[h].handles = job[h].handles
        /\ \A x, id : Held(job'[h], x, id) <=> Held(job[h], x, id)
    BY <1>2, <1>3, <1>6, RecordRecord DEF Recorded, TypeOK
  <1>8. Handed(h)'
    BY <1>2, <1>3, <1>7, HandedStands DEF Books, Holding
  <1>9. /\ Busy(h)' <=> Busy(h)
        /\ AllLost' <=> AllLost
        /\ job[h].op # "Confirm" => status'[Primary] = status[Primary] \/ status'[Primary] # "PENDING"
    BY <1>2, <1>3, <1>4, <1>5, <1>7 DEF Busy, InUse, AllLost, Lost
  <1>10. Booked(h)' /\ Mapped(h)' /\ Pending(h)'
    BY <1>3, <1>7, <1>9 DEF Books, Booked, Mapped, Pending, Busy, InUse, Lost
  <1>11. NoRows' => NoRows
    BY <1>4, <1>5 DEF NoRows
  <1>12. job[h].op # "Delete"
    BY <1>3 DEF Sound, PlacesOf
  <1> QED
    BY <1>2, <1>3, <1>4, <1>7, <1>8, <1>10, <1>11, <1>12
    DEF Books, ReadOnce, Sweeping, Swept, Gone, Committed, Holding

\* A new handle goes to rows of the key of the slot that was reserved.
LEMMA HandledFacts ==
    ASSUME NEW h, job[h].todo \subseteq Rows, NEW r \in job[h].todo, NEW id
    PROVE  /\ Handled(h, r, id)[r] = id
           /\ \A q \in Rows : Handled(h, r, id)[q] # id =>
                 Handled(h, r, id)[q] = job[h].handles[q]
           /\ \A q \in Rows : Handled(h, r, id)[q] # job[h].handles[q] =>
                 /\ Handled(h, r, id)[q] = id /\ q.on = r.on
                 /\ Traceable(r.on) => SameSlot(q, r)
           /\ \A q \in Slot(h, r) : q \in Rows /\ Handled(h, r, id)[q] = id
  <1>1. \A q \in Slot(h, r) : SameSlot(q, r) /\ q \in Rows
    BY DEF Slot
  <1>2. r \in Slot(h, r)
    BY SlotFacts DEF Slot
  <1>3. ASSUME NEW q \in Rows
        PROVE  Handled(h, r, id)[q] = IF \E g \in Slot(h, r) : SameKey(g, q)
                                      THEN id ELSE job[h].handles[q]
    BY DEF Handled
  <1>4. ASSUME NEW q \in Rows, NEW g \in Slot(h, r), SameKey(g, q)
        PROVE  q.on = r.on /\ (Traceable(r.on) => SameSlot(q, r))
    <2>1. q.on = g.on /\ g.on = r.on
      BY <1>1, <1>4, SlotFacts
    <2>2. g \in RowsOf(r.on) /\ q \in RowsOf(r.on)
      BY <1>1, <2>1 DEF RowsOf
    <2>3. Traceable(r.on) => SameSlot(g, q)
      BY <1>4, <2>2, TraceableFacts
    <2> QED
      BY <1>1, <2>1, <2>3, SlotFacts
  <1> QED
    BY <1>1, <1>2, <1>3, <1>4, SlotFacts

LEMMA BooksReserve ==
    ASSUME TypeOK, NEW h \in Handlers, Sound(job[h]), Books(h), NEW r \in Rows, Reserve(h, r)
    PROVE  Books(h)'
  <1> DEFINE x == r.on
  <1>1. PICK k \in 0..MaxFaults :
          /\ Issue(x, k + 1) /\ RecordHandle(h, r, issued[x] + k + 1)
          /\ lost' = lost \cup ({x} \X Fresh(x, k))
    BY DEF Reserve
  <1> DEFINE id == issued[x] + k + 1
             s == Step("cancelHandle", x, id)
  <1>2. k \in Nat /\ k + 1 \in Nat /\ k + 1 > 0 /\ x \in Resources /\ issued[x] \in Nat
    BY RowOn, ConstantsAssumption DEF TypeOK, VendorOK
  <1>3. id \in Ids /\ Fresh(x, k + 1) \subseteq Fresh(x, k) \cup {id}
    <2> HIDE DEF x
    <2>1. issued[x] + (k + 1) \in Ids
      BY <1>1, <1>2, IssueOK DEF TypeOK
    <2> QED
      BY <1>2, <2>1 DEF Fresh, x
  <1>4. live' = [live EXCEPT ![x] = @ \cup Fresh(x, k + 1)]
    BY <1>1 DEF Issue
  <1>5. \A y \in Resources : \A i \in live'[y] :
          i \in live[y] \/ <<y, i>> \in lost' \/ (y = x /\ i = id)
    <2> HIDE DEF id, x
    <2> QED
      BY <1>1, <1>3, <1>4 DEF TypeOK, VendorOK
  <1>6. RecordHandle(h, r, id) /\ job[h].pc = "reserve" /\ ~At(h, "undo") /\ r \in job[h].todo
        /\ UNCHANGED <<status, mapping>> /\ lost \subseteq lost'
    BY <1>1 DEF Reserve, At, db
  <1> HIDE DEF id
  <1>7. s.kind = "cancelHandle" /\ s.on = x /\ s.id = id
    BY DEF Step
  <1>8. /\ Recorded(job[h], job'[h], s) /\ job'[h].seen = job[h].seen /\ job'[h].pc = "reserve"
        /\ job'[h].rows = job[h].rows /\ job'[h].todo = job[h].todo \ Slot(h, r)
        /\ job'[h].handles = Handled(h, r, id)
    BY <1>3, <1>6, RecordHandleRecord DEF TypeOK
  <1> HIDE DEF s
  <1>9. job'[h].op = job[h].op
        /\ \A y, i : Held(job'[h], y, i) <=> Held(job[h], y, i) \/ (y = x /\ i = id)
    BY <1>7, <1>8 DEF Recorded
  <1>10. job[h].op = "Confirm" /\ Loaded(h)' = Loaded(h)
    BY <1>6, <1>8 DEF Sound, PlacesOf, Loaded
  <1>11. Handed(h)'
    <2> DEFINE new == Handled(h, r, id)
    <2>1. job[h].todo \subseteq Loaded(h) /\ Loaded(h) \subseteq Rows /\ Handed(h)
          /\ job[h].todo \subseteq Rows
      BY <1>6, <1>10 DEF Books, Handed, Holding, Loaded
    <2>2. /\ new[r] = id
          /\ \A q \in Rows : new[q] # id => new[q] = job[h].handles[q]
          /\ \A q \in Rows : new[q] # job[h].handles[q] =>
                new[q] = id /\ q.on = r.on /\ (Traceable(r.on) => SameSlot(q, r))
      BY <1>6, <2>1, HandledFacts
    <2> HIDE DEF new
    <2>3. \A q \in Rows : SameSlot(q, r) /\ Traceable(x) => job[h].handles[q] = NoId
      BY <1>6, <1>10, <2>1 DEF Handed, Holding
    <2>4. ASSUME NEW y \in Resources, NEW i \in Ids, Traceable(y), Held(job'[h], y, i)
          PROVE  \E q \in RowsOf(y) : job[h].rows[q] # NoRow /\ new[q] = i
      <3>1. CASE y = x /\ i = id
        BY <1>6, <2>1, <2>2, <3>1 DEF RowsOf, Loaded
      <3>2. CASE Held(job[h], y, i)
        <4>1. PICK q \in RowsOf(y) : job[h].rows[q] # NoRow /\ job[h].handles[q] = i
          BY <1>6, <1>10, <2>1, <2>4, <3>2 DEF Handed, Holding
        <4>2. q \in Rows /\ q.on = y /\ i # NoId
          BY <4>1, <2>4 DEF RowsOf, Ids, NoId
        <4>3. new[q] = job[h].handles[q]
          BY <2>2, <2>3, <2>4, <4>1, <4>2
        <4> QED
          BY <4>1, <4>3
      <3> QED
        BY <1>9, <2>4, <3>1, <3>2
    <2>5. ASSUME NEW q \in Rows, new[q] # NoId
          PROVE  new[q] \in Ids /\ Held(job'[h], q.on, new[q])
      <3>1. CASE new[q] = job[h].handles[q]
        BY <1>6, <1>9, <1>10, <2>1, <2>5, <3>1 DEF Handed, Holding
      <3>2. CASE new[q] # job[h].handles[q]
        BY <1>3, <1>9, <2>2, <3>2
      <3> QED
        BY <3>1, <3>2
    <2>6. ASSUME NEW p \in job[h].todo \ Slot(h, r), NEW q \in Rows, SameSlot(q, p), Traceable(p.on)
          PROVE  new[q] = NoId
      <3>1. job[h].handles[q] = NoId /\ q.on = p.on
        BY <1>6, <1>10, <2>1, <2>6, SlotFacts DEF Handed, Holding
      <3>2. ~SameSlot(p, r)
        BY <2>6 DEF Slot
      <3>3. ~SameSlot(q, r)
        BY <2>6, <3>2, SlotFacts
      <3> QED
        BY <2>2, <2>6, <3>1, <3>3
    <2>7. new = job'[h].handles
      BY <1>8 DEF new
    <2> QED
      BY <1>8, <1>10, <2>1, <2>4, <2>5, <2>6, <2>7 DEF Handed
  <1>12. Booked(h)'
    BY <1>5, <1>6, <1>8, <1>9, <1>10 DEF Books, Booked, Busy, Lost, InUse
  <1> QED
    BY <1>6, <1>8, <1>9, <1>10, <1>11, <1>12
    DEF Books, Mapped, Pending, ReadOnce, Sweeping, Swept, Gone, Committed,
        Busy, Lost, InUse, NoRows, Holding

LEMMA BooksSaves ==
    ASSUME TypeOK, NEW h \in Handlers, Sound(job[h]), Books(h), SaveMappings(h)
    PROVE  Books(h)'
  <1>0. JobOK
    BY DEF TypeOK
  <1>1. job[h].pc = "save" /\ Answer(h, "ok") /\ UNCHANGED <<status, live, lost>>
        /\ ~At(h, "undo")
    BY DEF SaveMappings, At, vendor, history
  <1>2. PICK theirs \in Answering(h) : mapping' = Saved(Renewed(h, theirs), NewRows(h, theirs))
    BY DEF SaveMappings
  <1>3. job[h].op = "Confirm" /\ job[h].rows = mapping
    BY <1>1 DEF Sound, PlacesOf, Books, ReadOnce, Holding
  <1>4. ASSUME NEW x \in Resources, Traceable(x), NEW id \in live[x], ~Lost(x, id)
        PROVE  InRow(mapping', x, id)
    <2>1. id \in Ids /\ id # NoId
      BY DEF TypeOK, VendorOK, Ids, NoId
    <2>2. Held(job[h], x, id)
      BY <1>1, <1>3, <1>4 DEF Books, Booked, Busy, InUse
    <2>3. PICK r \in RowsOf(x) : job[h].rows[r] # NoRow /\ job[h].handles[r] = id
      BY <1>1, <1>3, <1>4, <2>1, <2>2 DEF Books, Handed, Holding
    <2>4. r \in Loaded(h) /\ r \in Rows
      BY <2>3 DEF Loaded, RowsOf
    <2>5. r \notin theirs
      BY <1>2, <1>4, TraceableFacts DEF Answering
    <2>6. NewRows(h, theirs)[r] = id
      BY <2>3, <2>4, <2>5 DEF NewRows
    <2>7. mapping'[r] = id
      BY <1>2, <1>3, <2>1, <2>4, <2>6 DEF Saved, Renewed
    <2> QED
      BY <2>3, <2>7 DEF InRow
  <1>5. /\ job'[h].seen[Primary] = "gone" /\ job'[h].pc = "idle"
        /\ \A x, id : ~Held(job'[h], x, id)
    BY <1>0, <1>1, AnswerRecord DEF Answers
  <1>6. status[Primary] = "RESERVED" /\ Primary \in Parents
    BY <1>1, ConstantsAssumption DEF Books, Committed
  <1>7. Mapped(h)'
    BY <1>1, <1>4 DEF Mapped, Lost
  <1> QED
    BY <1>1, <1>5, <1>6, <1>7
    DEF Books, Booked, Pending, ReadOnce, Handed, Sweeping, Swept, Gone, Committed,
        Busy, Lost, AllLost, AllFreed, InUse, NoRows, Holding

LEMMA BooksConfirming ==
    ASSUME TypeOK, NEW h \in Handlers, Sound(job[h]), Books(h), Confirming(h)
    PROVE  Books(h)'
  <1>0. JobOK
    BY DEF TypeOK
  <1>1. CASE Check(h)
    <2>0. PICK rs \in Sorted(h) : job' = [job EXCEPT ![h].pc = "reserve", ![h].todo = rs]
      BY <1>1 DEF Check
    <2>1. /\ job'[h].op = job[h].op /\ job'[h].seen = job[h].seen /\ job'[h].rows = job[h].rows
          /\ job'[h].pc = "reserve" /\ job[h].pc = "check" /\ job'[h].saga = job[h].saga
          /\ job'[h].handles = job[h].handles /\ job'[h].todo = rs
          /\ UNCHANGED <<status, mapping, live, lost>>
      BY <1>0, <1>1, <2>0 DEF Check, JobOK, Jobs, At, db, vendor, history
    <2>2. \A x, id : Held(job'[h], x, id) <=> Held(job[h], x, id)
      BY <2>1 DEF Held, Standing
    <2>3. rs \subseteq Loaded(h) /\ Loaded(h)' = Loaded(h) /\ Loaded(h) \subseteq Rows
      BY <2>1 DEF Sorted, Loaded
    <2>4. job[h].op = "Confirm"
      BY <2>1 DEF Sound, PlacesOf
    <2>5. Handed(h)'
      BY <2>1, <2>2, <2>3, <2>4 DEF Books, ReadOnce, Handed, Holding
    <2> QED
      BY <2>1, <2>2, <2>5
      DEF Books, Booked, Mapped, Pending, ReadOnce, Sweeping, Swept, Gone, Committed,
          Busy, Lost, AllLost, AllFreed, InUse, NoRows, Holding
  <1>2. CASE CheckRefuses(h)
    <2>1. Rollback(h, 1) /\ UNCHANGED <<status, mapping, live, lost>> /\ job[h].pc = "check"
      BY <1>2 DEF CheckRefuses, db, vendor, history, At
    <2> QED
      BY <2>1, BooksRollback DEF InUse, At
  <1>3. ASSUME NEW r \in Rows, Reserve(h, r)
        PROVE  Books(h)'
    BY <1>3, BooksReserve
  <1>4. ASSUME NEW r \in Rows, ReserveFails(h, r)
        PROVE  Books(h)'
    <2>1. PICK k \in 0..(IF job[h].alive THEN MaxFaults ELSE 0) :
            Issue(r.on, k) /\ lost' = lost \cup ({r.on} \X Fresh(r.on, k))
      BY <1>4 DEF ReserveFails
    <2>2. \A y \in Resources : \A i \in live'[y] : i \in live[y] \/ <<y, i>> \in lost'
      BY <2>1, RowOn DEF Issue, TypeOK, VendorOK
    <2>3. Rollback(h, 1) /\ UNCHANGED <<status, mapping>> /\ job[h].pc = "reserve"
          /\ lost \subseteq lost'
      BY <1>4, <2>1 DEF ReserveFails, db, At
    <2> QED
      BY <2>2, <2>3, BooksRollback DEF InUse, At
  <1>5. CASE ReserveDone(h)
    <2>1. Goto(h, "parents") /\ ~At(h, "undo") /\ "parents" \in Places /\ job[h].pc = "reserve"
          /\ UNCHANGED <<status, mapping, live, lost>>
      BY <1>5 DEF ReserveDone, Places, db, vendor, history, At
    <2>2. /\ job'[h].op = job[h].op /\ job'[h].seen = job[h].seen /\ job'[h].rows = job[h].rows
          /\ job'[h].pc = "parents" /\ job'[h].handles = job[h].handles
          /\ \A x, id : Held(job'[h], x, id) <=> Held(job[h], x, id)
      BY <1>0, <2>1, GotoRecord DEF SameRecord
    <2>3. Handed(h)'
      BY <2>1, <2>2, HandedStands DEF Books, Holding
    <2> QED
      BY <2>1, <2>2, <2>3
      DEF Books, Booked, Mapped, Pending, ReadOnce, Sweeping, Swept, Gone, Committed,
          Busy, Lost, AllLost, AllFreed, InUse, NoRows, Holding
  <1>6. CASE SaveMappings(h)
    BY <1>6, BooksSaves
  <1>7. CASE SaveMappingsFails(h)
    <2>1. Rollback(h, 1) /\ UNCHANGED <<status, live, lost>> /\ job[h].pc = "save"
          /\ job[h].op = "Confirm"
      BY <1>7 DEF SaveMappingsFails, vendor, At, Sound, PlacesOf
    <2> QED
      BY <2>1, BooksRollback DEF InUse, At
  <1> QED
    BY <1>1, <1>2, <1>3, <1>4, <1>5, <1>6, <1>7 DEF Confirming

LEMMA BooksCancelling ==
    ASSUME TypeOK, NEW h \in Handlers, Sound(job[h]), Books(h), Cancelling(h)
    PROVE  Books(h)'
  <1>0. JobOK
    BY DEF TypeOK
  <1>1. CASE LoadResources(h) \/ Reload(h)
    BY <1>1, BooksLoads
  <1>2. CASE LoadResourcesFails(h) \/ DeleteFails(h)
    <2>1. Rollback(h, 1) /\ UNCHANGED <<status, mapping, live, lost>>
          /\ job[h].pc \in {"resources", "deleteMaps", "deleteRows"}
      BY <1>2 DEF LoadResourcesFails, DeleteFails, db, vendor, history, At
    <2> QED
      BY <2>1, BooksRollback DEF InUse, At
  <1>3. ASSUME NEW r \in Rows, CancelResource(h, r)
        PROVE  Books(h)'
    <2> DEFINE s == Step("reReserve", r.on, NoId)
    <2>1. s \in Steps /\ s.kind # "cancelHandle"
      BY RowOn DEF Step, Steps
    <2>2. RecordDone(h, s, r) /\ job[h].pc = "cancel" /\ ~At(h, "undo")
          /\ UNCHANGED <<status, mapping, lost>>
      BY <1>3 DEF CancelResource, db, history, At
    <2>3. \A y \in Resources : live'[y] = live[y] \ (IF y = r.on THEN {job[h].rows[r]} ELSE {})
      BY <1>3, RowOn DEF CancelResource, Release, TypeOK, VendorOK
    <2> HIDE DEF s
    <2>4. /\ job'[h].op = job[h].op /\ job'[h].seen = job[h].seen /\ job'[h].pc = "cancel"
          /\ job'[h].rows = job[h].rows /\ job'[h].todo = job[h].todo \ {r}
          /\ job[h].op # "Confirm"
      BY <1>0, <2>1, <2>2, RecordDoneRecord DEF Recorded, Sound, PlacesOf
    <2>5. Sweeping(h)'
      BY <2>2, <2>3, <2>4 DEF Books, Sweeping, Lost, RowsOf
    <2> QED
      BY <2>2, <2>3, <2>4, <2>5
      DEF Books, Booked, Mapped, Pending, ReadOnce, Handed, Swept, Gone, Committed,
          Busy, Lost, AllLost, AllFreed, InUse, NoRows, Holding
  <1>4. ASSUME NEW r \in Rows, CancelResourceFails(h, r)
        PROVE  Books(h)'
    <2>1. \A y \in Resources : \A i \in live'[y] : i \in live[y]
      BY <1>4, RowOn DEF CancelResourceFails, Release, vendor, TypeOK, VendorOK
    <2>2. Rollback(h, 2) /\ UNCHANGED <<status, mapping, lost>> /\ job[h].pc = "cancel"
      BY <1>4 DEF CancelResourceFails, db, history, At
    <2> QED
      BY <2>1, <2>2, BooksRollback DEF InUse, At
  <1>5. CASE CancelDone(h)
    <2> DEFINE place == IF job[h].op = "Delete" THEN "deleteMaps" ELSE "reload"
    <2>1. Goto(h, place) /\ ~At(h, "undo") /\ place \in Places /\ place # "undo"
          /\ place \in {"deleteMaps", "reload"} /\ job[h].pc = "cancel" /\ job[h].todo = {}
          /\ UNCHANGED <<status, mapping, live, lost>>
      BY <1>5 DEF CancelDone, Places, At, db, vendor, history
    <2> HIDE DEF place
    <2>2. /\ job'[h].op = job[h].op /\ job'[h].seen = job[h].seen /\ job'[h].pc = place
          /\ job[h].op # "Confirm"
      BY <1>0, <2>1, GotoRecord DEF SameRecord, Sound, PlacesOf
    <2> QED
      BY <2>1, <2>2
      DEF Books, Booked, Mapped, Pending, ReadOnce, Handed, Sweeping, Swept, Gone, Committed,
          Busy, Lost, AllLost, AllFreed, InUse, NoRows, Holding
  <1>6. CASE ReloadFails(h)
    <2>1. Answer(h, "ok") /\ UNCHANGED <<status, mapping, live, lost>> /\ job[h].pc = "reload"
          /\ job[h].op # "Confirm"
      BY <1>6 DEF ReloadFails, db, vendor, At, Sound, PlacesOf
    <2> QED
      BY <2>1, BooksAnswer DEF Answers, Busy, InUse
  <1>7. CASE ClearMappings(h)
    <2>1. Answer(h, "ok") /\ UNCHANGED <<status, live, lost>> /\ job[h].pc = "clear"
          /\ job[h].op # "Confirm" /\ AllFreed
      BY <1>7 DEF ClearMappings, vendor, history, At, Sound, PlacesOf, Books, Swept
    <2> QED
      BY <2>1, BooksAnswer DEF Answers, Busy, InUse
  <1>8. CASE ClearMappingsFails(h)
    <2>1. Rollback(h, 1) /\ UNCHANGED <<status, live, lost>> /\ job[h].pc = "clear" /\ AllFreed
      BY <1>8 DEF ClearMappingsFails, vendor, At, Books, Swept
    <2> QED
      BY <2>1, BooksRollback DEF InUse, At
  <1>9. CASE DeleteMappings(h)
    <2> DEFINE s == Step("insertMapping", NoOne, NoId)
    <2>1. s \in Steps /\ s.kind # "cancelHandle" /\ "deleteRows" \in Places
      BY DEF Step, Steps, Places
    <2>2. Record(h, s, "deleteRows") /\ ~At(h, "undo") /\ job[h].pc = "deleteMaps"
          /\ UNCHANGED <<status, live, lost>> /\ \A r \in Rows : mapping'[r] = NoRow
      BY <1>9 DEF DeleteMappings, At, vendor, history
    <2> HIDE DEF s
    <2>3. /\ job'[h].op = job[h].op /\ job'[h].seen = job[h].seen /\ job'[h].pc = "deleteRows"
          /\ job[h].op # "Confirm"
      BY <1>0, <2>1, <2>2, RecordRecord DEF Recorded, Sound, PlacesOf
    <2> QED
      BY <2>2, <2>3
      DEF Books, Booked, Mapped, Pending, ReadOnce, Handed, Sweeping, Swept, Gone, Committed,
          Busy, Lost, AllLost, AllFreed, InUse, NoRows, Holding
  <1>10. CASE DeleteRows(h)
    <2>1. Answer(h, "ok") /\ UNCHANGED <<mapping, live, lost>> /\ job[h].pc = "deleteRows"
          /\ status' = [p \in Parents |-> "gone"]
      BY <1>10 DEF DeleteRows, vendor, history, At
    <2>2. job'[h].seen[Primary] = "gone" /\ job'[h].pc = "idle" /\ Primary \in Parents
      BY <1>0, <2>1, AnswerRecord, ConstantsAssumption DEF Answers
    <2> QED
      BY <2>1, <2>2
      DEF Books, Booked, Mapped, Pending, ReadOnce, Handed, Sweeping, Swept, Gone, Committed,
          Busy, Lost, AllLost, AllFreed, InUse, NoRows, Holding
  <1> QED
    BY <1>1, <1>2, <1>3, <1>4, <1>5, <1>6, <1>7, <1>8, <1>9, <1>10 DEF Cancelling

\* A step of an undo loses nothing but what its own record named.
LEMMA BooksUndone ==
    ASSUME TypeOK, NEW h \in Handlers, Sound(job[h]), Books(h), Undoing(h), StepUndone(h),
           lost \subseteq lost',
           \A x \in Resources : \A id \in live'[x] : id \in live[x] \/ <<x, id>> \in lost',
           Current(h).kind = "cancelHandle" =>
               \/ Current(h).id \notin live'[Current(h).on]
               \/ <<Current(h).on, Current(h).id>> \in lost',
           \A r \in Rows : mapping'[r] = mapping[r] \/ mapping[r] = NoRow,
           ~NoRows',
           job[h].op = "Confirm" \/ status'[Primary] \in {status[Primary], job[h].seen[Primary]}
    PROVE  Books(h)'
  <1>1. /\ job'[h].op = job[h].op /\ job'[h].pc = "undo" /\ job'[h].seen = job[h].seen
        /\ \A x, id : Held(job[h], x, id) =>
              \/ Held(job'[h], x, id)
              \/ Current(h).kind = "cancelHandle" /\ Current(h).on = x /\ Current(h).id = id
    BY UndoneRecord DEF TypeOK
  <1>2. job[h].pc = "undo"
    BY DEF Undoing, At
  <1>3. \A x \in Resources : \A id \in live[x] : id # NoRow
    BY DEF TypeOK, VendorOK, Ids, NoRow
  <1>4. Booked(h)'
    BY <1>1, <1>2 DEF Books, Booked, Busy, InUse, Lost
  <1>5. Mapped(h)' /\ Pending(h)'
    BY <1>1, <1>2, <1>3 DEF Books, Mapped, Pending, Busy, InUse, Lost, AllLost, InRow, RowsOf
  <1> QED
    BY <1>1, <1>4, <1>5 DEF Books, ReadOnce, Handed, Sweeping, Swept, Gone, Committed, Holding

LEMMA BooksUndo ==
    ASSUME TypeOK, NEW h \in Handlers, Sound(job[h]), Books(h), Undo(h)
    PROVE  Books(h)'
  <1>0. JobOK /\ (At(h, "undo") => ~NoRows)
    BY DEF TypeOK, Books, Gone, At
  <1>1. CASE UndoReserve(h)
    <2>1. Undoing(h) /\ StepUndone(h) /\ UNCHANGED <<status, mapping, lost>> /\ ~NoRows
          /\ Release(Current(h).on, Current(h).id)
          /\ Current(h).on \in Resources
      BY <1>0, <1>1, CurrentOK DEF UndoReserve, UndoKind, Undoing, db, history
    <2>2. /\ \A x \in Resources : \A id \in live'[x] : id \in live[x]
          /\ Current(h).id \notin live'[Current(h).on]
      BY <2>1 DEF Release, TypeOK, VendorOK
    <2> QED
      BY <2>1, <2>2, BooksUndone DEF NoRows
  <1>2. CASE UndoCancel(h)
    <2>1. PICK n \in 1..(MaxFaults + 1) :
            /\ Issue(Current(h).on, n)
            /\ lost' = lost \cup ({Current(h).on} \X Fresh(Current(h).on, n))
      BY <1>2 DEF UndoCancel
    <2>2. Undoing(h) /\ StepUndone(h) /\ UNCHANGED <<status, mapping>> /\ ~NoRows
          /\ Current(h).kind # "cancelHandle"
      BY <1>0, <1>2 DEF UndoCancel, UndoKind, Undoing, db
    <2>3. \A x \in Resources : \A id \in live'[x] : id \in live[x] \/ <<x, id>> \in lost'
      BY <2>1 DEF Issue, TypeOK, VendorOK
    <2> QED
      BY <2>1, <2>2, <2>3, BooksUndone DEF NoRows
  <1>3. CASE UndoPartnerConfirm(h) \/ UndoPartnerCancel(h)
    <2>1. Undoing(h) /\ StepUndone(h) /\ UNCHANGED <<status, mapping, live, lost>> /\ ~NoRows
          /\ Current(h).kind # "cancelHandle"
      BY <1>0, <1>3 DEF UndoPartnerConfirm, UndoPartnerCancel, UndoKind, Undoing, db, vendor
    <2> QED
      BY <2>1, BooksUndone DEF NoRows
  <1>4. CASE RestoreParents(h)
    <2>1. Undoing(h) /\ StepUndone(h) /\ UNCHANGED <<mapping, live, lost>> /\ ~NoRows
          /\ Current(h).kind # "cancelHandle"
          /\ status' = IF Unseen(h) THEN status ELSE job[h].seen
      BY <1>0, <1>4 DEF RestoreParents, UndoKind, Undoing, vendor, history
    <2>2. ~NoRows'
      BY <2>1 DEF NoRows, Unseen
    <2> QED
      BY <2>1, <2>2, BooksUndone
  <1>5. CASE Unconfirm(h)
    <2>1. Undoing(h) /\ StepUndone(h) /\ UNCHANGED <<mapping, live, lost>>
          /\ Current(h).kind = "unconfirm" /\ status' = [status EXCEPT ![Primary] = "PENDING"]
      BY <1>5 DEF Unconfirm, UndoKind, vendor
    <2>2. job[h].op = "Confirm"
      <3>1. job[h].left \in 1..Len(job[h].saga)
        BY <1>0, <2>1, JobFields DEF Undoing, Sagas
      <3> QED
        BY <2>1, <3>1 DEF Sound, SagaOf, Current
    <2>3. ~NoRows'
      BY <2>1, ConstantsAssumption DEF NoRows, TypeOK, RowsOK, Snapshots
    <2> QED
      BY <2>1, <2>2, <2>3, BooksUndone
  <1>6. CASE UndoDeleteMappings(h)
    <2>1. Undoing(h) /\ StepUndone(h) /\ UNCHANGED <<status, live, lost>> /\ ~NoRows
          /\ Current(h).kind # "cancelHandle"
          /\ \A r \in Rows : mapping'[r] = mapping[r] \/ mapping[r] = NoRow
      BY <1>0, <1>6 DEF UndoDeleteMappings, UndoKind, Undoing, vendor, history, Saved
    <2> QED
      BY <2>1, BooksUndone DEF NoRows
  <1>7. CASE UndoFails(h)
    <2>1. /\ Undoing(h) /\ StepUndone(h) /\ UNCHANGED <<status, mapping, live>> /\ ~NoRows
          /\ lost \subseteq lost'
          /\ Current(h).kind = "cancelHandle" => <<Current(h).on, Current(h).id>> \in lost'
      BY <1>0, <1>7 DEF UndoFails, Undoing, db, vendor
    <2> QED
      BY <2>1, BooksUndone DEF NoRows
  <1>8. CASE UndoUnanswered(h)
    <2>1. Undoing(h) /\ StepUndone(h) /\ UNCHANGED <<status, mapping>> /\ ~NoRows
      BY <1>0, <1>8 DEF UndoUnanswered, Undoing, db
    <2>2. CASE Current(h).kind = "cancelHandle" /\ Release(Current(h).on, Current(h).id)
               /\ UNCHANGED lost
      <3>1. Current(h).on \in Resources
        BY <1>0, <2>1, <2>2, CurrentOK
      <3>2. /\ \A x \in Resources : \A id \in live'[x] : id \in live[x]
            /\ Current(h).id \notin live'[Current(h).on]
        BY <2>2, <3>1 DEF Release, TypeOK, VendorOK
      <3> QED
        BY <2>1, <2>2, <3>2, BooksUndone DEF NoRows
    <2>3. CASE Current(h).kind = "deletePartner" /\ UNCHANGED <<live, lost>>
      BY <2>1, <2>3, BooksUndone DEF NoRows
    <2>4. ASSUME NEW n \in 1..MaxFaults, Current(h).kind = "reReserve", Issue(Current(h).on, n),
                 lost' = lost \cup ({Current(h).on} \X Fresh(Current(h).on, n))
          PROVE  Books(h)'
      <3>1. \A x \in Resources : \A id \in live'[x] : id \in live[x] \/ <<x, id>> \in lost'
        BY <2>4 DEF Issue, TypeOK, VendorOK
      <3> QED
        BY <2>1, <2>4, <3>1, BooksUndone DEF NoRows
    <2> QED
      BY <1>8, <2>2, <2>3, <2>4 DEF UndoUnanswered, vendor
  <1>9. CASE PassDone(h)
    <2>1. job[h].pc = "undo" /\ job[h].left = 0 /\ UNCHANGED <<status, mapping, live, lost>>
      BY <1>9 DEF PassDone, At, db, vendor, history
    <2>2. \A x, id : ~Held(job[h], x, id)
      BY <2>1 DEF Held, Standing
    <2>3. CASE job[h].passes = 2
      <3>1. /\ job'[h].op = job[h].op /\ job'[h].seen = job[h].seen /\ job'[h].pc = "undo"
        BY <1>0, <1>9, <2>1, <2>3 DEF PassDone, JobOK, Jobs
      <3>2. Busy(h) => AllLost
        BY <2>2 DEF Books, Booked, AllLost
      <3>3. (Busy(h) <=> Busy(h)') /\ (AllLost <=> AllLost') /\ ~NoRows' /\ ~NoRows
        BY <2>1, <3>1 DEF Books, Gone, Busy, InUse, AllLost, Lost, NoRows
      <3>4. Booked(h)'
        BY <2>1, <3>2, <3>3 DEF Booked, AllLost, Lost
      <3>5. Mapped(h)' /\ Pending(h)'
        BY <2>1, <3>1, <3>3 DEF Books, Mapped, Pending, Lost
      <3> QED
        BY <3>1, <3>3, <3>4, <3>5
        DEF Books, ReadOnce, Handed, Sweeping, Swept, Gone, Committed, Holding
    <2>4. CASE job[h].passes # 2
      <3>1. Answer(h, "failed") /\ InUse(h)
        BY <1>9, <2>1, <2>4 DEF PassDone, InUse
      <3> QED
        BY <2>1, <2>2, <3>1, BooksAnswer DEF Answers
    <2> QED
      BY <2>3, <2>4
  <1> QED
    BY <1>1, <1>2, <1>3, <1>4, <1>5, <1>6, <1>7, <1>8, <1>9 DEF Undo

LEMMA BooksArrive ==
    ASSUME TypeOK, NEW h \in Handlers, Books(h), NEW o \in Operations, Arrive(h, o)
    PROVE  Books(h)'
  <1>1. job[h].pc = "idle" /\ UNCHANGED <<status, mapping, live, lost>>
    BY DEF Arrive, At, db, vendor, history
  <1>2. /\ job'[h].op = o /\ job'[h].seen[Primary] = "gone"
        /\ \A r \in Rows : job'[h].handles[r] = NoId
        /\ \A x, id : ~Held(job'[h], x, id)
        /\ \/ job'[h].pc = "idle"
           \/ Admits(o) /\ job'[h].pc \in {"maps", "partners"}
              /\ (job'[h].pc = "partners" => o # "Confirm")
    BY ArriveRecord DEF TypeOK
  <1>3. Admits(o) => ~NoRows /\ (o = "Confirm" => status[Primary] = "PENDING")
    BY ConstantsAssumption DEF Admits, NoRows, Operations
  <1> QED
    BY <1>1, <1>2, <1>3
    DEF Books, Booked, Mapped, Pending, ReadOnce, Handed, Sweeping, Swept, Gone, Committed,
        Busy, Lost, AllLost, AllFreed, InUse, NoRows, Holding

LEMMA BooksCrash ==
    ASSUME TypeOK, NEW h \in Handlers, Books(h), Crash
    PROVE  Books(h)'
  <1>1. UNCHANGED <<status, mapping, live>> /\ lost \subseteq lost' /\ Tracked(h) \subseteq lost'
    BY DEF Crash, db, vendor
  <1>2. job'[h].pc = "idle" /\ job'[h].seen[Primary] = "gone"
    BY CrashRecord DEF TypeOK
  <1>3. \A x, id : Held(job[h], x, id) => <<x, id>> \in lost'
    BY <1>1, HeldTracked DEF TypeOK
  <1> QED
    BY <1>1, <1>2, <1>3
    DEF Books, Booked, Mapped, Pending, ReadOnce, Handed, Sweeping, Swept, Gone, Committed,
        Busy, Lost, AllLost, AllFreed, InUse, NoRows, Holding

LEMMA BooksDisconnect ==
    ASSUME TypeOK, NEW h \in Handlers, Books(h), Disconnect(h)
    PROVE  Books(h)'
  <1>1. UNCHANGED <<status, mapping, live, lost>>
    BY DEF Disconnect, db, vendor, history
  <1>2. /\ job'[h].op = job[h].op /\ job'[h].seen = job[h].seen /\ job'[h].pc = job[h].pc
        /\ job'[h].rows = job[h].rows /\ job'[h].todo = job[h].todo
        /\ job'[h].handles = job[h].handles
        /\ \A x, id : Held(job'[h], x, id) <=> Held(job[h], x, id)
    BY DisconnectRecord DEF SameRecord, TypeOK
  <1>3. Handed(h)' /\ Sweeping(h)'
    BY <1>1, <1>2 DEF Books, Handed, Sweeping, Loaded, Lost
  <1> QED
    BY <1>1, <1>2, <1>3
    DEF Books, Booked, Mapped, Pending, ReadOnce, Swept, Gone, Committed,
        Busy, Lost, AllLost, AllFreed, InUse, NoRows, Holding

LEMMA BooksKept ==
    ASSUME NEW h, Handlers = {h}, TypeOK, SoundInv, Books(h), [Next]_vars
    PROVE  Books(h)'
  <1>1. h \in Handlers /\ Sound(job[h]) /\ \A g \in Handlers : g = h
    BY DEF SoundInv
  <1>2. CASE Progress(h)
    BY <1>1, <1>2, BooksShared, BooksCommit, BooksConfirming, BooksCancelling, BooksUndo DEF Progress
  <1>3. ASSUME NEW o \in Operations, Arrive(h, o)
        PROVE  Books(h)'
    BY <1>1, <1>3, BooksArrive
  <1>4. CASE Disconnect(h)
    BY <1>1, <1>4, BooksDisconnect
  <1>5. CASE Crash
    BY <1>1, <1>5, BooksCrash
  <1>6. CASE UNCHANGED vars
    BY <1>6
    DEF vars, Books, Booked, Mapped, Pending, ReadOnce, Handed, Sweeping, Swept, Gone, Committed,
        Busy, Lost, AllLost, AllFreed, InUse, NoRows, Holding, Loaded
  <1> QED
    BY <1>1, <1>2, <1>3, <1>4, <1>5, <1>6 DEF Next, Idle

LEMMA BooksInit ==
    ASSUME NEW h, Handlers = {h}, Init
    PROVE  Books(h)
  <1>1. /\ job[h].pc = "idle" /\ status[Primary] = "PENDING" /\ \A x \in Resources : live[x] = {}
        /\ Primary \in Parents
    BY ConstantsAssumption DEF Init, Unused
  <1> QED
    BY <1>1
    DEF Books, Booked, Mapped, Pending, ReadOnce, Handed, Sweeping, Swept, Gone, Committed,
        Busy, AllLost, InUse, NoRows, Holding

LEMMA BooksSafe ==
    ASSUME TypeOK, NEW h \in Handlers, Books(h)
    PROVE  NoSilentLeak
  <1>1. \A x, id : Held(job[h], x, id) => <<x, id>> \in Tracked(h)
    BY HeldTracked DEF TypeOK
  <1> QED
    BY <1>1 DEF NoSilentLeak, Books, Booked, Mapped, Busy, Lost, InRow

\* One request served at a time: what is live at the vendors is written down where the
\* operation in hand, or the next one, looks for it.
THEOREM BooksAlways ==
    ASSUME NEW CONSTANT h, Handlers = {h}
    PROVE  Spec => []Books(h)
  <1>1. Init => Books(h)
    BY BooksInit
  <1>2. TypeOK /\ SoundInv /\ Books(h) /\ [Next]_vars => Books(h)'
    BY BooksKept
  <1> QED
    BY <1>1, <1>2, TypeCorrect, RecordsSound, PTL DEF Spec

\* One request served at a time, with any rows and tags, partners and faults: whatever fails,
\* crashes or is answered twice, a vendor's reservation of a resource that can be given back
\* is in the mapping table or in the running handler's record, or was dropped at a named place.
THEOREM NoLeak ==
    ASSUME NEW CONSTANT h, Handlers = {h}
    PROVE  Spec => []NoSilentLeak
  <1>1. TypeOK /\ Books(h) => NoSilentLeak
    BY BooksSafe
  <1> QED
    BY <1>1, BooksAlways, TypeCorrect, PTL

\* One request served at a time: once its rows are gone and nobody works on it, a request
\* has no mapping row, and of a resource that can be given back it holds nothing at a vendor
\* but what was dropped at a named place.
THEOREM DeletedFree ==
    ASSUME NEW CONSTANT h, Handlers = {h}
    PROVE  Spec => []DeletedIsFree
  <1>1. Books(h) => DeletedIsFree
    BY DEF DeletedIsFree, Books, Gone, AllFreed, Lost
  <1> QED
    BY <1>1, BooksAlways, PTL

=============================================================================
