----------------------------- MODULE HoldProofs ------------------------------
(* Proofs about Hold, for every number of attempts, requests, partners and      *)
(* sections: type correctness; that the conflict check is exact against what    *)
(* was reserved before a hold arrived; and what a failed hold leaves behind,    *)
(* what a hold that was answered ok keeps, and that no partner's hold is        *)
(* forgotten silently.                                                          *)
EXTENDS Hold, TLAPS

-----------------------------------------------------------------------------
(* The overlap of windows is the sharing of a place and an hour. *)

\* What the query compares (sections, points, begin and end) is the same as having a
\* place and an hour in common.
LEMMA OverlapIsSharing ==
    ASSUME NEW r \in Requests, NEW q \in Requests
    PROVE  Occupied(r) \cap Occupied(q) # {}
              <=> \E v \in Wants[r], w \in Wants[q] : Overlaps(v, w)
  <1> DEFINE Place(w) == {w.section} \cup PointIds[w.section]
             Time(w)  == {h \in Hours : w.from <= h /\ h < w.to}
  <1>1. \A s \in {r, q} : \A w \in Wants[s] :
           /\ w.section \in Sections /\ w.from \in Hours /\ w.to \in Hours
           /\ w.from \in Int /\ w.to \in Int /\ w.from < w.to
           /\ w.section \notin Points /\ PointIds[w.section] \subseteq Points
    <2> TAKE s \in {r, q}
    <2> TAKE w \in Wants[s]
    <2>1. w \in Windows /\ w.from < w.to
      BY HoldAssumption
    <2>2. w.section \in Sections /\ w.from \in Hours /\ w.to \in Hours
      BY <2>1 DEF Windows
    <2> QED
      BY <2>1, <2>2, HoldAssumption
  <1>2. \A v \in Wants[r], w \in Wants[q] :
           Place(v) \cap Place(w) # {} <=>
              v.section = w.section \/ PointIds[v.section] \cap PointIds[w.section] # {}
    BY <1>1, HoldAssumption
  <1>3. \A v \in Wants[r], w \in Wants[q] :
           Time(v) \cap Time(w) # {} <=> v.from < w.to /\ v.to > w.from
    <2> TAKE v \in Wants[r], w \in Wants[q]
    <2>1. Time(v) \cap Time(w) # {} => v.from < w.to /\ v.to > w.from
      <3> SUFFICES ASSUME NEW h \in Time(v) \cap Time(w)
                   PROVE  v.from < w.to /\ v.to > w.from
        OBVIOUS
      <3>1. h \in Int
        BY HoldAssumption
      <3> QED
        BY <1>1, <3>1
    <2>2. ASSUME v.from < w.to, v.to > w.from
          PROVE  Time(v) \cap Time(w) # {}
      <3>1. CASE v.from <= w.from
        BY <1>1, <2>2, <3>1
      <3>2. CASE w.from <= v.from
        BY <1>1, <2>2, <3>2
      <3> QED
        BY <1>1, <3>1, <3>2
    <2> QED
      BY <2>1, <2>2
  <1>4. \A v \in Wants[r], w \in Wants[q] :
           Overlaps(v, w) <=> Place(v) \cap Place(w) # {} /\ Time(v) \cap Time(w) # {}
    BY <1>2, <1>3 DEF Overlaps
  <1>5. \A s \in {r, q} : Occupied(s) = UNION {Place(w) \X Time(w) : w \in Wants[s]}
    BY DEF Occupied
  <1> HIDE DEF Place, Time
  <1>6. ASSUME NEW v \in Wants[r], NEW w \in Wants[q], Overlaps(v, w)
        PROVE  Occupied(r) \cap Occupied(q) # {}
    <2>1. PICK p : p \in Place(v) \cap Place(w)
      BY <1>4, <1>6
    <2>2. PICK h : h \in Time(v) \cap Time(w)
      BY <1>4, <1>6
    <2>3. <<p, h>> \in Occupied(r) /\ <<p, h>> \in Occupied(q)
      BY <1>5, <2>1, <2>2
    <2> QED
      BY <2>3
  <1>7. ASSUME NEW cell \in Occupied(r) \cap Occupied(q)
        PROVE  \E v \in Wants[r], w \in Wants[q] : Overlaps(v, w)
    <2>1. PICK v \in Wants[r] : cell \in Place(v) \X Time(v)
      BY <1>5, <1>7
    <2>2. PICK w \in Wants[q] : cell \in Place(w) \X Time(w)
      BY <1>5, <1>7
    <2>3. cell[1] \in Place(v) \cap Place(w) /\ cell[2] \in Time(v) \cap Time(w)
      BY <2>1, <2>2
    <2> QED
      BY <1>4, <2>3
  <1> QED
    BY <1>6, <1>7
-----------------------------------------------------------------------------
(* The attempts' records. *)

LEMMA JobFields ==
    ASSUME JobOK, NEW a \in Attempts
    PROVE  /\ job[a] \in Jobs
           /\ job[a].pc \in Places /\ job[a].alive \in BOOLEAN
           /\ job[a].todo \in SUBSET Partners /\ job[a].saga \in Seq(Steps)
           /\ job[a].left \in Nat /\ job[a].verdict \in Answers
           /\ Len(job[a].saga) \in Nat /\ job[a].left <= Len(job[a].saga)
  BY DEF JobOK, Jobs

\* A step that puts a well-formed record in place of one attempt's.
LEMMA JobReplaced ==
    ASSUME JobOK, NEW a \in Attempts, NEW j \in Jobs, j.left <= Len(j.saga),
           job' = [job EXCEPT ![a] = j]
    PROVE  JobOK'
  BY DEF JobOK

LEMMA EndedOK ==
    ASSUME NEW v \in Answers
    PROVE  Ended(v) \in Jobs /\ Ended(v).left <= Len(Ended(v).saga)
  BY DEF Ended, Jobs, Places

LEMMA AnswerOK ==
    ASSUME JobOK, NEW a \in Attempts, NEW v \in Answers, Answer(a, v)
    PROVE  JobOK'
  BY EndedOK, JobReplaced DEF Answer

LEMMA GotoOK ==
    ASSUME JobOK, NEW a \in Attempts, NEW place \in Places, Goto(a, place)
    PROVE  JobOK'
  BY DEF Goto, JobOK, Jobs

LEMMA RollbackOK ==
    ASSUME JobOK, NEW a \in Attempts, NEW v \in Answers, Rollback(a, v)
    PROVE  JobOK'
  <1> DEFINE l == Len(job[a].saga)
             j == [job[a] EXCEPT !.pc = "undo", !.left = l, !.verdict = v]
  <1>1. job[a] \in Jobs /\ l \in Nat /\ "undo" \in Places
    BY JobFields DEF Places
  <1>2. job' = [job EXCEPT ![a] = j]
    BY DEF Rollback, JobOK
  <1>3. l <= Len(job[a].saga)
    BY <1>1
  <1> HIDE DEF l
  <1>4. j \in Jobs /\ j.left = l /\ j.saga = job[a].saga
    BY <1>1 DEF Jobs
  <1> HIDE DEF j
  <1> QED
    BY <1>2, <1>3, <1>4, JobReplaced

\* A step that appends to the undo record and changes no other number.
LEMMA RecordOK ==
    ASSUME JobOK, NEW a \in Attempts, NEW step \in Steps, NEW place \in Places,
           NEW rest \in SUBSET Partners,
           job' = [job EXCEPT ![a] = [job[a] EXCEPT !.pc = place, !.todo = rest,
                                                    !.saga = Append(job[a].saga, step)]]
    PROVE  JobOK'
  <1> DEFINE s == Append(job[a].saga, step)
             j == [job[a] EXCEPT !.pc = place, !.todo = rest, !.saga = s]
  <1>1. job[a] \in Jobs /\ s \in Seq(Steps) /\ Len(s) = Len(job[a].saga) + 1
    BY JobFields
  <1>2. job' = [job EXCEPT ![a] = j]
    OBVIOUS
  <1> HIDE DEF s
  <1>3. j \in Jobs /\ j.left = job[a].left /\ j.saga = s
    BY <1>1 DEF Jobs
  <1>4. j.left <= Len(j.saga)
    BY <1>1, <1>3, JobFields
  <1> HIDE DEF j
  <1> QED
    BY <1>2, <1>3, <1>4, JobReplaced

LEMMA StepUndoneOK ==
    ASSUME JobOK, NEW a \in Attempts, job[a].left > 0, StepUndone(a)
    PROVE  JobOK'
  <1> DEFINE l == job[a].left - 1
             j == [job[a] EXCEPT !.left = l]
  <1>1. job[a] \in Jobs /\ l \in Nat /\ l <= Len(job[a].saga)
    BY JobFields
  <1>2. job' = [job EXCEPT ![a] = j]
    BY DEF StepUndone, JobOK
  <1> HIDE DEF l
  <1>3. j \in Jobs /\ j.left = l /\ j.saga = job[a].saga
    BY <1>1 DEF Jobs
  <1> HIDE DEF j
  <1> QED
    BY <1>1, <1>2, <1>3, JobReplaced

LEMMA CurrentOK ==
    ASSUME JobOK, NEW a \in Attempts, Undoing(a)
    PROVE  Current(a) \in Steps
  BY JobFields DEF Undoing, Current

-----------------------------------------------------------------------------
(* The copies at partners and the history. *)

LEMMA CopyOK ==
    ASSUME NEW a \in Attempts, NEW e \in Partners
    PROVE  Copy(a, e) \in Partners \X Requests
  BY HoldAssumption DEF Copy

LEMMA FaultOK ==
    ASSUME faults \in 0..MaxFaults, Fault(1)
    PROVE  faults' \in 0..MaxFaults
  BY HoldAssumption DEF Fault

LEMMA GapOK ==
    ASSUME gaps \in [Attempts -> SUBSET GapNames], NEW a \in Attempts,
           NEW names \in SUBSET GapNames, Gap(a, names) \/ Note(a, names)
    PROVE  gaps' \in [Attempts -> SUBSET GapNames]
  BY DEF Gap, Note, GapNames

-----------------------------------------------------------------------------
(* Type correctness, one step per action. *)

LEMMA Unchanged ==
    ASSUME TypeOK
    PROVE  /\ UNCHANGED db => RowsOK'
           /\ UNCHANGED held => PartnerOK'
           /\ UNCHANGED job => JobOK'
           /\ UNCHANGED <<held, faults, lost, gaps, blockers>> => HistoryOK'
  BY DEF TypeOK, RowsOK, PartnerOK, JobOK, HistoryOK, db

LEMMA ArriveOK ==
    ASSUME TypeOK, NEW a \in Attempts, Arrive(a)
    PROVE  TypeOK'
  <1> USE DEF TypeOK
  <1>1. JobOK'
    <2>1. CASE Answer(a, "rejected")
      BY <2>1, AnswerOK DEF Answers
    <2>2. CASE job' = [job EXCEPT ![a].pc = "partners", ![a].todo = Needs[RequestOf[a]]]
      <3>1. Needs[RequestOf[a]] \in SUBSET Partners
        BY HoldAssumption
      <3> DEFINE rest == Needs[RequestOf[a]]
                 j == [job[a] EXCEPT !.pc = "partners", !.todo = rest]
      <3>2. job' = [job EXCEPT ![a] = j]
        BY <2>2 DEF JobOK
      <3> HIDE DEF rest
      <3>3. j \in Jobs /\ j.left = job[a].left /\ j.saga = job[a].saga
        BY <3>1, JobFields DEF Jobs, Places, rest
      <3> HIDE DEF j
      <3> QED
        BY <3>2, <3>3, JobFields, JobReplaced
    <2> QED
      BY <2>1, <2>2 DEF Arrive
  <1>2. HistoryOK'
    BY DEF Arrive, HistoryOK, history
  <1> QED
    BY <1>1, <1>2, Unchanged DEF Arrive

LEMMA AskingOK ==
    ASSUME TypeOK, NEW a \in Attempts, Asking(a)
    PROVE  TypeOK'
  <1> USE DEF TypeOK
  <1>1. ASSUME NEW e \in Partners, PartnerHolds(a, e)
        PROVE  TypeOK'
    <2>1. JobOK'
      <3> DEFINE rest == job[a].todo \ {e}
      <3>1. rest \in SUBSET Partners /\ job[a].pc \in Places /\ job[a].pc = "partners"
        BY <1>1, JobFields DEF PartnerHolds, At
      <3>2. Step("deletePartner", e) \in Steps
        BY DEF Step, Steps
      <3>3. job' = [job EXCEPT ![a] = [job[a] EXCEPT !.pc = job[a].pc, !.todo = rest,
                        !.saga = Append(job[a].saga, Step("deletePartner", e))]]
        BY <1>1 DEF PartnerHolds, JobOK, Jobs
      <3> HIDE DEF rest
      <3> QED
        BY <3>1, <3>2, <3>3, RecordOK
    <2>2. PartnerOK' /\ HistoryOK'
      BY <1>1, CopyOK DEF PartnerHolds, PartnerOK, HistoryOK
    <2> QED
      BY <1>1, <2>1, <2>2, Unchanged DEF PartnerHolds
  <1>2. ASSUME NEW e \in Partners, PartnerUnnamed(a, e)
        PROVE  TypeOK'
    <2>1. JobOK'
      <3> DEFINE rest == job[a].todo \ {e}
                 j == [job[a] EXCEPT !.todo = rest]
      <3>1. rest \in SUBSET Partners
        BY JobFields
      <3>2. job' = [job EXCEPT ![a] = j]
        BY <1>2 DEF PartnerUnnamed, JobOK
      <3> HIDE DEF rest
      <3>3. j \in Jobs /\ j.left = job[a].left /\ j.saga = job[a].saga
        BY <3>1, JobFields DEF Jobs
      <3> HIDE DEF j
      <3> QED
        BY <3>2, <3>3, JobFields, JobReplaced
    <2>2. gaps' \in [Attempts -> SUBSET GapNames] /\ faults' \in 0..MaxFaults
      BY <1>2, GapOK, FaultOK DEF PartnerUnnamed, HistoryOK, GapNames
    <2>3. PartnerOK' /\ HistoryOK'
      BY <1>2, <2>2, CopyOK DEF PartnerUnnamed, PartnerOK, HistoryOK
    <2> QED
      BY <1>2, <2>1, <2>3, Unchanged DEF PartnerUnnamed
  <1>3. ASSUME NEW e \in Partners, PartnerFails(a, e)
        PROVE  TypeOK'
    <2>1. JobOK'
      BY <1>3, RollbackOK DEF PartnerFails, Answers
    <2>2. gaps' \in [Attempts -> SUBSET GapNames] /\ faults' \in 0..MaxFaults
      BY <1>3, GapOK, FaultOK DEF PartnerFails, HistoryOK, GapNames
    <2>3. PartnerOK' /\ HistoryOK'
      BY <1>3, <2>2, CopyOK DEF PartnerFails, PartnerOK, HistoryOK
    <2> QED
      BY <1>3, <2>1, <2>3, Unchanged DEF PartnerFails
  <1>4. CASE PartnersDone(a)
    BY <1>4, GotoOK, Unchanged DEF PartnersDone, Places, history
  <1> QED
    BY <1>1, <1>2, <1>3, <1>4 DEF Asking

LEMMA CheckingOK ==
    ASSUME TypeOK, NEW a \in Attempts, Checking(a)
    PROVE  TypeOK'
  <1>1. JobOK'
    <2> USE DEF TypeOK
    <2>1. CASE SectionsFree(a)
      BY <2>1, GotoOK DEF SectionsFree, Places
    <2>2. CASE SectionsTaken(a)
      BY <2>2, RollbackOK DEF SectionsTaken, Answers
    <2>3. CASE ChecksFail(a)
      BY <2>3, RollbackOK DEF ChecksFail, Answers
    <2>4. CASE Priced(a)
      BY <2>4, GotoOK DEF Priced, Places
    <2> QED
      BY <2>1, <2>2, <2>3, <2>4 DEF Checking
  <1>2. UNCHANGED <<db, held, faults, history, blockers>>
    BY DEF Checking, SectionsFree, SectionsTaken, ChecksFail, Priced
  <1> QED
    BY <1>1, <1>2, Unchanged DEF TypeOK, history

LEMMA InsertingOK ==
    ASSUME TypeOK, NEW a \in Attempts, Inserting(a)
    PROVE  TypeOK'
  <1> USE DEF TypeOK
  <1>1. CASE InsertParent(a)
    <2>1. JobOK'
      BY <1>1, GotoOK DEF InsertParent, Places
    <2>2. RowsOK'
      BY <1>1 DEF InsertParent, RowsOK, Statuses
    <2> QED
      BY <1>1, <2>1, <2>2, Unchanged DEF InsertParent, history
  <1>2. CASE InsertChildren(a)
    <2>1. JobOK'
      <3> DEFINE rest == job[a].todo
      <3>1. rest \in SUBSET Partners /\ "mappings" \in Places
        BY JobFields DEF Places
      <3>2. Step("deleteRows", NoOne) \in Steps
        BY DEF Step, Steps
      <3>3. job' = [job EXCEPT ![a] = [job[a] EXCEPT !.pc = "mappings", !.todo = rest,
                        !.saga = Append(job[a].saga, Step("deleteRows", NoOne))]]
        BY <1>2 DEF InsertChildren, JobOK, Jobs
      <3> HIDE DEF rest
      <3> QED
        BY <3>1, <3>2, <3>3, RecordOK
    <2>2. RowsOK'
      BY <1>2 DEF InsertChildren, RowsOK
    <2> QED
      BY <1>2, <2>1, <2>2, Unchanged DEF InsertChildren, history
  <1>3. CASE InsertFails(a)
    <2>1. JobOK'
      BY <1>3, RollbackOK DEF InsertFails, Answers
    <2>2. gaps' \in [Attempts -> SUBSET GapNames] /\ faults' \in 0..MaxFaults
      BY <1>3, GapOK, FaultOK DEF InsertFails, HistoryOK, GapNames
    <2>3. HistoryOK'
      BY <1>3, <2>2 DEF InsertFails, HistoryOK
    <2> QED
      BY <1>3, <2>1, <2>3, Unchanged DEF InsertFails
  <1>4. CASE InsertMappings(a)
    <2>1. JobOK'
      BY <1>4, AnswerOK DEF InsertMappings, Answers
    <2>2. RowsOK'
      BY <1>4 DEF InsertMappings, RowsOK
    <2>3. HistoryOK'
      BY <1>4 DEF InsertMappings, HistoryOK
    <2> QED
      BY <1>4, <2>1, <2>2, <2>3, Unchanged DEF InsertMappings
  <1>5. CASE InsertMappingsFails(a)
    <2>1. JobOK'
      BY <1>5, RollbackOK DEF InsertMappingsFails, Answers
    <2>2. HistoryOK'
      BY <1>5, FaultOK DEF InsertMappingsFails, HistoryOK, history
    <2> QED
      BY <1>5, <2>1, <2>2, Unchanged DEF InsertMappingsFails
  <1> QED
    BY <1>1, <1>2, <1>3, <1>4, <1>5 DEF Inserting

LEMMA UndoOK ==
    ASSUME TypeOK, NEW a \in Attempts, Undo(a)
    PROVE  TypeOK'
  <1> USE DEF TypeOK
  <1>1. CASE UndoPartner(a)
    <2>1. JobOK'
      BY <1>1, StepUndoneOK DEF UndoPartner, UndoKind, Undoing
    <2>2. gaps' \in [Attempts -> SUBSET GapNames] /\ faults' \in 0..MaxFaults
      BY <1>1, GapOK, FaultOK DEF UndoPartner, HistoryOK, GapNames
    <2>3. PartnerOK' /\ HistoryOK'
      BY <1>1, <2>2 DEF UndoPartner, PartnerOK, HistoryOK
    <2> QED
      BY <1>1, <2>1, <2>3, Unchanged DEF UndoPartner
  <1>2. CASE UndoRows(a)
    <2>1. JobOK'
      BY <1>2, StepUndoneOK DEF UndoRows, UndoKind, Undoing
    <2>2. RowsOK'
      BY <1>2 DEF UndoRows, RowsOK, Statuses
    <2>3. gaps' \in [Attempts -> SUBSET GapNames]
      BY <1>2, GapOK DEF UndoRows, HistoryOK
    <2>4. lost' \subseteq held'
      BY <1>2 DEF UndoRows, Stray, HistoryOK
    <2>5. blockers' \in [Attempts -> SUBSET Attempts]
      BY <1>2 DEF UndoRows, HistoryOK
    <2>6. HistoryOK'
      BY <1>2, <2>3, <2>4, <2>5 DEF UndoRows, HistoryOK
    <2> QED
      BY <1>2, <2>1, <2>2, <2>6, Unchanged DEF UndoRows
  <1>3. CASE UndoFails(a)
    <2>1. JobOK'
      BY <1>3, StepUndoneOK DEF UndoFails, Undoing
    <2>2. gaps' \in [Attempts -> SUBSET GapNames] /\ faults' \in 0..MaxFaults
      BY <1>3, GapOK, FaultOK DEF UndoFails, HistoryOK, GapNames
    <2>3. HistoryOK'
      BY <1>3, <2>2 DEF UndoFails, HistoryOK
    <2> QED
      BY <1>3, <2>1, <2>3, Unchanged DEF UndoFails
  <1>4. CASE UndoDone(a)
    BY <1>4, AnswerOK, JobFields, Unchanged DEF UndoDone, history
  <1> QED
    BY <1>1, <1>2, <1>3, <1>4 DEF Undo

LEMMA DisconnectOK ==
    ASSUME TypeOK, NEW a \in Attempts, Disconnect(a)
    PROVE  TypeOK'
  <1> USE DEF TypeOK
  <1>1. JobOK'
    BY DEF Disconnect, JobOK, Jobs
  <1>2. HistoryOK'
    BY FaultOK DEF Disconnect, HistoryOK, history
  <1> QED
    BY <1>1, <1>2, Unchanged DEF Disconnect

LEMMA CrashOK ==
    ASSUME TypeOK, Crash
    PROVE  TypeOK'
  <1> USE DEF TypeOK
  <1>1. JobOK'
    <2>1. Ended("none") \in Jobs /\ Ended("none").left <= Len(Ended("none").saga)
      BY EndedOK DEF Answers
    <2> QED
      BY <2>1 DEF Crash, JobOK
  <1>2. HistoryOK'
    BY FaultOK DEF Crash, HistoryOK, GapNames
  <1> QED
    BY <1>1, <1>2, Unchanged DEF Crash

LEMMA LaterOK ==
    ASSUME TypeOK, NEW r \in Requests, Confirm(r) \/ Close(r)
    PROVE  TypeOK'
  <1> USE DEF TypeOK
  <1>1. RowsOK'
    BY DEF Confirm, Close, SetStatus, RowsOK, Statuses
  <1>2. HistoryOK'
    BY DEF Confirm, Close, HistoryOK, history
  <1>3. UNCHANGED <<held, job>>
    BY DEF Confirm, Close
  <1> QED
    BY <1>1, <1>2, <1>3, Unchanged

LEMMA TypeStep ==
    ASSUME TypeOK, [Next]_vars
    PROVE  TypeOK'
  <1>1. ASSUME NEW a \in Attempts, Arrive(a) \/ Progress(a) \/ Disconnect(a)
        PROVE  TypeOK'
    BY <1>1, ArriveOK, AskingOK, CheckingOK, InsertingOK, UndoOK, DisconnectOK DEF Progress
  <1>2. CASE UNCHANGED vars
    BY <1>2, Unchanged DEF TypeOK, vars, db
  <1> QED
    BY <1>1, <1>2, CrashOK, LaterOK DEF Next, Idle

\* Rows, partners' copies and the attempts' records keep their types, and a Rollback
\* never looks beyond the steps that were recorded (saga.go, Rollback).
THEOREM TypeCorrect == Spec => []TypeOK
  <1>1. Init => TypeOK
    <2> SUFFICES ASSUME Init
                 PROVE  TypeOK
      OBVIOUS
    <2>1. JobOK
      <3> DEFINE j == [Ended("none") EXCEPT !.pc = "new"]
      <3>1. Ended("none") \in Jobs /\ "new" \in Places
        BY EndedOK DEF Answers, Places
      <3>2. j \in Jobs /\ j.left = Ended("none").left /\ j.saga = Ended("none").saga
        BY <3>1 DEF Jobs
      <3>3. job = [a \in Attempts |-> j]
        BY DEF Init
      <3> HIDE DEF j
      <3>4. j.left <= Len(j.saga)
        BY <3>2, EndedOK DEF Answers
      <3> QED
        BY <3>2, <3>3, <3>4 DEF JobOK
    <2>2. RowsOK /\ PartnerOK /\ HistoryOK
      BY HoldAssumption DEF Init, RowsOK, PartnerOK, HistoryOK, Statuses
    <2> QED
      BY <2>1, <2>2 DEF TypeOK
  <1>2. TypeOK /\ [Next]_vars => TypeOK'
    BY TypeStep
  <1> QED
    BY <1>1, <1>2, PTL DEF Spec

-----------------------------------------------------------------------------
(* The conflict check.  An attempt that passed it has no blocker, because     *)
(* blockers are reserved for as long as they block; that needs to know that   *)
(* an attempt inserts its parent row only once.                               *)

Waiting == {"new", "partners", "check", "price", "parent"}
Passed(j) ==
    \/ j.pc \in {"price", "parent", "children", "mappings"}
    \/ j.pc = "done" /\ j.verdict = "ok"

BlockersReserved == \A a \in Attempts : \A b \in blockers[a] : Reserved(b) /\ Collide(a, b)
PassedIsFree     == \A a \in Attempts : Passed(job[a]) => blockers[a] = {}
WaitingHasNoRow  == \A a \in Attempts : job[a].pc \in Waiting => parent[a] = "none"
UndoneIsNotOk    == \A a \in Attempts : job[a].pc = "undo" => job[a].verdict # "ok"
Admission == BlockersReserved /\ PassedIsFree /\ WaitingHasNoRow /\ UndoneIsNotOk

\* Attempts that collide are those the query compares.
LEMMA ConflictingIsColliding ==
    ASSUME TypeOK, NEW a \in Attempts
    PROVE  Conflicting(RequestOf[a]) = {b \in Attempts : Reserved(b) /\ Collide(a, b)}
  <1>1. children \subseteq Attempts /\ \A b \in Attempts : RequestOf[b] \in Requests
    BY HoldAssumption DEF TypeOK, RowsOK
  <1>2. \A b \in Attempts : Collide(a, b) <=>
           \E v \in Wants[RequestOf[b]], w \in Wants[RequestOf[a]] : Overlaps(v, w)
    BY <1>1, OverlapIsSharing DEF Collide
  <1> QED
    BY <1>1, <1>2 DEF Conflicting, Reserved

\* A step that replaces the record of one attempt and touches no row.
LEMMA QuietStep ==
    ASSUME TypeOK, Admission, NEW a \in Attempts, NEW j, job' = [job EXCEPT ![a] = j],
           UNCHANGED <<parent, children, blockers>>,
           Passed(j) => Passed(job[a]) \/ blockers[a] = {},
           j.pc \in Waiting => job[a].pc \in Waiting,
           j.pc = "undo" => j.verdict # "ok"
    PROVE  Admission'
  <1>1. \A b \in Attempts : job'[b] = IF b = a THEN j ELSE job[b]
    BY DEF TypeOK, JobOK
  <1>2. BlockersReserved'
    BY DEF Admission, BlockersReserved, Reserved, Collide
  <1>3. PassedIsFree'
    BY <1>1 DEF Admission, PassedIsFree
  <1>4. WaitingHasNoRow'
    BY <1>1 DEF Admission, WaitingHasNoRow
  <1>5. UndoneIsNotOk'
    BY <1>1 DEF Admission, UndoneIsNotOk
  <1> QED
    BY <1>2, <1>3, <1>4, <1>5 DEF Admission

\* The three ways a record is replaced.
LEMMA QuietReplacements ==
    ASSUME TypeOK, Admission, NEW a \in Attempts, UNCHANGED <<parent, children, blockers>>,
           \/ \E v \in Answers \ {"ok"} : Rollback(a, v)
           \/ \E v \in Answers \ {"ok"} : Answer(a, v)
           \/ StepUndone(a) /\ At(a, "undo")
    PROVE  Admission'
  <1>1. job[a] \in Jobs
    BY JobFields DEF TypeOK
  <1>2. ASSUME NEW v \in Answers \ {"ok"}, Rollback(a, v)
        PROVE  Admission'
    <2> DEFINE j == [job[a] EXCEPT !.pc = "undo", !.left = Len(job[a].saga), !.verdict = v]
    <2>1. job' = [job EXCEPT ![a] = j]
      BY <1>2 DEF Rollback, TypeOK, JobOK
    <2>2. j.pc = "undo" /\ j.verdict # "ok"
      BY <1>1, <1>2 DEF Jobs
    <2> HIDE DEF j
    <2> QED
      BY <2>1, <2>2, QuietStep DEF Passed, Waiting
  <1>3. ASSUME NEW v \in Answers \ {"ok"}, Answer(a, v)
        PROVE  Admission'
    <2>1. Ended(v).pc = "done" /\ Ended(v).verdict # "ok"
      BY <1>3 DEF Ended
    <2> QED
      BY <1>3, <2>1, QuietStep DEF Answer, Passed, Waiting
  <1>4. CASE StepUndone(a) /\ At(a, "undo")
    <2> DEFINE j == [job[a] EXCEPT !.left = job[a].left - 1]
    <2>1. job' = [job EXCEPT ![a] = j]
      BY <1>4 DEF StepUndone, TypeOK, JobOK
    <2>2. j.pc = "undo" /\ j.verdict = job[a].verdict /\ j.verdict # "ok"
      BY <1>1, <1>4 DEF Jobs, At, Admission, UndoneIsNotOk
    <2> HIDE DEF j
    <2> QED
      BY <2>1, <2>2, QuietStep DEF Passed, Waiting
  <1> QED
    BY <1>2, <1>3, <1>4

LEMMA AskingAdmits ==
    ASSUME TypeOK, Admission, NEW a \in Attempts, Asking(a)
    PROVE  Admission'
  <1> job[a] \in Jobs
    BY JobFields DEF TypeOK
  <1>1. ASSUME NEW e \in Partners, PartnerHolds(a, e) \/ PartnerUnnamed(a, e)
        PROVE  Admission'
    <2>1. PICK j : job' = [job EXCEPT ![a] = j] /\ j.pc = "partners"
      <3>1. CASE PartnerHolds(a, e)
        <4> DEFINE j == [job[a] EXCEPT !.todo = @ \ {e},
                                       !.saga = Append(@, Step("deletePartner", e))]
        <4>1. job' = [job EXCEPT ![a] = j] /\ j.pc = "partners"
          BY <3>1 DEF PartnerHolds, TypeOK, JobOK, Jobs, At
        <4> QED
          BY <4>1
      <3>2. CASE PartnerUnnamed(a, e)
        <4> DEFINE j == [job[a] EXCEPT !.todo = @ \ {e}]
        <4>1. job' = [job EXCEPT ![a] = j] /\ j.pc = "partners"
          BY <3>2 DEF PartnerUnnamed, TypeOK, JobOK, Jobs, At
        <4> QED
          BY <4>1
      <3> QED
        BY <1>1, <3>1, <3>2
    <2>2. job[a].pc = "partners" /\ UNCHANGED <<parent, children, blockers>>
      BY <1>1 DEF PartnerHolds, PartnerUnnamed, At, db
    <2> QED
      BY <2>1, <2>2, QuietStep DEF Passed, Waiting
  <1>2. ASSUME NEW e \in Partners, PartnerFails(a, e)
        PROVE  Admission'
    BY <1>2, QuietReplacements DEF PartnerFails, db, Answers
  <1>3. CASE PartnersDone(a)
    <2> DEFINE j == [job[a] EXCEPT !.pc = "check"]
    <2>1. job' = [job EXCEPT ![a] = j] /\ j.pc = "check"
      BY <1>3 DEF PartnersDone, Goto, TypeOK, JobOK, Jobs
    <2> HIDE DEF j
    <2> QED
      BY <1>3, <2>1, QuietStep DEF PartnersDone, Passed, Waiting, At, db
  <1> QED
    BY <1>1, <1>2, <1>3 DEF Asking

LEMMA CheckingAdmits ==
    ASSUME TypeOK, Admission, NEW a \in Attempts, Checking(a)
    PROVE  Admission'
  <1> job[a] \in Jobs
    BY JobFields DEF TypeOK
  <1>1. CASE SectionsFree(a)
    <2> DEFINE j == [job[a] EXCEPT !.pc = "price"]
    <2>1. job' = [job EXCEPT ![a] = j] /\ j.pc = "price"
      BY <1>1 DEF SectionsFree, Goto, TypeOK, JobOK, Jobs
    <2>2. blockers[a] \subseteq {b \in Attempts : Reserved(b) /\ Collide(a, b)}
      BY DEF Admission, BlockersReserved, TypeOK, HistoryOK
    <2>3. blockers[a] = {}
      BY <1>1, <2>2, ConflictingIsColliding DEF SectionsFree
    <2> HIDE DEF j
    <2> QED
      BY <1>1, <2>1, <2>3, QuietStep DEF SectionsFree, Waiting, At, db
  <1>2. CASE SectionsTaken(a) \/ ChecksFail(a)
    BY <1>2, QuietReplacements DEF SectionsTaken, ChecksFail, db, Answers
  <1>3. CASE Priced(a)
    <2> DEFINE j == [job[a] EXCEPT !.pc = "parent"]
    <2>1. job' = [job EXCEPT ![a] = j] /\ j.pc = "parent"
      BY <1>3 DEF Priced, Goto, TypeOK, JobOK, Jobs
    <2> HIDE DEF j
    <2> QED
      BY <1>3, <2>1, QuietStep DEF Priced, Passed, Waiting, At, db
  <1> QED
    BY <1>1, <1>2, <1>3 DEF Checking

\* The parent row that is inserted was not a reserved one before.
LEMMA InsertingAdmits ==
    ASSUME TypeOK, Admission, NEW a \in Attempts, Inserting(a)
    PROVE  Admission'
  <1> job[a] \in Jobs
    BY JobFields DEF TypeOK
  <1>1. CASE InsertParent(a)
    <2> DEFINE j == [job[a] EXCEPT !.pc = "children"]
    <2>1. job' = [job EXCEPT ![a] = j] /\ j.pc = "children"
      BY <1>1 DEF InsertParent, Goto, TypeOK, JobOK, Jobs
    <2> HIDE DEF j
    <2>2. \A b \in Attempts : job'[b] = IF b = a THEN j ELSE job[b]
      BY <2>1 DEF TypeOK, JobOK
    <2>3. \A b \in Attempts : parent'[b] = IF b = a THEN "PENDING" ELSE parent[b]
      BY <1>1 DEF InsertParent, TypeOK, RowsOK
    <2>4. parent[a] = "none" /\ blockers[a] = {}
      BY <1>1 DEF InsertParent, At, Admission, WaitingHasNoRow, PassedIsFree, Waiting, Passed
    <2>5. BlockersReserved'
      BY <1>1, <2>3, <2>4
         DEF InsertParent, Admission, BlockersReserved, Reserved, Collide, TypeOK, HistoryOK
    <2>6. PassedIsFree'
      BY <1>1, <2>2, <2>4 DEF InsertParent, Admission, PassedIsFree
    <2>7. WaitingHasNoRow'
      BY <2>1, <2>2, <2>3 DEF Admission, WaitingHasNoRow, Waiting
    <2>8. UndoneIsNotOk'
      BY <2>1, <2>2 DEF Admission, UndoneIsNotOk
    <2> QED
      BY <2>5, <2>6, <2>7, <2>8 DEF Admission
  <1>2. CASE InsertChildren(a)
    <2> DEFINE j == [job[a] EXCEPT !.pc = "mappings",
                                   !.saga = Append(@, Step("deleteRows", NoOne))]
    <2>1. job' = [job EXCEPT ![a] = j] /\ j.pc = "mappings"
      BY <1>2 DEF InsertChildren, TypeOK, JobOK, Jobs
    <2> HIDE DEF j
    <2>2. \A b \in Attempts : job'[b] = IF b = a THEN j ELSE job[b]
      BY <2>1 DEF TypeOK, JobOK
    <2>3. blockers[a] = {}
      BY <1>2 DEF InsertChildren, At, Admission, PassedIsFree, Passed
    <2>4. BlockersReserved'
      BY <1>2 DEF InsertChildren, Admission, BlockersReserved, Reserved, Collide
    <2>5. PassedIsFree'
      BY <1>2, <2>2, <2>3 DEF InsertChildren, Admission, PassedIsFree
    <2>6. WaitingHasNoRow'
      BY <1>2, <2>1, <2>2 DEF InsertChildren, Admission, WaitingHasNoRow, Waiting
    <2>7. UndoneIsNotOk'
      BY <2>1, <2>2 DEF Admission, UndoneIsNotOk
    <2> QED
      BY <2>4, <2>5, <2>6, <2>7 DEF Admission
  <1>3. CASE InsertMappings(a)
    <2>1. Ended("ok").pc = "done"
      BY DEF Ended
    <2>2. Passed(job[a]) /\ UNCHANGED <<parent, children, blockers>>
      BY <1>3 DEF InsertMappings, At, Passed
    <2> QED
      BY <1>3, <2>1, <2>2, QuietStep DEF InsertMappings, Answer, Waiting
  <1>4. CASE InsertFails(a) \/ InsertMappingsFails(a)
    BY <1>4, QuietReplacements DEF InsertFails, InsertMappingsFails, db, Answers
  <1> QED
    BY <1>1, <1>2, <1>3, <1>4 DEF Inserting

\* The rows that are deleted stop blocking.
LEMMA UndoAdmits ==
    ASSUME TypeOK, Admission, NEW a \in Attempts, Undo(a)
    PROVE  Admission'
  <1> job[a] \in Jobs
    BY JobFields DEF TypeOK
  <1>1. CASE UndoPartner(a) \/ UndoFails(a)
    BY <1>1, QuietReplacements DEF UndoPartner, UndoFails, UndoKind, Undoing, db
  <1>2. CASE UndoRows(a)
    <2> DEFINE j == [job[a] EXCEPT !.left = job[a].left - 1]
               gone == {a} \cup Siblings(a)
    <2>1. job' = [job EXCEPT ![a] = j]
      BY <1>2 DEF UndoRows, StepUndone, TypeOK, JobOK
    <2>2. j.pc = "undo" /\ j.verdict # "ok"
      BY <1>2 DEF UndoRows, UndoKind, Undoing, At, Jobs, Admission, UndoneIsNotOk
    <2> HIDE DEF j
    <2>3. \A b \in Attempts : job'[b] = IF b = a THEN j ELSE job[b]
      BY <2>1 DEF TypeOK, JobOK
    <2>4. /\ parent' = [b \in Attempts |-> IF b \in gone THEN "none" ELSE parent[b]]
          /\ children' = children \ gone
          /\ blockers' = [b \in Attempts |-> blockers[b] \ gone]
      BY <1>2 DEF UndoRows
    <2> HIDE DEF gone
    <2>5. BlockersReserved'
      BY <2>4 DEF Admission, BlockersReserved, Reserved, Collide, TypeOK, HistoryOK
    <2>6. PassedIsFree'
      BY <2>2, <2>3, <2>4 DEF Admission, PassedIsFree, Passed
    <2>7. WaitingHasNoRow'
      BY <2>2, <2>3, <2>4 DEF Admission, WaitingHasNoRow, Waiting
    <2>8. UndoneIsNotOk'
      BY <2>2, <2>3 DEF Admission, UndoneIsNotOk
    <2> QED
      BY <2>5, <2>6, <2>7, <2>8 DEF Admission
  <1>3. CASE UndoDone(a)
    <2>1. job[a].verdict \in Answers \ {"ok"}
      BY <1>3 DEF UndoDone, At, Jobs, Admission, UndoneIsNotOk
    <2> QED
      BY <1>3, <2>1, QuietReplacements DEF UndoDone, db
  <1> QED
    BY <1>1, <1>2, <1>3 DEF Undo

\* What blocks an attempt that arrives is reserved by the choice of its blockers.
LEMMA ArriveAdmits ==
    ASSUME TypeOK, Admission, NEW a \in Attempts, Arrive(a)
    PROVE  Admission'
  <1> job[a] \in Jobs
    BY JobFields DEF TypeOK
  <1>1. PICK j : job' = [job EXCEPT ![a] = j] /\ ~Passed(j) /\ j.pc # "undo"
    <2> DEFINE j == [job[a] EXCEPT !.pc = "partners", !.todo = Needs[RequestOf[a]]]
    <2>1. j.pc = "partners" /\ ~Passed(j)
      BY DEF Jobs, Passed
    <2>2. Ended("rejected").pc = "done" /\ ~Passed(Ended("rejected"))
      BY DEF Ended, Passed
    <2>3. \/ job' = [job EXCEPT ![a] = j]
          \/ job' = [job EXCEPT ![a] = Ended("rejected")]
      BY DEF Arrive, Answer, TypeOK, JobOK
    <2> HIDE DEF j
    <2> QED
      BY <2>1, <2>2, <2>3
  <1>2. \A b \in Attempts : job'[b] = IF b = a THEN j ELSE job[b]
    BY <1>1 DEF TypeOK, JobOK
  <1>3. /\ UNCHANGED <<parent, children>> /\ parent[a] = "none"
        /\ \A c \in Attempts : blockers'[c] = IF c = a THEN
              {b \in Attempts : Reserved(b) /\ Collide(a, b)} ELSE blockers[c]
    BY DEF Arrive, db, At, Admission, WaitingHasNoRow, Waiting, TypeOK, HistoryOK
  <1>4. BlockersReserved'
    BY <1>3 DEF Admission, BlockersReserved, Reserved, Collide
  <1>5. PassedIsFree'
    BY <1>1, <1>2, <1>3 DEF Admission, PassedIsFree
  <1>6. WaitingHasNoRow'
    BY <1>2, <1>3 DEF Admission, WaitingHasNoRow
  <1>7. UndoneIsNotOk'
    BY <1>1, <1>2 DEF Admission, UndoneIsNotOk
  <1> QED
    BY <1>4, <1>5, <1>6, <1>7 DEF Admission

\* A client that leaves and a server that stops change no row.
LEMMA LeavingAdmits ==
    ASSUME TypeOK, Admission, (\E a \in Attempts : Disconnect(a)) \/ Crash
    PROVE  Admission'
  <1>1. ASSUME NEW a \in Attempts, Disconnect(a)
        PROVE  Admission'
    <2> DEFINE j == [job[a] EXCEPT !.alive = FALSE]
    <2> job[a] \in Jobs
      BY JobFields DEF TypeOK
    <2>1. job' = [job EXCEPT ![a] = j] /\ j.pc = job[a].pc /\ j.verdict = job[a].verdict
      BY <1>1 DEF Disconnect, TypeOK, JobOK, Jobs
    <2>2. (j.pc = "undo" => j.verdict # "ok") /\ (Passed(j) => Passed(job[a]))
      BY <2>1 DEF Passed, Admission, UndoneIsNotOk
    <2> HIDE DEF j
    <2>3. UNCHANGED <<parent, children, blockers>>
      BY <1>1 DEF Disconnect, db
    <2> QED
      BY <2>1, <2>2, <2>3, QuietStep
  <1>2. CASE Crash
    <2>1. \A b \in Attempts : job'[b] = IF InUse(b) THEN Ended("none") ELSE job[b]
      BY <1>2 DEF Crash
    <2>2. Ended("none").pc = "done" /\ Ended("none").verdict = "none"
      BY DEF Ended
    <2>3. UNCHANGED <<parent, children, blockers>>
      BY <1>2 DEF Crash, db
    <2>4. BlockersReserved'
      BY <2>3 DEF Admission, BlockersReserved, Reserved, Collide
    <2>5. PassedIsFree'
      BY <2>1, <2>2, <2>3 DEF Admission, PassedIsFree, Passed
    <2>6. WaitingHasNoRow'
      BY <2>1, <2>2, <2>3 DEF Admission, WaitingHasNoRow, Waiting
    <2>7. UndoneIsNotOk'
      BY <2>1, <2>2 DEF Admission, UndoneIsNotOk
    <2> QED
      BY <2>4, <2>5, <2>6, <2>7 DEF Admission
  <1> QED
    BY <1>1, <1>2

\* Confirming reserves rows, closing takes the rows it closes off the blockers.
LEMMA LaterAdmits ==
    ASSUME TypeOK, Admission, NEW r \in Requests, Confirm(r) \/ Close(r)
    PROVE  Admission'
  <1>1. UNCHANGED <<children, job>>
    BY DEF Confirm, Close
  <1>2. \A b \in Attempts : parent[b] = "none" <=> parent'[b] = "none"
    BY DEF Confirm, Close, SetStatus, RowsOf
  <1>3. WaitingHasNoRow' /\ UndoneIsNotOk'
    BY <1>1, <1>2 DEF Admission, WaitingHasNoRow, UndoneIsNotOk
  <1>4. PassedIsFree'
    BY <1>1 DEF Confirm, Close, Admission, PassedIsFree, TypeOK, HistoryOK
  <1>5. CASE Confirm(r)
    <2>1. \A b \in Attempts : parent[b] = "RESERVED" => parent'[b] = "RESERVED"
      BY <1>5 DEF Confirm, SetStatus
    <2>2. BlockersReserved'
      BY <1>1, <1>5, <2>1
         DEF Confirm, Admission, BlockersReserved, Reserved, Collide, TypeOK, HistoryOK
    <2> QED
      BY <1>3, <1>4, <2>2 DEF Admission
  <1>6. CASE Close(r)
    <2>1. \A b \in Attempts \ RowsOf(r) : parent'[b] = parent[b]
      BY <1>6 DEF Close, SetStatus
    <2>2. \A c \in Attempts : blockers'[c] = blockers[c] \ RowsOf(r)
      BY <1>6 DEF Close
    <2>3. BlockersReserved'
      BY <1>1, <2>1, <2>2
         DEF Admission, BlockersReserved, Reserved, Collide, TypeOK, HistoryOK
    <2> QED
      BY <1>3, <1>4, <2>3 DEF Admission
  <1> QED
    BY <1>5, <1>6

LEMMA AdmissionStep ==
    ASSUME TypeOK, Admission, [Next]_vars
    PROVE  Admission'
  <1>1. ASSUME NEW a \in Attempts, Arrive(a) \/ Progress(a) \/ Disconnect(a)
        PROVE  Admission'
    BY <1>1, ArriveAdmits, AskingAdmits, CheckingAdmits, InsertingAdmits, UndoAdmits,
       LeavingAdmits DEF Progress
  <1>2. CASE UNCHANGED vars
    <2> USE <1>2 DEF vars
    <2>1. BlockersReserved'
      BY DEF Admission, BlockersReserved, Reserved, Collide
    <2>2. PassedIsFree' /\ WaitingHasNoRow' /\ UndoneIsNotOk'
      BY DEF Admission, PassedIsFree, WaitingHasNoRow, UndoneIsNotOk
    <2> QED
      BY <2>1, <2>2 DEF Admission
  <1> QED
    BY <1>1, <1>2, LeavingAdmits, LaterAdmits DEF Next, Idle

\* A hold that answers ok overlooked no reservation that was confirmed before it came
\* and never closed since: the query of CheckConflictReservations looks at every one.
THEOREM AdmissionSound == Spec => []SeesConfirmed
  <1>1. Init => Admission
    <2> SUFFICES ASSUME Init
                 PROVE  Admission
      OBVIOUS
    <2>1. \A a \in Attempts : job[a].pc = "new"
      BY DEF Init, Ended
    <2> QED
      BY <2>1 DEF Init, Admission, BlockersReserved, PassedIsFree, WaitingHasNoRow,
                  UndoneIsNotOk
  <1>2. TypeOK /\ Admission /\ [Next]_vars => Admission'
    BY AdmissionStep
  <1>3. Admission => SeesConfirmed
    BY DEF Admission, PassedIsFree, Passed, SeesConfirmed, AnsweredOk, At
  <1> QED
    BY <1>1, <1>2, <1>3, TypeCorrect, PTL DEF Spec

-----------------------------------------------------------------------------
(* Nobody is turned away for nothing.  The verdict of an attempt is open      *)
(* until its check, and only the check decides on a conflict.                 *)

Early == {"new", "partners", "check"}
VerdictOpen == \A a \in Attempts : job[a].pc \in Early => job[a].verdict = "none"

\* What a step may do to the record of an attempt.
Advances(a) ==
    /\ job'[a].pc \in Early => job[a].pc \in Early /\ job'[a].verdict = job[a].verdict
    /\ At(a, "check") /\ job'[a].verdict = "conflict" =>
          SectionsTaken(a) \/ job[a].verdict = "conflict"

\* A step that ends the early part, or leaves it, decides on no conflict.
LEMMA RecordAdvances ==
    ASSUME TypeOK, NEW a \in Attempts, NEW j, job' = [job EXCEPT ![a] = j],
           j.pc \in Early => job[a].pc \in Early /\ j.verdict = job[a].verdict,
           At(a, "check") /\ j.verdict = "conflict" =>
              SectionsTaken(a) \/ job[a].verdict = "conflict"
    PROVE  \A b \in Attempts : Advances(b)
  <1>1. \A b \in Attempts : job'[b] = IF b = a THEN j ELSE job[b]
    BY DEF TypeOK, JobOK
  <1> QED
    BY <1>1 DEF Advances

LEMMA AnswerAdvances ==
    ASSUME TypeOK, NEW a \in Attempts, NEW v \in Answers, Answer(a, v),
           ~At(a, "check")
    PROVE  \A b \in Attempts : Advances(b)
  <1>1. Ended(v).pc = "done"
    BY DEF Ended
  <1> QED
    BY <1>1, RecordAdvances DEF Answer, Early

LEMMA RollbackAdvances ==
    ASSUME TypeOK, NEW a \in Attempts, NEW v \in Answers, Rollback(a, v),
           v = "conflict" => SectionsTaken(a)
    PROVE  \A b \in Attempts : Advances(b)
  <1> DEFINE j == [job[a] EXCEPT !.pc = "undo", !.left = Len(job[a].saga), !.verdict = v]
  <1>1. job[a] \in Jobs
    BY JobFields DEF TypeOK
  <1>2. job' = [job EXCEPT ![a] = j] /\ j.pc = "undo" /\ j.verdict = v
    BY <1>1 DEF Rollback, TypeOK, JobOK, Jobs
  <1> HIDE DEF j
  <1> QED
    BY <1>2, RecordAdvances DEF Early

LEMMA GotoAdvances ==
    ASSUME TypeOK, NEW a \in Attempts, NEW p \in Places, Goto(a, p),
           p \in Early => job[a].pc \in Early
    PROVE  \A b \in Attempts : Advances(b)
  <1> DEFINE j == [job[a] EXCEPT !.pc = p]
  <1>1. job[a] \in Jobs
    BY JobFields DEF TypeOK
  <1>2. job' = [job EXCEPT ![a] = j] /\ j.pc = p /\ j.verdict = job[a].verdict
    BY <1>1 DEF Goto, TypeOK, JobOK, Jobs
  <1> HIDE DEF j
  <1> QED
    BY <1>2, RecordAdvances

LEMMA AttemptAdvances ==
    ASSUME TypeOK, NEW a \in Attempts, Arrive(a) \/ Progress(a) \/ Disconnect(a)
    PROVE  \A b \in Attempts : Advances(b)
  <1> USE DEF At
  <1> job[a] \in Jobs /\ job \in [Attempts -> Jobs]
    BY JobFields DEF TypeOK, JobOK
  <1>1. CASE Arrive(a)
    <2> DEFINE j == [job[a] EXCEPT !.pc = "partners", !.todo = Needs[RequestOf[a]]]
    <2>1. j.pc = "partners" /\ j.verdict = job[a].verdict
      BY DEF Jobs
    <2>2. job' = [job EXCEPT ![a] = j] \/ Answer(a, "rejected")
      BY <1>1 DEF Arrive
    <2> HIDE DEF j
    <2> QED
      BY <1>1, <2>1, <2>2, RecordAdvances, AnswerAdvances DEF Arrive, Answers, Early
  <1>2. CASE Asking(a)
    <2>1. ASSUME NEW e \in Partners, PartnerHolds(a, e)
          PROVE  \A b \in Attempts : Advances(b)
      BY <2>1 DEF PartnerHolds, Jobs, Advances, Early
    <2>2. ASSUME NEW e \in Partners, PartnerUnnamed(a, e)
          PROVE  \A b \in Attempts : Advances(b)
      BY <2>2 DEF PartnerUnnamed, Jobs, Advances, Early
    <2>3. ASSUME NEW e \in Partners, PartnerFails(a, e)
          PROVE  \A b \in Attempts : Advances(b)
      BY <2>3, RollbackAdvances DEF PartnerFails, Answers
    <2>4. CASE PartnersDone(a)
      BY <2>4, GotoAdvances DEF PartnersDone, Places, Early
    <2> QED
      BY <1>2, <2>1, <2>2, <2>3, <2>4 DEF Asking
  <1>3. CASE Checking(a)
    <2>1. CASE SectionsFree(a) \/ Priced(a)
      BY <2>1, GotoAdvances DEF SectionsFree, Priced, Places, Early
    <2>2. CASE SectionsTaken(a)
      <3>1. Rollback(a, "conflict")
        BY <2>2 DEF SectionsTaken
      <3> QED
        BY <2>2, <3>1, RollbackAdvances DEF Answers
    <2>3. CASE ChecksFail(a)
      BY <2>3, RollbackAdvances DEF ChecksFail, Answers
    <2> QED
      BY <1>3, <2>1, <2>2, <2>3 DEF Checking
  <1>4. CASE Inserting(a)
    <2>1. CASE InsertParent(a)
      BY <2>1, GotoAdvances DEF InsertParent, Places, Early
    <2>2. CASE InsertChildren(a)
      BY <2>2 DEF InsertChildren, Jobs, Advances, Early
    <2>3. CASE InsertFails(a) \/ InsertMappingsFails(a)
      BY <2>3, RollbackAdvances DEF InsertFails, InsertMappingsFails, Answers
    <2>4. CASE InsertMappings(a)
      BY <2>4, AnswerAdvances DEF InsertMappings, Answers
    <2> QED
      BY <1>4, <2>1, <2>2, <2>3, <2>4 DEF Inserting
  <1>5. CASE Undo(a)
    <2>1. CASE StepUndone(a) /\ At(a, "undo")
      BY <2>1 DEF StepUndone, Jobs, Advances, Early
    <2>2. CASE UndoDone(a)
      BY <2>2, AnswerAdvances DEF UndoDone, Jobs
    <2> QED
      BY <1>5, <2>1, <2>2 DEF Undo, UndoPartner, UndoRows, UndoFails, UndoKind, Undoing
  <1>6. CASE Disconnect(a)
    BY <1>6 DEF Disconnect, Jobs, Advances, Early
  <1> QED
    BY <1>1, <1>2, <1>3, <1>4, <1>5, <1>6 DEF Progress

LEMMA StepAdvances ==
    ASSUME TypeOK, Next
    PROVE  \A b \in Attempts : Advances(b)
  <1>1. CASE Crash
    <2>1. \A b \in Attempts : job'[b] = IF InUse(b) THEN Ended("none") ELSE job[b]
      BY <1>1 DEF Crash
    <2> QED
      BY <2>1 DEF Ended, Advances, Early
  <1>2. ASSUME NEW r \in Requests, Confirm(r) \/ Close(r)
        PROVE  \A b \in Attempts : Advances(b)
    BY <1>2 DEF Confirm, Close, Advances
  <1>3. CASE Idle
    BY <1>3 DEF Idle, vars, Advances
  <1> QED
    BY <1>1, <1>2, <1>3, AttemptAdvances DEF Next

\* A hold is turned away for its sections only when it shares a place and an hour with
\* rows that are reserved at that moment (CheckConflictReservations, half-open windows).
THEOREM ConflictsAreReal == Spec => ConflictIsReal
  <1>1. Init => VerdictOpen
    BY DEF Init, Ended, VerdictOpen
  <1>2. TypeOK /\ VerdictOpen /\ [Next]_vars => VerdictOpen'
    BY StepAdvances DEF VerdictOpen, Advances, vars
  <1>3. TypeOK /\ VerdictOpen /\ [Next]_vars =>
           [\A a \in Attempts :
              At(a, "check") /\ job'[a].verdict = "conflict" =>
                 \E b \in Attempts : Reserved(b) /\ Collide(a, b)]_vars
    <2> SUFFICES ASSUME TypeOK, VerdictOpen, Next, NEW a \in Attempts,
                        At(a, "check"), job'[a].verdict = "conflict"
                 PROVE  \E b \in Attempts : Reserved(b) /\ Collide(a, b)
      OBVIOUS
    <2>1. SectionsTaken(a)
      BY StepAdvances DEF Advances, VerdictOpen, Early, At
    <2> QED
      BY <2>1, ConflictingIsColliding DEF SectionsTaken
  <1> QED
    BY <1>1, <1>2, <1>3, TypeCorrect, PTL DEF Spec, ConflictIsReal

-----------------------------------------------------------------------------
(* What a failed hold leaves, and what an ok keeps. *)

(* Records. *)

RowsStep(j) == \E i \in 1..Standing(j) : j.saga[i].kind = "deleteRows"
Failing == {"conflict", "refused", "failed"}

\* The record after each way of replacing it.
LEMMA RollbackRecord ==
    ASSUME JobOK, NEW a \in Attempts, NEW v \in Answers, Rollback(a, v), ~At(a, "undo")
    PROVE  /\ job'[a].pc = "undo" /\ job'[a].verdict = v
           /\ job'[a].saga = job[a].saga /\ Standing(job'[a]) = Standing(job[a])
           /\ job'[a].todo = job[a].todo
           /\ \A b \in Attempts : b # a => job'[b] = job[b]
  <1> DEFINE l == Len(job[a].saga)
             j == [job[a] EXCEPT !.pc = "undo", !.left = l, !.verdict = v]
  <1>1. job[a] \in Jobs
    BY JobFields
  <1>2. job' = [job EXCEPT ![a] = j]
    BY DEF Rollback, JobOK
  <1> HIDE DEF l
  <1>3. j.pc = "undo" /\ j.left = l /\ j.verdict = v /\ j.saga = job[a].saga
        /\ j.todo = job[a].todo
    BY <1>1 DEF Jobs
  <1> HIDE DEF j
  <1>4. job'[a] = j /\ \A b \in Attempts : b # a => job'[b] = job[b]
    BY <1>2 DEF JobOK
  <1>5. Standing(j) = Standing(job[a])
    BY <1>3 DEF Standing, At, l
  <1> QED
    BY <1>3, <1>4, <1>5

LEMMA AnswerRecord ==
    ASSUME JobOK, NEW a \in Attempts, NEW v \in Answers, Answer(a, v)
    PROVE  /\ job'[a].pc = "done" /\ job'[a].verdict = v /\ job'[a].saga = <<>>
           /\ job'[a].todo = {} /\ Standing(job'[a]) = 0
           /\ \A b \in Attempts : b # a => job'[b] = job[b]
  <1>1. job'[a] = Ended(v) /\ \A b \in Attempts : b # a => job'[b] = job[b]
    BY DEF Answer, JobOK
  <1>2. Ended(v).pc = "done" /\ Ended(v).verdict = v /\ Ended(v).saga = <<>> /\ Ended(v).todo = {}
    BY DEF Ended
  <1> QED
    BY <1>1, <1>2 DEF Standing

LEMMA GotoRecord ==
    ASSUME JobOK, NEW a \in Attempts, NEW place \in Places \ {"undo"}, Goto(a, place),
           ~At(a, "undo")
    PROVE  /\ job'[a].pc = place /\ job'[a].saga = job[a].saga
           /\ job'[a].todo = job[a].todo /\ job'[a].verdict = job[a].verdict
           /\ Standing(job'[a]) = Standing(job[a])
           /\ \A b \in Attempts : b # a => job'[b] = job[b]
  <1> DEFINE j == [job[a] EXCEPT !.pc = place]
  <1>1. job[a] \in Jobs
    BY JobFields
  <1>2. job'[a] = j /\ \A b \in Attempts : b # a => job'[b] = job[b]
    BY DEF Goto, JobOK
  <1>3. j.pc = place /\ j.saga = job[a].saga /\ j.todo = job[a].todo
        /\ j.verdict = job[a].verdict
    BY <1>1 DEF Jobs
  <1> HIDE DEF j
  <1> QED
    BY <1>2, <1>3 DEF Standing, At

LEMMA UndoneRecord ==
    ASSUME JobOK, NEW a \in Attempts, Undoing(a), StepUndone(a)
    PROVE  /\ job'[a].pc = "undo" /\ job'[a].saga = job[a].saga
           /\ job'[a].todo = job[a].todo /\ job'[a].verdict = job[a].verdict
           /\ job[a].left \in Nat /\ Standing(job[a]) = job[a].left
           /\ Standing(job'[a]) = job[a].left - 1
           /\ \A b \in Attempts : b # a => job'[b] = job[b]
  <1> DEFINE l == job[a].left - 1
             j == [job[a] EXCEPT !.left = l]
  <1>1. job[a] \in Jobs /\ job[a].pc = "undo" /\ job[a].left \in Nat
    BY JobFields DEF Undoing, At
  <1>2. job'[a] = j /\ \A b \in Attempts : b # a => job'[b] = job[b]
    BY DEF StepUndone, JobOK
  <1> HIDE DEF l
  <1>3. j.pc = "undo" /\ j.left = l /\ j.saga = job[a].saga /\ j.todo = job[a].todo
        /\ j.verdict = job[a].verdict
    BY <1>1 DEF Jobs
  <1> HIDE DEF j
  <1> QED
    BY <1>1, <1>2, <1>3 DEF Standing, l

LEMMA AppendedRecord ==
    ASSUME JobOK, NEW a \in Attempts, NEW step \in Steps, NEW place \in Places \ {"undo"},
           NEW rest \in SUBSET Partners, ~At(a, "undo"),
           job' = [job EXCEPT ![a] = [job[a] EXCEPT !.pc = place, !.todo = rest,
                                                    !.saga = Append(job[a].saga, step)]]
    PROVE  /\ job'[a].pc = place /\ job'[a].todo = rest
           /\ job'[a].saga = Append(job[a].saga, step) /\ job'[a].saga # <<>>
           /\ job[a].saga \in Seq(Steps) /\ Standing(job[a]) = Len(job[a].saga)
           /\ Standing(job'[a]) = Len(job[a].saga) + 1
           /\ \A b \in Attempts : b # a => job'[b] = job[b]
  <1> DEFINE s == Append(job[a].saga, step)
             j == [job[a] EXCEPT !.pc = place, !.todo = rest, !.saga = s]
  <1>1. job[a] \in Jobs /\ job[a].saga \in Seq(Steps) /\ s \in Seq(Steps)
        /\ Len(s) = Len(job[a].saga) + 1 /\ s # <<>>
    BY JobFields
  <1>2. job'[a] = j /\ \A b \in Attempts : b # a => job'[b] = job[b]
    BY DEF JobOK
  <1>3. s = Append(job[a].saga, step)
    OBVIOUS
  <1> HIDE DEF s
  <1>4. j.pc = place /\ j.todo = rest /\ j.saga = s
    BY <1>1 DEF Jobs
  <1> HIDE DEF j
  <1> QED
    BY <1>1, <1>2, <1>3, <1>4 DEF Standing, At

LEMMA PartnerHoldsRecord ==
    ASSUME JobOK, NEW a \in Attempts, NEW e \in Partners, PartnerHolds(a, e)
    PROVE  /\ job'[a].pc = "partners" /\ job'[a].todo = job[a].todo \ {e}
           /\ job'[a].saga = Append(job[a].saga, Step("deletePartner", e))
           /\ job'[a].saga # <<>>
           /\ job[a].saga \in Seq(Steps) /\ Standing(job[a]) = Len(job[a].saga)
           /\ Standing(job'[a]) = Len(job[a].saga) + 1
           /\ \A b \in Attempts : b # a => job'[b] = job[b]
  <1> DEFINE rest == job[a].todo \ {e}
  <1>1. rest \in SUBSET Partners /\ job[a].pc \in Places \ {"undo"} /\ job[a].pc = "partners"
        /\ ~At(a, "undo")
    BY JobFields DEF PartnerHolds, At
  <1>2. Step("deletePartner", e) \in Steps
    BY DEF Step, Steps
  <1>3. job' = [job EXCEPT ![a] = [job[a] EXCEPT !.pc = job[a].pc, !.todo = rest,
                    !.saga = Append(job[a].saga, Step("deletePartner", e))]]
    BY DEF PartnerHolds, JobOK, Jobs
  <1>4. rest = job[a].todo \ {e}
    OBVIOUS
  <1> HIDE DEF rest
  <1> QED
    BY <1>1, <1>2, <1>3, <1>4, AppendedRecord

LEMMA InsertChildrenRecord ==
    ASSUME JobOK, NEW a \in Attempts, InsertChildren(a)
    PROVE  /\ job'[a].pc = "mappings" /\ job'[a].todo = job[a].todo
           /\ job'[a].saga = Append(job[a].saga, Step("deleteRows", NoOne))
           /\ job'[a].saga # <<>>
           /\ job[a].saga \in Seq(Steps) /\ Standing(job[a]) = Len(job[a].saga)
           /\ Standing(job'[a]) = Len(job[a].saga) + 1
           /\ \A b \in Attempts : b # a => job'[b] = job[b]
  <1> DEFINE rest == job[a].todo
  <1>1. rest \in SUBSET Partners /\ "mappings" \in Places \ {"undo"} /\ ~At(a, "undo")
    BY JobFields DEF InsertChildren, At, Places
  <1>2. Step("deleteRows", NoOne) \in Steps
    BY DEF Step, Steps
  <1>3. job' = [job EXCEPT ![a] = [job[a] EXCEPT !.pc = "mappings", !.todo = rest,
                    !.saga = Append(job[a].saga, Step("deleteRows", NoOne))]]
    BY DEF InsertChildren, JobOK, Jobs
  <1>4. rest = job[a].todo
    OBVIOUS
  <1> HIDE DEF rest
  <1> QED
    BY <1>1, <1>2, <1>3, <1>4, AppendedRecord

LEMMA PartnerUnnamedRecord ==
    ASSUME JobOK, NEW a \in Attempts, NEW e \in Partners, PartnerUnnamed(a, e)
    PROVE  /\ job'[a].pc = "partners" /\ job'[a].todo = job[a].todo \ {e}
           /\ job'[a].saga = job[a].saga /\ Standing(job'[a]) = Standing(job[a])
           /\ \A b \in Attempts : b # a => job'[b] = job[b]
  <1> DEFINE rest == job[a].todo \ {e}
             j == [job[a] EXCEPT !.todo = rest]
  <1>1. job[a] \in Jobs /\ job[a].pc = "partners"
    BY JobFields DEF PartnerUnnamed, At
  <1>2. job'[a] = j /\ \A b \in Attempts : b # a => job'[b] = job[b]
    BY DEF PartnerUnnamed, JobOK
  <1> HIDE DEF rest
  <1>3. j.pc = "partners" /\ j.todo = rest /\ j.saga = job[a].saga
    BY <1>1 DEF Jobs
  <1> HIDE DEF j
  <1> QED
    BY <1>1, <1>2, <1>3 DEF Standing, rest

LEMMA ArriveRecord ==
    ASSUME JobOK, NEW a \in Attempts, Arrive(a)
    PROVE  /\ \/ job'[a].pc = "done" /\ job'[a].verdict = "rejected" /\ job'[a].saga = <<>>
                 /\ job'[a].todo = {} /\ Standing(job'[a]) = 0
              \/ job'[a].pc = "partners" /\ job'[a].todo = Needs[RequestOf[a]]
                 /\ job'[a].saga = job[a].saga /\ Standing(job'[a]) = Standing(job[a])
           /\ \A b \in Attempts : b # a => job'[b] = job[b]
  <1>1. CASE Answer(a, "rejected")
    BY <1>1, AnswerRecord DEF Answers
  <1>2. CASE job' = [job EXCEPT ![a].pc = "partners", ![a].todo = Needs[RequestOf[a]]]
    <2> DEFINE rest == Needs[RequestOf[a]]
               j == [job[a] EXCEPT !.pc = "partners", !.todo = rest]
    <2>1. job[a] \in Jobs /\ job[a].pc = "new"
      BY JobFields DEF Arrive, At
    <2>2. job'[a] = j /\ \A b \in Attempts : b # a => job'[b] = job[b]
      BY <1>2 DEF JobOK
    <2> HIDE DEF rest
    <2>3. j.pc = "partners" /\ j.todo = rest /\ j.saga = job[a].saga
      BY <2>1 DEF Jobs
    <2> HIDE DEF j
    <2> QED
      BY <2>1, <2>2, <2>3 DEF Standing, rest
  <1> QED
    BY <1>1, <1>2 DEF Arrive

LEMMA DisconnectRecord ==
    ASSUME JobOK, NEW a \in Attempts, Disconnect(a)
    PROVE  /\ job'[a].pc = job[a].pc /\ job'[a].todo = job[a].todo
           /\ job'[a].saga = job[a].saga /\ job'[a].verdict = job[a].verdict
           /\ Standing(job'[a]) = Standing(job[a])
           /\ \A b \in Attempts : b # a => job'[b] = job[b]
  <1> DEFINE j == [job[a] EXCEPT !.alive = FALSE]
  <1>1. job[a] \in Jobs
    BY JobFields
  <1>2. job'[a] = j /\ \A b \in Attempts : b # a => job'[b] = job[b]
    BY DEF Disconnect, JobOK
  <1>3. j.pc = job[a].pc /\ j.todo = job[a].todo /\ j.saga = job[a].saga
        /\ j.left = job[a].left /\ j.verdict = job[a].verdict
    BY <1>1 DEF Jobs
  <1> HIDE DEF j
  <1> QED
    BY <1>2, <1>3 DEF Standing

\* A crash empties the records in use.
LEMMA CrashRecord ==
    ASSUME JobOK, Crash, NEW b \in Attempts
    PROVE  \/ job'[b] = job[b] /\ ~InUse(b)
           \/ /\ job'[b].pc = "done" /\ job'[b].verdict = "none" /\ job'[b].saga = <<>>
              /\ job'[b].todo = {} /\ Standing(job'[b]) = 0
  <1>1. job'[b] = IF InUse(b) THEN Ended("none") ELSE job[b]
    BY DEF Crash
  <1>2. Ended("none").pc = "done" /\ Ended("none").verdict = "none"
        /\ Ended("none").saga = <<>> /\ Ended("none").todo = {} /\ Len(<<>>) = 0
    BY DEF Ended
  <1> QED
    BY <1>1, <1>2 DEF Standing

-----------------------------------------------------------------------------
(* What a failed hold leaves behind.  Until it has written children, an        *)
(* attempt has none; from then on its record has the step that deletes them,   *)
(* which is undone first, fails by name, or is still standing.                 *)

Failed(b) == At(b, "done") /\ job[b].verdict \in Failing
Cleaned(b) ==
    /\ parent[b] # "none" =>
          RowsStep(job[b]) \/ gaps[b] \cap {"orphanParent", "undoFailed"} # {}
    /\ b \in children => RowsStep(job[b]) \/ "undoFailed" \in gaps[b]
Tidy(b) ==
    /\ b \in maps => AnsweredOk(b)
    /\ job[b].pc \in Waiting => parent[b] = "none" /\ b \notin children
    /\ At(b, "children") => b \notin children
    /\ At(b, "mappings") => RowsStep(job[b])
    /\ At(b, "undo") => Cleaned(b) /\ job[b].verdict \in Failing
    /\ Failed(b) => Cleaned(b) /\ ~RowsStep(job[b])

\* What the steps of others may do to an attempt's rows and history.
Undisturbed(b) ==
    /\ job'[b] = job[b]
    /\ parent'[b] # "none" => parent[b] # "none"
    /\ b \in children' => b \in children
    /\ b \in maps' <=> b \in maps
    /\ gaps[b] \subseteq gaps'[b]

LEMMA TidyUndisturbed ==
    ASSUME NEW b \in Attempts, Tidy(b), Undisturbed(b)
    PROVE  Tidy(b)'
  <1>1. /\ job'[b] = job[b] /\ (parent'[b] # "none" => parent[b] # "none")
        /\ b \in children' => b \in children
        /\ b \in maps' <=> b \in maps
        /\ gaps[b] \subseteq gaps'[b]
    BY DEF Undisturbed
  <1>2. Cleaned(b) => Cleaned(b)'
    BY <1>1 DEF Cleaned
  <1>4. RowsStep(job'[b]) = RowsStep(job[b])
    BY <1>1 DEF RowsStep
  <1>3. At(b, "done")' = At(b, "done") /\ AnsweredOk(b)' = AnsweredOk(b)
        /\ Failed(b)' = Failed(b)
    BY <1>1 DEF At, AnsweredOk, Failed
  <1> QED
    BY <1>1, <1>2, <1>3, <1>4 DEF Tidy, At

\* The step that deletes the rows stands as long as it was recorded and not undone.
LEMMA RowsStepKept ==
    ASSUME NEW j, NEW k, k.saga = j.saga, Standing(k) = Standing(j)
    PROVE  RowsStep(k) = RowsStep(j)
  BY DEF RowsStep

\* A step of one attempt leaves the others' records and rows alone, except that an undo
\* deletes rows by request id.
LEMMA OthersUndisturbed ==
    ASSUME TypeOK, NEW a \in Attempts, Arrive(a) \/ Progress(a) \/ Disconnect(a),
           NEW b \in Attempts, b # a
    PROVE  Undisturbed(b)
  <1> USE DEF TypeOK, RowsOK, JobOK, HistoryOK
  <1>0. SUFFICES /\ job'[b] = job[b]
                 /\ parent'[b] # "none" => parent[b] # "none"
                 /\ b \in children' => b \in children
                 /\ b \in maps' <=> b \in maps
                 /\ gaps[b] \subseteq gaps'[b]
    BY DEF Undisturbed
  <1>1. CASE Arrive(a)
    BY <1>1 DEF Arrive, Answer, db, history
  <1>2. CASE Asking(a)
    BY <1>2 DEF Asking, PartnerHolds, PartnerUnnamed, PartnerFails, PartnersDone, Goto,
                Rollback, Gap, db, history
  <1>3. CASE Checking(a)
    BY <1>3 DEF Checking, SectionsFree, SectionsTaken, ChecksFail, Priced, Goto, Rollback,
                db, history
  <1>4. CASE Inserting(a)
    <2>1. CASE InsertParent(a) \/ InsertChildren(a)
      BY <2>1 DEF InsertParent, InsertChildren, Goto, db, history
    <2>2. CASE InsertFails(a)
      BY <2>2 DEF InsertFails, Rollback, Gap, db
    <2>3. CASE InsertMappings(a) \/ InsertMappingsFails(a)
      BY <2>3 DEF InsertMappings, InsertMappingsFails, Answer, Rollback, db, history
    <2> QED
      BY <1>4, <2>1, <2>2, <2>3 DEF Inserting
  <1>5. CASE Undo(a)
    <2>1. CASE UndoPartner(a)
      BY <2>1 DEF UndoPartner, StepUndone, Note, db
    <2>2. CASE UndoRows(a)
      BY <2>2 DEF UndoRows, StepUndone, Note
    <2>3. CASE UndoFails(a)
      BY <2>3 DEF UndoFails, StepUndone, Gap, db
    <2>4. CASE UndoDone(a)
      BY <2>4 DEF UndoDone, Answer, db, history
    <2> QED
      BY <1>5, <2>1, <2>2, <2>3, <2>4 DEF Undo
  <1>6. CASE Disconnect(a)
    BY <1>6 DEF Disconnect, db, history
  <1> QED
    BY <1>1, <1>2, <1>3, <1>4, <1>5, <1>6 DEF Progress

\* An attempt that begins to undo keeps the step that stands for its rows.
LEMMA RollbackTidy ==
    ASSUME TypeOK, NEW a \in Attempts, NEW v \in Failing, Rollback(a, v), ~At(a, "undo"),
           a \notin maps', Cleaned(a), UNCHANGED <<parent, children>>, gaps[a] \subseteq gaps'[a]
    PROVE  Tidy(a)'
  <1>1. v \in Answers
    BY DEF Failing, Answers
  <1>2. job'[a].pc = "undo" /\ job'[a].verdict = v /\ job'[a].saga = job[a].saga
        /\ Standing(job'[a]) = Standing(job[a])
    BY <1>1, RollbackRecord DEF TypeOK
  <1>3. RowsStep(job'[a]) = RowsStep(job[a])
    BY <1>2 DEF RowsStep
  <1>4. Cleaned(a)'
    BY <1>3 DEF Cleaned
  <1> QED
    BY <1>2, <1>4 DEF Tidy, At, Waiting, Failed, Failing

LEMMA AskingTidy ==
    ASSUME TypeOK, NEW a \in Attempts, Tidy(a), Asking(a)
    PROVE  Tidy(a)'
  <1>0. At(a, "partners") /\ parent[a] = "none" /\ a \notin children /\ a \notin maps
        /\ ~At(a, "undo")
    BY DEF Asking, PartnerHolds, PartnerUnnamed, PartnerFails, PartnersDone, Tidy, At,
           Waiting, AnsweredOk
  <1>1. ASSUME job'[a].pc \in {"partners", "check"}, UNCHANGED db
        PROVE  Tidy(a)'
    BY <1>0, <1>1 DEF Tidy, At, Waiting, Failed, db
  <1>2. ASSUME NEW e \in Partners, PartnerHolds(a, e)
        PROVE  Tidy(a)'
    <2>1. job'[a].pc = "partners" /\ UNCHANGED db
      BY <1>2, PartnerHoldsRecord DEF TypeOK, PartnerHolds
    <2> QED
      BY <1>1, <2>1
  <1>3. ASSUME NEW e \in Partners, PartnerUnnamed(a, e)
        PROVE  Tidy(a)'
    <2>1. job'[a].pc = "partners" /\ UNCHANGED db
      BY <1>3, PartnerUnnamedRecord DEF TypeOK, PartnerUnnamed
    <2> QED
      BY <1>1, <2>1
  <1>4. ASSUME NEW e \in Partners, PartnerFails(a, e)
        PROVE  Tidy(a)'
    <2>1. Rollback(a, "failed") /\ UNCHANGED db /\ gaps[a] \subseteq gaps'[a]
      BY <1>4 DEF PartnerFails, Gap, TypeOK, HistoryOK
    <2> QED
      BY <1>0, <2>1, RollbackTidy DEF Cleaned, Failing, db
  <1>5. CASE PartnersDone(a)
    <2>1. job'[a].pc = "check" /\ UNCHANGED db
      BY <1>0, <1>5, GotoRecord DEF TypeOK, PartnersDone, Places
    <2> QED
      BY <1>1, <2>1
  <1> QED
    BY <1>2, <1>3, <1>4, <1>5 DEF Asking

LEMMA CheckingTidy ==
    ASSUME TypeOK, NEW a \in Attempts, Tidy(a), Checking(a)
    PROVE  Tidy(a)'
  <1>0. (At(a, "check") \/ At(a, "price")) /\ UNCHANGED <<db, gaps>> /\ ~At(a, "undo")
    BY DEF Checking, SectionsFree, SectionsTaken, ChecksFail, Priced, At, history
  <1>1. parent[a] = "none" /\ a \notin children /\ a \notin maps
    BY <1>0 DEF Tidy, At, Waiting, AnsweredOk
  <1>2. CASE SectionsFree(a) \/ Priced(a)
    <2>1. job'[a].pc \in {"price", "parent"}
      BY <1>0, <1>2, GotoRecord DEF TypeOK, SectionsFree, Priced, Places
    <2> QED
      BY <1>0, <1>1, <2>1 DEF Tidy, At, Waiting, Failed, db
  <1>3. CASE SectionsTaken(a) \/ ChecksFail(a)
    <2>1. \E v \in Failing : Rollback(a, v)
      BY <1>3 DEF SectionsTaken, ChecksFail, Failing
    <2> QED
      BY <1>0, <1>1, <2>1, RollbackTidy DEF Cleaned, db
  <1> QED
    BY <1>2, <1>3 DEF Checking

LEMMA InsertingTidy ==
    ASSUME TypeOK, NEW a \in Attempts, Tidy(a), Inserting(a)
    PROVE  Tidy(a)'
  <1>0. ~At(a, "undo") /\ a \notin maps
    BY DEF Inserting, InsertParent, InsertChildren, InsertFails, InsertMappings,
           InsertMappingsFails, At, Tidy, AnsweredOk
  <1>1. CASE InsertParent(a)
    <2>1. job'[a].pc = "children"
      BY <1>0, <1>1, GotoRecord DEF TypeOK, InsertParent, Places
    <2>2. a \notin children' /\ a \notin maps'
      BY <1>0, <1>1 DEF InsertParent, Tidy, At, Waiting
    <2> QED
      BY <2>1, <2>2 DEF Tidy, At, Waiting, Failed
  <1>2. CASE InsertChildren(a)
    <2>1. /\ job'[a].pc = "mappings" /\ job[a].saga \in Seq(Steps)
          /\ job'[a].saga = Append(job[a].saga, Step("deleteRows", NoOne))
          /\ Standing(job'[a]) = Len(job[a].saga) + 1
      BY <1>2, InsertChildrenRecord DEF TypeOK
    <2>2. job'[a].saga[Len(job[a].saga) + 1] = Step("deleteRows", NoOne)
          /\ Len(job[a].saga) + 1 \in 1..Standing(job'[a])
      BY <2>1
    <2>3. RowsStep(job'[a])
      BY <2>2 DEF RowsStep, Step
    <2> QED
      BY <1>0, <1>2, <2>1, <2>3 DEF Tidy, At, Waiting, Failed, InsertChildren
  <1>3. CASE InsertFails(a)
    <2>1. a \notin children
      BY <1>3 DEF InsertFails, Tidy, At, Waiting
    <2>2. gaps'[a] = gaps[a] \cup (IF parent[a] = "none" THEN {} ELSE {"orphanParent"})
          /\ UNCHANGED db /\ Rollback(a, "failed")
      BY <1>3 DEF InsertFails, Gap, TypeOK, HistoryOK
    <2>3. job'[a].pc = "undo" /\ job'[a].verdict = "failed"
      BY <1>0, <2>2, RollbackRecord DEF TypeOK, Answers
    <2>4. Cleaned(a)'
      BY <2>1, <2>2 DEF Cleaned, db
    <2> QED
      BY <1>0, <2>2, <2>3, <2>4 DEF Tidy, At, Waiting, Failed, Failing, db
  <1>4. CASE InsertMappings(a)
    <2>1. job'[a].pc = "done" /\ job'[a].verdict = "ok"
      BY <1>4, AnswerRecord DEF TypeOK, InsertMappings, Answers
    <2> QED
      BY <2>1 DEF Tidy, At, Waiting, AnsweredOk, Failed, Failing
  <1>5. CASE InsertMappingsFails(a)
    <2>1. Cleaned(a)
      BY <1>5 DEF InsertMappingsFails, Tidy, At, Cleaned
    <2> QED
      BY <1>0, <1>5, <2>1, RollbackTidy DEF InsertMappingsFails, Failing, db, history
  <1> QED
    BY <1>1, <1>2, <1>3, <1>4, <1>5 DEF Inserting

LEMMA UndoTidy ==
    ASSUME TypeOK, NEW a \in Attempts, Tidy(a), Undo(a)
    PROVE  Tidy(a)'
  <1>0. At(a, "undo") /\ Cleaned(a) /\ job[a].verdict \in Failing /\ a \notin maps
    BY DEF Undo, UndoPartner, UndoRows, UndoFails, UndoDone, UndoKind, Undoing, Tidy,
           At, AnsweredOk
  <1>1. ASSUME Undoing(a), StepUndone(a), Cleaned(a)', UNCHANGED maps
        PROVE  Tidy(a)'
    <2>1. job'[a].pc = "undo" /\ job'[a].verdict = job[a].verdict
      BY <1>1, UndoneRecord DEF TypeOK
    <2> QED
      BY <1>0, <1>1, <2>1 DEF Tidy, At, Waiting, Failed
  <1>2. CASE UndoPartner(a)
    <2>1. Undoing(a) /\ StepUndone(a) /\ Current(a).kind # "deleteRows"
      BY <1>2 DEF UndoPartner, UndoKind
    <2>2. /\ Standing(job'[a]) = job[a].left - 1 /\ Standing(job[a]) = job[a].left
          /\ job[a].left \in Nat /\ job'[a].saga = job[a].saga
      BY <2>1, UndoneRecord DEF TypeOK
    <2>3. ASSUME RowsStep(job[a])
          PROVE  RowsStep(job'[a])
      <3>1. PICK i \in 1..job[a].left : job[a].saga[i].kind = "deleteRows"
        BY <2>2, <2>3 DEF RowsStep
      <3>2. i \in 1..Standing(job'[a])
        BY <2>1, <2>2, <3>1 DEF Current
      <3> QED
        BY <2>2, <3>1, <3>2 DEF RowsStep
    <2>4. UNCHANGED db /\ gaps[a] \subseteq gaps'[a]
      BY <1>2 DEF UndoPartner, Note, TypeOK, HistoryOK
    <2>5. Cleaned(a)'
      BY <1>0, <2>3, <2>4 DEF Cleaned, db
    <2> QED
      BY <1>1, <2>1, <2>4, <2>5 DEF db
  <1>3. CASE UndoRows(a)
    <2>1. Undoing(a) /\ StepUndone(a) /\ UNCHANGED maps
      BY <1>3 DEF UndoRows, UndoKind
    <2>2. parent'[a] = "none" /\ a \notin children'
      BY <1>3 DEF UndoRows
    <2> QED
      BY <1>1, <2>1, <2>2 DEF Cleaned
  <1>4. CASE UndoFails(a)
    <2>1. Undoing(a) /\ StepUndone(a) /\ UNCHANGED maps
      BY <1>4 DEF UndoFails, db
    <2>2. "undoFailed" \in gaps'[a]
      BY <1>4 DEF UndoFails, Gap, TypeOK, HistoryOK
    <2> QED
      BY <1>1, <2>1, <2>2 DEF Cleaned
  <1>5. CASE UndoDone(a)
    <2>1. job'[a].pc = "done" /\ job'[a].verdict = job[a].verdict
          /\ UNCHANGED <<db, gaps>> /\ Standing(job'[a]) = 0
      BY <1>0, <1>5, AnswerRecord DEF TypeOK, UndoDone, Failing, Answers, history
    <2>4. ~RowsStep(job'[a])
      BY <2>1 DEF RowsStep
    <2>2. ~RowsStep(job[a])
      BY <1>5 DEF UndoDone, RowsStep, Standing, At
    <2>3. Cleaned(a)'
      BY <1>0, <2>1, <2>2 DEF Cleaned, db
    <2> QED
      BY <1>0, <2>1, <2>3, <2>4 DEF Tidy, At, Waiting, Failed, db
  <1> QED
    BY <1>2, <1>3, <1>4, <1>5 DEF Undo

LEMMA LeavingTidy ==
    ASSUME TypeOK, NEW a \in Attempts, Tidy(a), Arrive(a) \/ Disconnect(a) \/ Crash
    PROVE  Tidy(a)'
  <1>1. CASE Arrive(a)
    <2>1. UNCHANGED db /\ parent[a] = "none" /\ a \notin children /\ a \notin maps
      BY <1>1 DEF Arrive, At, Tidy, Waiting, AnsweredOk
    <2>2. \/ job'[a].pc = "done" /\ job'[a].verdict = "rejected"
          \/ job'[a].pc = "partners"
      BY <1>1, ArriveRecord DEF TypeOK
    <2> QED
      BY <2>1, <2>2 DEF Tidy, At, Waiting, Failed, Failing, db
  <1>2. CASE Disconnect(a)
    <2>1. /\ job'[a].pc = job[a].pc /\ job'[a].verdict = job[a].verdict
          /\ job'[a].saga = job[a].saga /\ Standing(job'[a]) = Standing(job[a])
      BY <1>2, DisconnectRecord DEF TypeOK
    <2>2. UNCHANGED <<db, gaps>>
      BY <1>2 DEF Disconnect, history
    <2>3. RowsStep(job'[a]) = RowsStep(job[a])
      BY <2>1 DEF RowsStep
    <2>4. Cleaned(a) => Cleaned(a)'
      BY <2>2, <2>3 DEF Cleaned, db
    <2> QED
      BY <2>1, <2>2, <2>3, <2>4 DEF Tidy, At, Failed, AnsweredOk, db
  <1>3. CASE Crash
    <2>1. UNCHANGED db /\ gaps[a] \subseteq gaps'[a]
      BY <1>3 DEF Crash, TypeOK, HistoryOK
    <2>2. CASE job'[a] = job[a]
      BY <2>1, <2>2, TidyUndisturbed DEF Undisturbed, db
    <2>3. CASE ~(job'[a] = job[a])
      <3>1. job'[a].pc = "done" /\ job'[a].verdict = "none" /\ InUse(a)
        BY <1>3, <2>3, CrashRecord DEF TypeOK, Crash
      <3>2. a \notin maps
        BY <3>1 DEF InUse, Tidy, AnsweredOk, At
      <3> QED
        BY <2>1, <3>1, <3>2 DEF Tidy, At, Waiting, Failed, Failing, db
    <2> QED
      BY <2>2, <2>3
  <1> QED
    BY <1>1, <1>2, <1>3

LEMMA TidyStep ==
    ASSUME TypeOK, [Next]_vars, NEW b \in Attempts, Tidy(b)
    PROVE  Tidy(b)'
  <1>1. ASSUME NEW a \in Attempts, Arrive(a) \/ Progress(a) \/ Disconnect(a)
        PROVE  Tidy(b)'
    <2>1. CASE b = a
      BY <1>1, <2>1, AskingTidy, CheckingTidy, InsertingTidy, UndoTidy, LeavingTidy
         DEF Progress
    <2>2. CASE b # a
      BY <1>1, <2>2, OthersUndisturbed, TidyUndisturbed
    <2> QED
      BY <2>1, <2>2
  <1>2. ASSUME NEW r \in Requests, Confirm(r) \/ Close(r)
        PROVE  Tidy(b)'
    <2>2. \E s : parent'[b] = IF b \in RowsOf(r) THEN s ELSE parent[b]
      BY <1>2 DEF Confirm, Close, SetStatus
    <2>3. b \in RowsOf(r) => parent[b] # "none"
      BY DEF RowsOf
    <2>4. UNCHANGED <<children, maps, job, gaps>>
      BY <1>2 DEF Confirm, Close, history
    <2>1. Undisturbed(b)
      BY <2>2, <2>3, <2>4 DEF Undisturbed
    <2> QED
      BY <2>1, TidyUndisturbed
  <1>3. CASE UNCHANGED vars
    <2>1. Undisturbed(b)
      BY <1>3 DEF Undisturbed, vars
    <2> QED
      BY <2>1, TidyUndisturbed
  <1>4. CASE Crash
    BY <1>4, LeavingTidy
  <1> QED
    BY <1>1, <1>2, <1>3, <1>4 DEF Next, Idle

\* A hold that answers a conflict, a refusal or a failure leaves no mapping row, a parent
\* only where an insert or an undo failed, and children only where an undo failed
\* (TryHoldCompositeUasl, Rollback, and the undo step of ReserveUasl).
THEOREM FailureLeavesNothing == Spec => []FailedLeavesNothing
  <1> DEFINE AllTidy == \A a \in Attempts : Tidy(a)
  <1>1. Init => AllTidy
    <2> SUFFICES ASSUME Init, NEW a \in Attempts
                 PROVE  Tidy(a)
      OBVIOUS
    <2>1. job[a].pc = "new" /\ parent[a] = "none" /\ children = {} /\ maps = {}
      BY DEF Init, Ended
    <2> QED
      BY <2>1 DEF Tidy, At, Waiting, Failed
  <1>2. TypeOK /\ AllTidy /\ [Next]_vars => AllTidy'
    BY TidyStep
  <1>3. AllTidy => FailedLeavesNothing
    <2> SUFFICES ASSUME AllTidy, NEW a \in Attempts, Failed(a)
                 PROVE  /\ a \notin maps
                        /\ parent[a] # "none" => gaps[a] \cap {"orphanParent", "undoFailed"} # {}
                        /\ a \in children => "undoFailed" \in gaps[a]
      BY DEF FailedLeavesNothing, Failed, Failing
    <2>1. Tidy(a)
      OBVIOUS
    <2> QED
      BY <2>1 DEF Tidy, Cleaned, Failed, Failing, AnsweredOk
  <1> QED
    BY <1>1, <1>2, <1>3, TypeCorrect, PTL DEF Spec

-----------------------------------------------------------------------------
(* What a hold that was answered ok keeps.  Rows and partners' holds go only   *)
(* with an undo, and an undo of another attempt is noted at the attempts that  *)
(* have something to lose by it: a parent row, or a step in their record.      *)

Shared(b) == "sharedUndo" \in gaps[b]
Asked(b) ==
    \A e \in Needs[RequestOf[b]] \ job[b].todo :
        \/ "unnamedHold" \in gaps[b]
        \/ Copy(b, e) \in held /\ (job[b].saga # <<>> \/ AnsweredOk(b))
Forward == {"partners", "check", "price", "parent", "children", "mappings"}
Kept(b) ==
    /\ job[b].pc \in Forward \ {"partners"} \/ AnsweredOk(b) => job[b].todo = {}
    /\ job[b].pc \in {"children", "mappings"} \/ AnsweredOk(b) => parent[b] # "none"
    /\ At(b, "mappings") \/ AnsweredOk(b) => b \in children
    /\ AnsweredOk(b) => b \in maps
    /\ job[b].pc \in Forward \/ AnsweredOk(b) => Asked(b)

\* What the steps of others leave to an attempt, unless they are noted.
Spared(b) ==
    /\ job'[b] = job[b] /\ gaps[b] \subseteq gaps'[b] /\ (b \in maps => b \in maps')
    /\ \/ "sharedUndo" \in gaps'[b]
       \/ /\ parent[b] # "none" => parent'[b] # "none" /\ (b \in children => b \in children')
          /\ parent[b] # "none" \/ job[b].saga # <<>> =>
                \A e \in Partners : Copy(b, e) \in held => Copy(b, e) \in held'

LEMMA SparedKept ==
    ASSUME NEW b \in Attempts, Shared(b) \/ Kept(b), Spared(b)
    PROVE  (Shared(b) \/ Kept(b))'
  <1>1. /\ job'[b] = job[b] /\ gaps[b] \subseteq gaps'[b] /\ (b \in maps => b \in maps')
        /\ AnsweredOk(b)' = AnsweredOk(b) /\ At(b, "mappings")' = At(b, "mappings")
    BY DEF Spared, AnsweredOk, At
  <1>2. CASE Shared(b) \/ Shared(b)'
    BY <1>1, <1>2 DEF Shared
  <1>3. ASSUME Kept(b), ~Shared(b)'
        PROVE  Kept(b)'
    <2>1. /\ parent[b] # "none" => parent'[b] # "none" /\ (b \in children => b \in children')
          /\ parent[b] # "none" \/ job[b].saga # <<>> =>
                \A e \in Partners : Copy(b, e) \in held => Copy(b, e) \in held'
      BY <1>3 DEF Spared, Shared
    <2>2. ASSUME Asked(b), AnsweredOk(b) => parent[b] # "none"
          PROVE  Asked(b)'
      <3> SUFFICES ASSUME NEW e \in Needs[RequestOf[b]] \ job[b].todo,
                          "unnamedHold" \notin gaps'[b]
                   PROVE  /\ Copy(b, e) \in held'
                          /\ job[b].saga # <<>> \/ AnsweredOk(b)
        BY <1>1 DEF Asked, Copy
      <3>1. Copy(b, e) \in held /\ (job[b].saga # <<>> \/ AnsweredOk(b)) /\ e \in Partners
        BY <1>1, <2>2, HoldAssumption DEF Asked
      <3> QED
        BY <2>1, <2>2, <3>1
    <2>3. At(b, "mappings") => job[b].pc \in {"children", "mappings"}
      BY DEF At
    <2>4. job[b].pc \in Forward \/ AnsweredOk(b) => Asked(b)'
      BY <1>3, <2>2 DEF Kept
    <2>5. /\ job[b].pc \in {"children", "mappings"} \/ AnsweredOk(b) => parent'[b] # "none"
          /\ At(b, "mappings") \/ AnsweredOk(b) => b \in children'
      BY <1>3, <2>1, <2>3 DEF Kept
    <2> QED
      BY <1>1, <1>3, <2>4, <2>5 DEF Kept
  <1> QED
    BY <1>2, <1>3

\* Another attempt's undo is noted at whoever can lose by it.
LEMMA OthersSpared ==
    ASSUME TypeOK, NEW a \in Attempts, Arrive(a) \/ Progress(a) \/ Disconnect(a),
           NEW b \in Attempts, b # a
    PROVE  Spared(b)
  <1>1. job'[b] = job[b] /\ gaps[b] \subseteq gaps'[b] /\ (b \in maps => b \in maps')
    BY OthersUndisturbed DEF Undisturbed
  <1>2. CASE UndoPartner(a)
    <2>1. held' = held \ {Copy(a, Current(a).on)} /\ UNCHANGED db
      BY <1>2 DEF UndoPartner
    <2>2. b \in Robbed(a) => "sharedUndo" \in gaps'[b]
      BY <1>2 DEF UndoPartner, Note, TypeOK, HistoryOK
    <2>3. b \notin Robbed(a) =>
             b \notin Siblings(a) \/ (parent[b] = "none" /\ job[b].saga = <<>>)
      BY DEF Robbed
    <2>4. b \notin Siblings(a) =>
             \A e \in Partners : Copy(b, e) \in held => Copy(b, e) \in held'
      BY <2>1 DEF Siblings, Copy
    <2> QED
      BY <1>1, <2>1, <2>2, <2>3, <2>4 DEF Spared, db
  <1>3. CASE UndoRows(a)
    <2>1. held' = held /\ (b \notin Siblings(a) => parent'[b] = parent[b]
                                                  /\ (b \in children => b \in children'))
      BY <1>3 DEF UndoRows, TypeOK, RowsOK
    <2>2. b \in Robbed(a) => "sharedUndo" \in gaps'[b]
      BY <1>3 DEF UndoRows, Note, TypeOK, HistoryOK
    <2>3. b \notin Robbed(a) => b \notin Siblings(a) \/ parent[b] = "none"
      BY DEF Robbed
    <2> QED
      BY <1>1, <2>1, <2>2, <2>3 DEF Spared
  <1>4. CASE ~UndoPartner(a) /\ ~UndoRows(a)
    <2>1. held \subseteq held'
      BY <1>4 DEF Arrive, Progress, Asking, Checking, Inserting, Undo, Disconnect,
                  PartnerHolds, PartnerUnnamed, PartnerFails, PartnersDone, SectionsFree,
                  SectionsTaken, ChecksFail, Priced, InsertParent, InsertChildren, InsertFails,
                  InsertMappings, InsertMappingsFails, UndoFails, UndoDone
    <2>2. parent'[b] = parent[b] /\ children \subseteq children'
      BY <1>4 DEF Arrive, Progress, Asking, Checking, Inserting, Undo, Disconnect,
                  PartnerHolds, PartnerUnnamed, PartnerFails, PartnersDone, SectionsFree,
                  SectionsTaken, ChecksFail, Priced, InsertParent, InsertChildren, InsertFails,
                  InsertMappings, InsertMappingsFails, UndoFails, UndoDone, db, TypeOK, RowsOK
    <2> QED
      BY <1>1, <2>1, <2>2 DEF Spared
  <1> QED
    BY <1>2, <1>3, <1>4

\* An attempt that undoes, or was answered anything but ok, keeps nothing.
LEMMA EndedKept ==
    ASSUME NEW a \in Attempts,
           job'[a].pc = "undo" \/ (job'[a].pc = "done" /\ job'[a].verdict # "ok")
    PROVE  Kept(a)'
  BY DEF Kept, AnsweredOk, At, Forward

LEMMA RollbackKept ==
    ASSUME TypeOK, NEW a \in Attempts, NEW v \in Answers, Rollback(a, v), ~At(a, "undo")
    PROVE  Kept(a)'
  BY RollbackRecord, EndedKept DEF TypeOK

\* A step forward that asks no partner and touches no row keeps what was kept.
LEMMA ForwardKept ==
    ASSUME TypeOK, NEW a \in Attempts, Kept(a), NEW place \in {"check", "price", "parent"},
           Goto(a, place), job[a].pc \in {"partners", "check", "price"}, job[a].todo = {},
           UNCHANGED <<db, held, gaps>>
    PROVE  Kept(a)'
  <1>1. ~At(a, "undo") /\ ~AnsweredOk(a) /\ place \in Places \ {"undo"} /\ Asked(a)
    BY DEF At, AnsweredOk, Kept, Places, Forward
  <1>2. job'[a].pc = place /\ job'[a].saga = job[a].saga /\ job'[a].todo = job[a].todo
    BY <1>1, GotoRecord DEF TypeOK
  <1>3. Asked(a)'
    BY <1>1, <1>2 DEF Asked, Copy
  <1> QED
    BY <1>2, <1>3 DEF Kept, At, AnsweredOk

LEMMA AskingKept ==
    ASSUME TypeOK, NEW a \in Attempts, Kept(a), Asking(a)
    PROVE  Kept(a)'
  <1>0. At(a, "partners") /\ ~At(a, "undo") /\ ~AnsweredOk(a) /\ Asked(a)
    BY DEF Asking, PartnerHolds, PartnerUnnamed, PartnerFails, PartnersDone, Kept, At,
           AnsweredOk, Forward
  <1>1. ASSUME job'[a].pc = "partners", Asked(a)'
        PROVE  Kept(a)'
    BY <1>1 DEF Kept, At, AnsweredOk, Forward
  <1>2. ASSUME NEW e \in Partners, PartnerHolds(a, e)
        PROVE  Kept(a)'
    <2>1. /\ job'[a].pc = "partners" /\ job'[a].todo = job[a].todo \ {e}
          /\ job'[a].saga # <<>>
      BY <1>2, PartnerHoldsRecord DEF TypeOK
    <2>2. held' = held \cup {Copy(a, e)} /\ gaps' = gaps
      BY <1>2 DEF PartnerHolds
    <2>3. Asked(a)'
      BY <1>0, <2>1, <2>2 DEF Asked, Copy
    <2> QED
      BY <1>1, <2>1, <2>3
  <1>3. ASSUME NEW e \in Partners, PartnerUnnamed(a, e)
        PROVE  Kept(a)'
    <2>1. job'[a].pc = "partners" /\ "unnamedHold" \in gaps'[a]
      BY <1>3, PartnerUnnamedRecord DEF TypeOK, PartnerUnnamed, Gap, HistoryOK
    <2> QED
      BY <1>1, <2>1 DEF Asked
  <1>4. ASSUME NEW e \in Partners, PartnerFails(a, e)
        PROVE  Kept(a)'
    BY <1>0, <1>4, RollbackKept DEF PartnerFails, Answers
  <1>5. CASE PartnersDone(a)
    BY <1>0, <1>5, ForwardKept DEF PartnersDone, At, history
  <1> QED
    BY <1>2, <1>3, <1>4, <1>5 DEF Asking

LEMMA CheckingKept ==
    ASSUME TypeOK, NEW a \in Attempts, Kept(a), Checking(a)
    PROVE  Kept(a)'
  <1>0. job[a].pc \in {"check", "price"} /\ ~At(a, "undo") /\ job[a].todo = {}
        /\ UNCHANGED <<db, held, gaps>>
    BY DEF Checking, SectionsFree, SectionsTaken, ChecksFail, Priced, At, Kept, Forward, history
  <1>1. CASE SectionsFree(a) \/ Priced(a)
    BY <1>0, <1>1, ForwardKept DEF SectionsFree, Priced
  <1>2. CASE SectionsTaken(a) \/ ChecksFail(a)
    BY <1>0, <1>2, RollbackKept DEF SectionsTaken, ChecksFail, Answers
  <1> QED
    BY <1>1, <1>2 DEF Checking

LEMMA InsertingKept ==
    ASSUME TypeOK, NEW a \in Attempts, Kept(a), Inserting(a)
    PROVE  Kept(a)'
  <1>0. job[a].pc \in {"parent", "children", "mappings"} /\ ~At(a, "undo") /\ ~AnsweredOk(a)
        /\ job[a].todo = {} /\ Asked(a)
    BY DEF Inserting, InsertParent, InsertChildren, InsertFails, InsertMappings,
           InsertMappingsFails, At, AnsweredOk, Kept, Forward
  <1>1. CASE InsertParent(a)
    <2>1. job'[a].pc = "children" /\ job'[a].saga = job[a].saga /\ job'[a].todo = job[a].todo
      BY <1>0, <1>1, GotoRecord DEF TypeOK, InsertParent, Places
    <2>2. UNCHANGED <<held, gaps>> /\ parent'[a] = "PENDING"
      BY <1>1 DEF InsertParent, history, TypeOK, RowsOK
    <2>3. Asked(a)'
      BY <1>0, <2>1, <2>2 DEF Asked, Copy
    <2> QED
      BY <1>0, <2>1, <2>2, <2>3 DEF Kept, At, AnsweredOk
  <1>2. CASE InsertChildren(a)
    <2>1. job'[a].pc = "mappings" /\ job'[a].todo = job[a].todo /\ job'[a].saga # <<>>
      BY <1>2, InsertChildrenRecord DEF TypeOK
    <2>2. UNCHANGED <<parent, held, gaps>> /\ parent[a] # "none" /\ a \in children'
      BY <1>2 DEF InsertChildren, history
    <2>3. Asked(a)'
      BY <1>0, <2>1, <2>2 DEF Asked, Copy
    <2> QED
      BY <1>0, <2>1, <2>2, <2>3 DEF Kept, At, AnsweredOk
  <1>3. CASE InsertFails(a) \/ InsertMappingsFails(a)
    BY <1>0, <1>3, RollbackKept DEF InsertFails, InsertMappingsFails, Answers
  <1>4. CASE InsertMappings(a)
    <2>1. job'[a].pc = "done" /\ job'[a].verdict = "ok" /\ job'[a].todo = {}
      BY <1>4, AnswerRecord DEF TypeOK, InsertMappings, Answers
    <2>2. /\ UNCHANGED <<parent, children, held, gaps>> /\ a \in maps'
          /\ parent[a] # "none" /\ a \in children
      BY <1>4 DEF InsertMappings, Kept, At
    <2>3. Asked(a)'
      BY <1>0, <2>1, <2>2 DEF Asked, Copy, AnsweredOk, At
    <2> QED
      BY <2>1, <2>2, <2>3 DEF Kept, At, AnsweredOk
  <1> QED
    BY <1>1, <1>2, <1>3, <1>4 DEF Inserting

LEMMA LeavingKept ==
    ASSUME TypeOK, NEW a \in Attempts, Tidy(a), Shared(a) \/ Kept(a),
           Arrive(a) \/ Undo(a) \/ Disconnect(a) \/ Crash
    PROVE  (Shared(a) \/ Kept(a))'
  <1>1. CASE Arrive(a)
    <2>1. \/ job'[a].pc = "done" /\ job'[a].verdict = "rejected"
          \/ job'[a].pc = "partners" /\ job'[a].todo = Needs[RequestOf[a]]
      BY <1>1, ArriveRecord DEF TypeOK
    <2> QED
      BY <2>1 DEF Kept, Asked, At, AnsweredOk, Forward
  <1>2. CASE Undo(a)
    <2>1. CASE UndoDone(a)
      <3>1. At(a, "undo") /\ Answer(a, job[a].verdict) /\ job[a].verdict \in Answers
        BY <2>1, JobFields DEF UndoDone, TypeOK
      <3>2. job'[a].pc = "done" /\ job'[a].verdict = job[a].verdict /\ job'[a].todo = {}
        BY <3>1, AnswerRecord DEF TypeOK
      <3>3. job[a].verdict # "ok"
        BY <3>1 DEF Tidy, Failing
      <3> QED
        BY <3>2, <3>3, EndedKept
    <2>2. CASE UndoPartner(a) \/ UndoRows(a) \/ UndoFails(a)
      <3>1. Undoing(a) /\ StepUndone(a)
        BY <2>2 DEF UndoPartner, UndoRows, UndoFails, UndoKind
      <3> QED
        BY <3>1, UndoneRecord, EndedKept DEF TypeOK
    <2> QED
      BY <1>2, <2>1, <2>2 DEF Undo
  <1>3. CASE Disconnect(a)
    <2>1. /\ job'[a].pc = job[a].pc /\ job'[a].todo = job[a].todo
          /\ job'[a].saga = job[a].saga /\ job'[a].verdict = job[a].verdict
      BY <1>3, DisconnectRecord DEF TypeOK
    <2>2. UNCHANGED <<db, held, gaps>>
      BY <1>3 DEF Disconnect, history
    <2>3. AnsweredOk(a)' = AnsweredOk(a) /\ At(a, "mappings")' = At(a, "mappings")
      BY <2>1 DEF AnsweredOk, At
    <2>4. Asked(a) => Asked(a)'
      BY <2>1, <2>2, <2>3 DEF Asked, Copy
    <2> QED
      BY <2>1, <2>2, <2>3, <2>4 DEF Kept, Shared, db
  <1>4. CASE Crash
    <2>1. gaps[a] \subseteq gaps'[a] /\ UNCHANGED <<db, held>>
      BY <1>4 DEF Crash, TypeOK, HistoryOK
    <2>2. CASE job'[a] = job[a]
      <3>1. Spared(a)
        BY <2>1, <2>2 DEF Spared, db
      <3> QED
        BY <3>1, SparedKept
    <2>3. CASE job'[a] # job[a]
      BY <1>4, <2>3, CrashRecord, EndedKept DEF TypeOK
    <2> QED
      BY <2>2, <2>3
  <1> QED
    BY <1>1, <1>2, <1>3, <1>4

LEMMA KeptStep ==
    ASSUME TypeOK, [Next]_vars, NEW b \in Attempts, Tidy(b), Shared(b) \/ Kept(b)
    PROVE  (Shared(b) \/ Kept(b))'
  <1>1. ASSUME NEW a \in Attempts, Arrive(a) \/ Progress(a) \/ Disconnect(a)
        PROVE  (Shared(b) \/ Kept(b))'
    <2>1. CASE b # a
      BY <1>1, <2>1, OthersSpared, SparedKept
    <2>2. CASE b = a /\ (Arrive(a) \/ Undo(a) \/ Disconnect(a))
      BY <2>2, LeavingKept
    <2>3. CASE b = a /\ (Asking(a) \/ Checking(a) \/ Inserting(a))
      <3>1. CASE Kept(b)
        BY <2>3, <3>1, AskingKept, CheckingKept, InsertingKept
      <3>2. CASE Shared(b)
        <4>1. gaps[a] \subseteq gaps'[a]
          BY <2>3 DEF Asking, Checking, Inserting, PartnerHolds, PartnerUnnamed, PartnerFails,
                  PartnersDone, SectionsFree, SectionsTaken, ChecksFail, Priced, InsertParent,
                  InsertChildren, InsertFails, InsertMappings, InsertMappingsFails, Gap,
                  history, TypeOK, HistoryOK
        <4> QED
          BY <2>3, <3>2, <4>1 DEF Shared
      <3> QED
        BY <3>1, <3>2
    <2> QED
      BY <1>1, <2>1, <2>2, <2>3 DEF Progress
  <1>2. ASSUME NEW r \in Requests, Confirm(r) \/ Close(r)
        PROVE  (Shared(b) \/ Kept(b))'
    <2>1. parent[b] # "none" => parent'[b] # "none"
      BY <1>2 DEF Confirm, Close, SetStatus
    <2>2. UNCHANGED <<children, maps, held, job, gaps>>
      BY <1>2 DEF Confirm, Close, history
    <2>3. Spared(b)
      BY <2>1, <2>2 DEF Spared
    <2> QED
      BY <2>3, SparedKept
  <1>3. CASE UNCHANGED vars
    <2>1. Spared(b)
      BY <1>3 DEF Spared, vars
    <2> QED
      BY <2>1, SparedKept
  <1>4. CASE Crash
    BY <1>4, LeavingKept
  <1> QED
    BY <1>1, <1>2, <1>3, <1>4 DEF Next, Idle

\* A hold that answered ok has its parent, its children, its mapping rows and every
\* partner's hold, as long as no attempt on the same request id was undone after it had
\* something to lose (ReserveUasl, ReserveExternalUasl and their undo steps).
THEOREM OkIsKept == Spec => []HeldStaysHeld
  <1> DEFINE AllTidy == \A a \in Attempts : Tidy(a)
             AllKept == \A a \in Attempts : Shared(a) \/ Kept(a)
  <1>1. Init => AllTidy /\ AllKept
    <2> SUFFICES ASSUME Init, NEW a \in Attempts
                 PROVE  Tidy(a) /\ Kept(a)
      OBVIOUS
    <2>1. job[a].pc = "new" /\ parent[a] = "none" /\ children = {} /\ maps = {}
      BY DEF Init, Ended
    <2> QED
      BY <2>1 DEF Tidy, Kept, At, AnsweredOk, Waiting, Failed, Forward
  <1>2. TypeOK /\ AllTidy /\ AllKept /\ [Next]_vars => AllTidy' /\ AllKept'
    BY TidyStep, KeptStep
  <1>3. AllKept => HeldStaysHeld
    <2> SUFFICES ASSUME AllKept, NEW a \in Attempts, AnsweredOk(a), ~Shared(a)
                 PROVE  /\ parent[a] # "none" /\ a \in children /\ a \in maps
                        /\ "unnamedHold" \in gaps[a]
                              \/ \A e \in Needs[RequestOf[a]] : Copy(a, e) \in held
      BY DEF HeldStaysHeld, Shared
    <2>1. Kept(a)
      OBVIOUS
    <2> QED
      BY <2>1 DEF Kept, Asked
  <1> QED
    BY <1>1, <1>2, <1>3, TypeCorrect, PTL DEF Spec

-----------------------------------------------------------------------------
(* No partner's hold is forgotten silently.  Until the answer the undo record  *)
(* stands for it, after an answer ok the rows do, and every step that takes    *)
(* one of the two away either removes the hold or puts it in lost.             *)

\* The partners of the undo record are those the request needs.
OnRoute(a) ==
    /\ At(a, "new") => job[a].saga = <<>>
    /\ job[a].todo \subseteq Needs[RequestOf[a]]
    /\ \A i \in 1..Len(job[a].saga) :
          job[a].saga[i].kind = "deletePartner" => job[a].saga[i].on \in Needs[RequestOf[a]]

Known(copy) ==
    \/ copy \in lost
    \/ \E a \in Attempts : copy \in Recorded(a)
    \/ \E a \in RowsOf(copy[2]) : AnsweredOk(a) /\ copy[1] \in Needs[copy[2]]

\* How a step of an attempt changes its list of steps to undo.
LEMMA SagaStep ==
    ASSUME TypeOK, NEW a \in Attempts, Arrive(a) \/ Progress(a) \/ Disconnect(a)
    PROVE  /\ job'[a].pc # "new"
           /\ job'[a].todo \subseteq job[a].todo \/ job'[a].todo \subseteq Needs[RequestOf[a]]
           /\ \/ job'[a].saga = job[a].saga
              \/ job'[a].saga = <<>>
              \/ \E e \in job[a].todo : job'[a].saga = Append(job[a].saga, Step("deletePartner", e))
              \/ job'[a].saga = Append(job[a].saga, Step("deleteRows", NoOne))
  <1> JobOK
    BY DEF TypeOK
  <1>1. CASE Arrive(a)
    BY <1>1, ArriveRecord
  <1>2. ASSUME NEW e \in Partners, PartnerHolds(a, e)
        PROVE  /\ job'[a].pc # "new" /\ job'[a].todo \subseteq job[a].todo /\ e \in job[a].todo
               /\ job'[a].saga = Append(job[a].saga, Step("deletePartner", e))
    BY <1>2, PartnerHoldsRecord DEF PartnerHolds
  <1>3. ASSUME NEW e \in Partners, PartnerUnnamed(a, e)
        PROVE  /\ job'[a].pc # "new" /\ job'[a].todo \subseteq job[a].todo
               /\ job'[a].saga = job[a].saga
    BY <1>3, PartnerUnnamedRecord
  <1>4. ASSUME NEW v \in Answers, Rollback(a, v), ~At(a, "undo")
        PROVE  /\ job'[a].pc # "new" /\ job'[a].todo \subseteq job[a].todo
               /\ job'[a].saga = job[a].saga
    BY <1>4, RollbackRecord
  <1>5. ASSUME NEW place \in {"check", "price", "parent", "children"}, Goto(a, place),
               ~At(a, "undo")
        PROVE  /\ job'[a].pc # "new" /\ job'[a].todo \subseteq job[a].todo
               /\ job'[a].saga = job[a].saga
    BY <1>5, GotoRecord DEF Places
  <1>6. CASE Asking(a)
    <2>1. ASSUME NEW e \in Partners, PartnerFails(a, e)
          PROVE  Rollback(a, "failed") /\ ~At(a, "undo")
      BY <2>1 DEF PartnerFails, At
    <2>2. ASSUME PartnersDone(a)
          PROVE  Goto(a, "check") /\ ~At(a, "undo")
      BY <2>2 DEF PartnersDone, At
    <2>3. "failed" \in Answers
      BY DEF Answers
    <2> QED
      BY <1>2, <1>3, <1>4, <1>5, <1>6, <2>1, <2>2, <2>3 DEF Asking
  <1>7. CASE Checking(a)
    <2>1. \/ \E v \in Answers : Rollback(a, v)
          \/ Goto(a, "price") \/ Goto(a, "parent")
      BY <1>7 DEF Checking, SectionsFree, SectionsTaken, ChecksFail, Priced, Answers
    <2>2. ~At(a, "undo")
      BY <1>7 DEF Checking, SectionsFree, SectionsTaken, ChecksFail, Priced, At
    <2> QED
      BY <1>4, <1>5, <2>1, <2>2
  <1>8. CASE Inserting(a)
    <2>1. CASE InsertParent(a)
      BY <1>5, <2>1 DEF InsertParent, At
    <2>2. CASE InsertChildren(a)
      BY <2>2, InsertChildrenRecord
    <2>3. CASE InsertFails(a) \/ InsertMappingsFails(a)
      <3>1. Rollback(a, "failed") /\ ~At(a, "undo") /\ "failed" \in Answers
        BY <2>3 DEF InsertFails, InsertMappingsFails, At, Answers
      <3> QED
        BY <1>4, <3>1
    <2>4. CASE InsertMappings(a)
      BY <2>4, AnswerRecord DEF InsertMappings, Answers
    <2> QED
      BY <1>8, <2>1, <2>2, <2>3, <2>4 DEF Inserting
  <1>9. CASE Undo(a)
    <2>1. CASE Undoing(a) /\ StepUndone(a)
      BY <2>1, UndoneRecord
    <2>2. CASE UndoDone(a)
      BY <2>2, AnswerRecord, JobFields DEF UndoDone
    <2> QED
      BY <1>9, <2>1, <2>2 DEF Undo, UndoPartner, UndoRows, UndoFails, UndoKind
  <1>10. CASE Disconnect(a)
    BY <1>10, DisconnectRecord DEF Disconnect, InUse
  <1> QED
    BY <1>1, <1>6, <1>7, <1>8, <1>9, <1>10 DEF Progress

LEMMA OnRouteStep ==
    ASSUME TypeOK, [Next]_vars, NEW b \in Attempts, OnRoute(b)
    PROVE  OnRoute(b)'
  <1>1. ASSUME job'[b] = job[b]
        PROVE  OnRoute(b)'
    BY <1>1 DEF OnRoute, At
  <1>2. ASSUME NEW a \in Attempts, Arrive(a) \/ Progress(a) \/ Disconnect(a)
        PROVE  OnRoute(b)'
    <2>1. CASE b # a
      BY <1>1, <1>2, <2>1, OthersUndisturbed DEF Undisturbed
    <2>2. CASE b = a
      <3>1. /\ job'[b].pc # "new" /\ job'[b].todo \subseteq Needs[RequestOf[b]]
            /\ \/ job'[b].saga = job[b].saga
               \/ job'[b].saga = <<>>
               \/ \E e \in Needs[RequestOf[b]] :
                     job'[b].saga = Append(job[b].saga, Step("deletePartner", e))
               \/ job'[b].saga = Append(job[b].saga, Step("deleteRows", NoOne))
        BY <1>2, <2>2, SagaStep DEF OnRoute
      <3>2. job[b].saga \in Seq(Steps)
        BY JobFields DEF TypeOK
      <3>3. ASSUME NEW s \in Steps, job'[b].saga = Append(job[b].saga, s),
                   s.kind = "deletePartner" => s.on \in Needs[RequestOf[b]]
            PROVE  OnRoute(b)'
        <4>1. \A i \in 1..Len(job'[b].saga) :
                 job'[b].saga[i] = IF i <= Len(job[b].saga) THEN job[b].saga[i] ELSE s
          BY <3>2, <3>3
        <4>2. \A i \in 1..Len(job'[b].saga) : i <= Len(job[b].saga) => i \in 1..Len(job[b].saga)
          BY <3>2, <3>3
        <4> QED
          BY <3>1, <3>3, <4>1, <4>2 DEF OnRoute, At
      <3>4. /\ \A e \in Needs[RequestOf[b]] : Step("deletePartner", e) \in Steps
                                             /\ Step("deletePartner", e).on = e
            /\ Step("deleteRows", NoOne) \in Steps /\ Step("deleteRows", NoOne).kind = "deleteRows"
        BY HoldAssumption DEF Step, Steps
      <3>5. CASE job'[b].saga = job[b].saga \/ job'[b].saga = <<>>
        BY <3>1, <3>5 DEF OnRoute, At
      <3> QED
        BY <3>1, <3>3, <3>4, <3>5
    <2> QED
      BY <2>1, <2>2
  <1>3. ASSUME NEW r \in Requests, Confirm(r) \/ Close(r)
        PROVE  OnRoute(b)'
    BY <1>1, <1>3 DEF Confirm, Close
  <1>4. CASE Crash
    <2>1. CASE job'[b].pc = "done" /\ job'[b].saga = <<>> /\ job'[b].todo = {}
      BY <2>1 DEF OnRoute, At
    <2> QED
      BY <1>1, <1>4, <2>1, CrashRecord DEF TypeOK
  <1> QED
    BY <1>1, <1>2, <1>3, <1>4 DEF Next, Idle, vars

\* What the undo record stands for, before and after.
LEMMA RecordedSame ==
    ASSUME NEW a \in Attempts, job'[a].saga = job[a].saga, Standing(job'[a]) = Standing(job[a])
    PROVE  Recorded(a)' = Recorded(a)
  <1>1. RecordOf(job'[a]) = RecordOf(job[a])
    BY DEF RecordOf
  <1> QED
    BY <1>1 DEF Recorded, Copy

LEMMA RecordedAppended ==
    ASSUME NEW a \in Attempts, NEW step \in Steps, job[a].saga \in Seq(Steps),
           job'[a].saga = Append(job[a].saga, step),
           Standing(job[a]) = Len(job[a].saga), Standing(job'[a]) = Len(job[a].saga) + 1
    PROVE  /\ Recorded(a) \subseteq Recorded(a)'
           /\ \A e \in Partners : step = Step("deletePartner", e) => Copy(a, e) \in Recorded(a)'
  <1>1. /\ job'[a].saga[Len(job[a].saga) + 1] = step
        /\ \A i \in 1..Len(job[a].saga) : job'[a].saga[i] = job[a].saga[i]
    OBVIOUS
  <1>2. Len(job[a].saga) + 1 \in 1..Standing(job'[a])
        /\ \A i \in 1..Standing(job[a]) : i \in 1..Standing(job'[a])
    OBVIOUS
  <1>3. RecordOf(job[a]) \subseteq RecordOf(job'[a])
    BY <1>1, <1>2 DEF RecordOf
  <1>4. \A e \in Partners : step = Step("deletePartner", e) => e \in RecordOf(job'[a])
    BY <1>1, <1>2 DEF RecordOf
  <1> QED
    BY <1>3, <1>4 DEF Recorded, Copy

\* One step undone takes at most its own partner off the record.
LEMMA RecordedUndone ==
    ASSUME TypeOK, NEW a \in Attempts, Undoing(a), StepUndone(a)
    PROVE  \A copy \in Recorded(a) :
              \/ copy \in Recorded(a)'
              \/ Current(a).kind = "deletePartner" /\ copy = Copy(a, Current(a).on)
  <1>1. /\ job'[a].saga = job[a].saga /\ job[a].left \in Nat
        /\ Standing(job[a]) = job[a].left /\ Standing(job'[a]) = job[a].left - 1
    BY UndoneRecord DEF TypeOK
  <1>2. ASSUME NEW e \in RecordOf(job[a])
        PROVE  e \in RecordOf(job'[a]) \/ Current(a) = Step("deletePartner", e)
    <2>1. PICK i \in 1..job[a].left : job[a].saga[i] = Step("deletePartner", e)
      BY <1>1, <1>2 DEF RecordOf
    <2>2. CASE i = job[a].left
      BY <2>1, <2>2 DEF Current
    <2>3. CASE i \in 1..(job[a].left - 1)
      BY <1>1, <1>2, <2>1, <2>3 DEF RecordOf
    <2> QED
      BY <1>1, <2>1, <2>2, <2>3
  <1>3. \A e : Step("deletePartner", e).kind = "deletePartner" /\ Step("deletePartner", e).on = e
    BY DEF Step
  <1> QED
    BY <1>2, <1>3 DEF Recorded, Copy

\* A copy stays known when the acting attempt still stands for it, with its record, its
\* rows or in the history, and no rows go.
LEMMA KnownKept ==
    ASSUME NEW a \in Attempts, ~AnsweredOk(a),
           \A b \in Attempts : b # a => job'[b] = job[b],
           \A b \in Attempts : parent[b] # "none" => parent'[b] # "none",
           NEW copy, Known(copy), copy \in lost => copy \in lost' \/ copy \in Recorded(a)',
           copy \in Recorded(a) =>
              \/ copy \in Recorded(a)' \/ copy \in lost'
              \/ AnsweredOk(a)' /\ parent'[a] # "none" /\ copy[2] = RequestOf[a]
                 /\ copy[1] \in Needs[copy[2]]
    PROVE  Known(copy)'
  <1>1. \A b \in Attempts : b # a => Recorded(b)' = Recorded(b) /\ AnsweredOk(b)' = AnsweredOk(b)
    BY DEF Recorded, RecordOf, Copy, AnsweredOk, At
  <1>2. CASE copy \in lost
    BY <1>2 DEF Known
  <1>3. ASSUME NEW b \in Attempts, copy \in Recorded(b)
        PROVE  Known(copy)'
    <2>1. CASE b # a
      BY <1>1, <1>3, <2>1 DEF Known
    <2>2. CASE b = a
      BY <1>3, <2>2 DEF Known, RowsOf
    <2> QED
      BY <2>1, <2>2
  <1>4. ASSUME NEW b \in RowsOf(copy[2]), AnsweredOk(b), copy[1] \in Needs[copy[2]]
        PROVE  Known(copy)'
    <2>1. b \in Attempts /\ b # a /\ AnsweredOk(b)' /\ b \in RowsOf(copy[2])'
      BY <1>1, <1>4 DEF RowsOf
    <2> QED
      BY <1>4, <2>1 DEF Known
  <1> QED
    BY <1>2, <1>3, <1>4 DEF Known

LEMMA AskingKnown ==
    ASSUME TypeOK, NEW a \in Attempts, Asking(a), NEW copy \in held',
           copy \in held => Known(copy)
    PROVE  Known(copy)'
  <1>0. At(a, "partners") /\ ~At(a, "undo") /\ ~AnsweredOk(a) /\ UNCHANGED db
    BY DEF Asking, PartnerHolds, PartnerUnnamed, PartnerFails, PartnersDone, At, AnsweredOk
  <1>1. UNCHANGED parent /\ JobOK
    BY <1>0 DEF db, TypeOK
  <1>2. ASSUME NEW e \in Partners, PartnerHolds(a, e)
        PROVE  Known(copy)'
    <2>1. /\ job'[a].saga = Append(job[a].saga, Step("deletePartner", e))
          /\ job[a].saga \in Seq(Steps) /\ Standing(job[a]) = Len(job[a].saga)
          /\ Standing(job'[a]) = Len(job[a].saga) + 1
          /\ \A b \in Attempts : b # a => job'[b] = job[b]
      BY <1>1, <1>2, PartnerHoldsRecord
    <2>2. Step("deletePartner", e) \in Steps
      BY DEF Step, Steps
    <2>3. Recorded(a) \subseteq Recorded(a)' /\ Copy(a, e) \in Recorded(a)'
      BY <2>1, <2>2, RecordedAppended
    <2>4. held' = held \cup {Copy(a, e)} /\ lost' = lost \ {Copy(a, e)}
      BY <1>2 DEF PartnerHolds
    <2>5. CASE copy = Copy(a, e)
      BY <2>3, <2>5 DEF Known
    <2>6. CASE copy # Copy(a, e)
      BY <1>0, <1>1, <2>1, <2>3, <2>4, <2>6, KnownKept
    <2> QED
      BY <2>5, <2>6
  <1>3. ASSUME Recorded(a)' = Recorded(a), \A b \in Attempts : b # a => job'[b] = job[b],
               lost \subseteq lost', copy \in held \/ copy \in lost'
        PROVE  Known(copy)'
    <2>1. CASE copy \in lost'
      BY <2>1 DEF Known
    <2>2. CASE copy \in held
      BY <1>0, <1>1, <1>3, <2>2, KnownKept
    <2> QED
      BY <1>3, <2>1, <2>2
  <1>4. ASSUME NEW e \in Partners, PartnerUnnamed(a, e)
        PROVE  Known(copy)'
    <2>1. Recorded(a)' = Recorded(a) /\ \A b \in Attempts : b # a => job'[b] = job[b]
      BY <1>1, <1>4, PartnerUnnamedRecord, RecordedSame
    <2>2. lost \subseteq lost' /\ (copy \in held \/ copy \in lost')
      BY <1>4 DEF PartnerUnnamed
    <2> QED
      BY <1>3, <2>1, <2>2
  <1>5. ASSUME NEW e \in Partners, PartnerFails(a, e)
        PROVE  Known(copy)'
    <2>1. Rollback(a, "failed") /\ "failed" \in Answers
      BY <1>5 DEF PartnerFails, Answers
    <2>2. Recorded(a)' = Recorded(a) /\ \A b \in Attempts : b # a => job'[b] = job[b]
      BY <1>0, <1>1, <2>1, RollbackRecord, RecordedSame
    <2>3. lost \subseteq lost' /\ (copy \in held \/ copy \in lost')
      BY <1>5 DEF PartnerFails
    <2> QED
      BY <1>3, <2>2, <2>3
  <1>6. CASE PartnersDone(a)
    <2>1. Goto(a, "check") /\ "check" \in Places \ {"undo"} /\ UNCHANGED <<held, lost>>
      BY <1>6 DEF PartnersDone, Places, history
    <2>2. Recorded(a)' = Recorded(a) /\ \A b \in Attempts : b # a => job'[b] = job[b]
      BY <1>0, <1>1, <2>1, GotoRecord, RecordedSame
    <2> QED
      BY <1>3, <2>1, <2>2
  <1> QED
    BY <1>2, <1>4, <1>5, <1>6 DEF Asking

\* The steps that ask nobody: the record stays, or grows by the rows' own step.
LEMMA QuietKnown ==
    ASSUME TypeOK, NEW a \in Attempts, ~AnsweredOk(a),
           Recorded(a) \subseteq Recorded(a)', \A b \in Attempts : b # a => job'[b] = job[b],
           UNCHANGED <<held, lost>>,
           \A b \in Attempts : parent[b] # "none" => parent'[b] # "none",
           NEW copy \in held', copy \in held => Known(copy)
    PROVE  Known(copy)'
  <1>1. Known(copy) /\ (copy \in lost => copy \in lost')
    OBVIOUS
  <1> QED
    BY <1>1, KnownKept

LEMMA CheckingKnown ==
    ASSUME TypeOK, NEW a \in Attempts, Checking(a), NEW copy \in held',
           copy \in held => Known(copy)
    PROVE  Known(copy)'
  <1>0. ~At(a, "undo") /\ ~AnsweredOk(a) /\ UNCHANGED <<parent, held, lost>> /\ JobOK
    BY DEF Checking, SectionsFree, SectionsTaken, ChecksFail, Priced, At, AnsweredOk, db,
           history, TypeOK
  <1>1. \/ \E v \in Answers : Rollback(a, v)
        \/ \E place \in Places \ {"undo"} : Goto(a, place)
    BY DEF Checking, SectionsFree, SectionsTaken, ChecksFail, Priced, Answers, Places
  <1>2. Recorded(a)' = Recorded(a) /\ \A b \in Attempts : b # a => job'[b] = job[b]
    BY <1>0, <1>1, RollbackRecord, GotoRecord, RecordedSame
  <1> QED
    BY <1>0, <1>2, QuietKnown

LEMMA InsertingKnown ==
    ASSUME TypeOK, NEW a \in Attempts, OnRoute(a), Inserting(a), NEW copy \in held',
           copy \in held => Known(copy)
    PROVE  Known(copy)'
  <1>0. ~At(a, "undo") /\ ~AnsweredOk(a) /\ UNCHANGED held /\ JobOK
    BY DEF Inserting, InsertParent, InsertChildren, InsertFails, InsertMappings,
           InsertMappingsFails, At, AnsweredOk, TypeOK
  <1>1. CASE InsertParent(a)
    <2>1. Goto(a, "children") /\ "children" \in Places \ {"undo"} /\ UNCHANGED lost
      BY <1>1 DEF InsertParent, Places, history
    <2>2. Recorded(a)' = Recorded(a) /\ \A b \in Attempts : b # a => job'[b] = job[b]
      BY <1>0, <2>1, GotoRecord, RecordedSame
    <2>3. \A b \in Attempts : parent[b] # "none" => parent'[b] # "none"
      BY <1>1 DEF InsertParent, TypeOK, RowsOK
    <2> QED
      BY <1>0, <2>1, <2>2, <2>3, QuietKnown
  <1>2. CASE InsertChildren(a)
    <2>1. Step("deleteRows", NoOne) \in Steps /\ UNCHANGED <<parent, lost>>
      BY <1>2 DEF InsertChildren, Step, Steps, history
    <2>2. Recorded(a) \subseteq Recorded(a)' /\ \A b \in Attempts : b # a => job'[b] = job[b]
      BY <1>0, <1>2, <2>1, InsertChildrenRecord, RecordedAppended
    <2> QED
      BY <1>0, <2>1, <2>2, QuietKnown
  <1>3. CASE InsertFails(a) \/ InsertMappingsFails(a)
    <2>1. Rollback(a, "failed") /\ "failed" \in Answers /\ UNCHANGED <<parent, lost>>
      BY <1>3 DEF InsertFails, InsertMappingsFails, Answers, db, history
    <2>2. Recorded(a)' = Recorded(a) /\ \A b \in Attempts : b # a => job'[b] = job[b]
      BY <1>0, <2>1, RollbackRecord, RecordedSame
    <2> QED
      BY <1>0, <2>1, <2>2, QuietKnown
  <1>4. CASE InsertMappings(a)
    <2>1. /\ job'[a].pc = "done" /\ job'[a].verdict = "ok"
          /\ \A b \in Attempts : b # a => job'[b] = job[b]
      BY <1>0, <1>4, AnswerRecord DEF InsertMappings, Answers
    <2>2. UNCHANGED parent
          /\ lost' = lost \cup (IF parent[a] = "none" THEN held \cap Recorded(a) ELSE {})
      BY <1>4 DEF InsertMappings
    <2>3. \A e \in RecordOf(job[a]) : e \in Needs[RequestOf[a]]
      <3>1. Standing(job[a]) = Len(job[a].saga)
        BY <1>0 DEF Standing, At
      <3>2. \A e : Step("deletePartner", e).kind = "deletePartner"
                   /\ Step("deletePartner", e).on = e
        BY DEF Step
      <3> QED
        BY <3>1, <3>2 DEF RecordOf, OnRoute
    <2>4. copy \in Recorded(a) => copy[2] = RequestOf[a] /\ copy[1] \in Needs[copy[2]]
      BY <2>3 DEF Recorded, Copy
    <2>5. AnsweredOk(a)'
      BY <2>1 DEF AnsweredOk, At
    <2> QED
      BY <1>0, <2>1, <2>2, <2>4, <2>5, KnownKept
  <1> QED
    BY <1>1, <1>2, <1>3, <1>4 DEF Inserting

LEMMA UndoKnown ==
    ASSUME TypeOK, NEW a \in Attempts, Undo(a), NEW copy \in held',
           copy \in held => Known(copy)
    PROVE  Known(copy)'
  <1>0. At(a, "undo") /\ ~AnsweredOk(a) /\ JobOK /\ Known(copy) /\ copy \in held
    BY DEF Undo, UndoPartner, UndoRows, UndoFails, UndoDone, UndoKind, Undoing, At,
           AnsweredOk, TypeOK
  <1>1. ASSUME Undoing(a), StepUndone(a)
        PROVE  /\ \A b \in Attempts : b # a => job'[b] = job[b]
               /\ copy \in Recorded(a) =>
                    \/ copy \in Recorded(a)'
                    \/ Current(a).kind = "deletePartner" /\ copy = Copy(a, Current(a).on)
    BY <1>0, <1>1, UndoneRecord, RecordedUndone
  <1>2. CASE UndoPartner(a)
    <2>1. Undoing(a) /\ StepUndone(a) /\ UNCHANGED parent
      BY <1>2 DEF UndoPartner, UndoKind, db
    <2>2. copy # Copy(a, Current(a).on) /\ (copy \in lost => copy \in lost')
      BY <1>2 DEF UndoPartner
    <2> QED
      BY <1>0, <1>1, <2>1, <2>2, KnownKept
  <1>3. CASE UndoFails(a)
    <2>1. Undoing(a) /\ StepUndone(a) /\ UNCHANGED parent
      BY <1>3 DEF UndoFails, db
    <2>2. lost' = lost \cup (held \cap {Copy(a, Current(a).on)})
      BY <1>3 DEF UndoFails
    <2> QED
      BY <1>0, <1>1, <2>1, <2>2, KnownKept
  <1>4. CASE UndoRows(a)
    <2>1. Undoing(a) /\ StepUndone(a) /\ Current(a).kind = "deleteRows"
      BY <1>4 DEF UndoRows, UndoKind
    <2>2. lost' = lost \cup Stray(a)
      BY <1>4 DEF UndoRows
    <2>3. \A b \in Attempts : b # a => Recorded(b)' = Recorded(b) /\ AnsweredOk(b)' = AnsweredOk(b)
      BY <1>1, <2>1 DEF Recorded, RecordOf, Copy, AnsweredOk, At
    <2>4. \A b \in Attempts : copy \in Recorded(b) => copy \in Recorded(b)'
      BY <1>1, <2>1, <2>3
    <2>5. CASE copy \in lost \/ \E b \in Attempts : copy \in Recorded(b)
      BY <2>2, <2>4, <2>5 DEF Known
    <2>6. CASE copy \notin lost /\ \A b \in Attempts : copy \notin Recorded(b)
      <3>1. PICK b \in RowsOf(copy[2]) : AnsweredOk(b) /\ copy[1] \in Needs[copy[2]]
        BY <1>0, <2>6 DEF Known
      <3>2. b \in Attempts \ {a} /\ RequestOf[b] = copy[2] /\ parent[b] # "none"
        BY <1>0, <3>1 DEF RowsOf
      <3>3. CASE copy[2] = RequestOf[a]
        <4>1. copy \in Stray(a)
          BY <1>0, <2>6, <3>2, <3>3 DEF Stray, Siblings
        <4> QED
          BY <2>2, <4>1 DEF Known
      <3>4. CASE copy[2] # RequestOf[a]
        <4>1. parent'[b] = parent[b]
          BY <1>4, <3>2, <3>4 DEF UndoRows, Siblings, TypeOK, RowsOK
        <4>2. b \in RowsOf(copy[2])' /\ AnsweredOk(b)'
          BY <2>3, <3>1, <3>2, <4>1 DEF RowsOf
        <4> QED
          BY <3>1, <4>2 DEF Known
      <3> QED
        BY <3>3, <3>4
    <2> QED
      BY <2>5, <2>6
  <1>5. CASE UndoDone(a)
    <2>1. Recorded(a) = {}
      BY <1>5 DEF UndoDone, Recorded, RecordOf, Standing, At
    <2>2. UNCHANGED <<parent, held, lost>> /\ Answer(a, job[a].verdict)
      BY <1>5 DEF UndoDone, db, history
    <2>3. \A b \in Attempts : b # a => job'[b] = job[b]
      BY <1>0, <2>2, JobFields, AnswerRecord
    <2> QED
      BY <1>0, <2>1, <2>2, <2>3, KnownKept
  <1> QED
    BY <1>2, <1>3, <1>4, <1>5 DEF Undo

LEMMA LeavingKnown ==
    ASSUME TypeOK, NEW a \in Attempts, OnRoute(a), Arrive(a) \/ Disconnect(a),
           NEW copy \in held', copy \in held => Known(copy)
    PROVE  Known(copy)'
  <1>0. UNCHANGED <<parent, held, lost>> /\ ~AnsweredOk(a) /\ JobOK
    BY DEF Arrive, Disconnect, InUse, AnsweredOk, At, db, history, TypeOK
  <1>1. CASE Arrive(a)
    <2>1. Recorded(a) = {}
      BY <1>1 DEF Arrive, OnRoute, Recorded, RecordOf, Standing, At
    <2>2. \A b \in Attempts : b # a => job'[b] = job[b]
      BY <1>0, <1>1, ArriveRecord
    <2> QED
      BY <1>0, <2>1, <2>2, QuietKnown
  <1>2. CASE Disconnect(a)
    <2>1. Recorded(a)' = Recorded(a) /\ \A b \in Attempts : b # a => job'[b] = job[b]
      BY <1>0, <1>2, DisconnectRecord, RecordedSame
    <2> QED
      BY <1>0, <2>1, QuietKnown
  <1> QED
    BY <1>1, <1>2

LEMMA CrashKnown ==
    ASSUME TypeOK, Crash, NEW copy \in held', copy \in held => Known(copy)
    PROVE  Known(copy)'
  <1>1. /\ UNCHANGED <<parent, held>> /\ lost' = lost \cup (held \cap UNION {Recorded(b) : b \in Attempts})
        /\ \A b \in Attempts : AnsweredOk(b) => job'[b] = job[b]
    BY DEF Crash, db, InUse, AnsweredOk, At
  <1>2. CASE copy \in lost \/ \E b \in Attempts : copy \in Recorded(b)
    BY <1>1, <1>2 DEF Known
  <1>3. ASSUME NEW b \in RowsOf(copy[2]), AnsweredOk(b), copy[1] \in Needs[copy[2]]
        PROVE  Known(copy)'
    <2>1. b \in RowsOf(copy[2])' /\ AnsweredOk(b)'
      BY <1>1, <1>3 DEF RowsOf, AnsweredOk, At
    <2> QED
      BY <1>3, <2>1 DEF Known
  <1> QED
    BY <1>1, <1>2, <1>3 DEF Known

LEMMA KnownStep ==
    ASSUME TypeOK, [Next]_vars, \A b \in Attempts : OnRoute(b),
           \A copy \in held : Known(copy), NEW copy \in held'
    PROVE  Known(copy)'
  <1>1. ASSUME NEW a \in Attempts, Arrive(a) \/ Progress(a) \/ Disconnect(a)
        PROVE  Known(copy)'
    BY <1>1, AskingKnown, CheckingKnown, InsertingKnown, UndoKnown, LeavingKnown DEF Progress
  <1>2. ASSUME NEW r \in Requests, Confirm(r) \/ Close(r)
        PROVE  Known(copy)'
    <2>1. UNCHANGED <<held, job, lost>> /\ Known(copy)
      BY <1>2 DEF Confirm, Close, history
    <2>2. \A b \in Attempts : parent[b] # "none" => parent'[b] # "none"
      BY <1>2 DEF Confirm, Close, SetStatus
    <2>3. RowsOf(copy[2]) \subseteq RowsOf(copy[2])'
      BY <2>2 DEF RowsOf
    <2> QED
      BY <2>1, <2>3 DEF Known, Recorded, RecordOf, Copy, AnsweredOk, At
  <1>3. CASE UNCHANGED vars
    <2>1. Known(copy)
      BY <1>3 DEF vars
    <2> QED
      BY <1>3, <2>1 DEF vars, Known, Recorded, RecordOf, Copy, AnsweredOk, At, RowsOf
  <1> QED
    BY <1>1, <1>2, <1>3, CrashKnown DEF Next, Idle

\* Whatever a partner holds for us is in the record of a running attempt, belongs to rows
\* of a hold that answered ok, or was dropped at one of the places that put it in lost
\* (ReserveExternalUasl, Rollback, and the answers of TryHoldCompositeUasl).
THEOREM PartnersAreKnown == Spec => []NoSilentPartnerHold
  <1> DEFINE AllOnRoute == \A a \in Attempts : OnRoute(a)
             AllKnown   == \A copy \in held : Known(copy)
  <1>1. Init => AllOnRoute /\ AllKnown
    <2> SUFFICES ASSUME Init
                 PROVE  AllOnRoute /\ held = {}
      OBVIOUS
    <2>1. held = {} /\ \A a \in Attempts : job[a].saga = <<>> /\ job[a].todo = {}
      BY DEF Init, Ended
    <2>2. Len(<<>>) = 0 /\ 1..0 = {}
      OBVIOUS
    <2>3. ASSUME NEW a \in Attempts
          PROVE  OnRoute(a)
      BY <2>1, <2>2 DEF OnRoute
    <2> QED
      BY <2>1, <2>3
  <1>2. TypeOK /\ AllOnRoute /\ AllKnown /\ [Next]_vars => AllOnRoute' /\ AllKnown'
    BY OnRouteStep, KnownStep
  <1>3. AllKnown => NoSilentPartnerHold
    BY DEF Known, NoSilentPartnerHold
  <1> QED
    BY <1>1, <1>2, <1>3, TypeCorrect, PTL DEF Spec
==============================================================================
