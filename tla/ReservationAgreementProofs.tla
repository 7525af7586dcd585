--------------------- MODULE ReservationAgreementProofs ----------------------
(* For one handler at a time.  What an operation's ok promises: a Confirm has   *)
(* every partner it could find in hand and a reservation in each row but those  *)
(* the tags exclude, and a Cancel or a Rescind leaves nothing at a vendor of a  *)
(* resource that can be given back.  Then, that the four places of a request    *)
(* agree between operations, and that the handlers implement RequestLifecycle,  *)
(* unless an operation was left half done at a named place.                     *)
EXTENDS ReservationProofs

-----------------------------------------------------------------------------
(* The invariant: what each stage of an operation leaves for the next one. *)

Skipped == "partnerSkipped" \in gaps
\* The status an operation gives to the parents and to every partner.
Goal(o) == IF o = "Confirm" THEN "RESERVED" ELSE Target(o)
AfterPartners == {"check", "reserve", "parents", "commit", "save",
                  "resources", "cancel", "reload", "clear"}
AfterCommit == {"resources", "cancel", "reload", "clear"}

\* The partners that are not in todo any more have done what was asked.
Told(h) ==
    /\ job[h].pc = "partners" =>
          Skipped \/ \A e \in Involved : partner[e] = Goal(job[h].op) \/ e \in job[h].todo
    /\ job[h].pc \in AfterPartners /\ job[h].op # "Delete" =>
          Skipped \/ \A e \in Involved : partner[e] = Goal(job[h].op)

\* A Cancel commits the rows it has read, and the parents have its target from then on.
Aimed(h) ==
    /\ IsCancel(h) /\ job[h].pc = "commit" => job[h].seen = status
    /\ IsCancel(h) /\ job[h].pc \in AfterCommit =>
          \A p \in Parents : status[p] = Target(job[h].op)

\* The rows that a Confirm reserves for sure.
Due(h, r) == Certain(r) \/ r.on \in Vehicles \/ ~Asked(h)

\* A Confirm's record names live reservations only, and every row that is due has a handle.
Secured(h) ==
    job[h].op = "Confirm" /\ job[h].pc \in Holding =>
        /\ \A x \in Resources, id \in Ids : Held(job[h], x, id) => id \in live[x]
        /\ \A r \in Loaded(h) : Due(h, r) =>
              \/ job[h].pc = "reserve" /\ r \in job[h].todo
              \/ job[h].handles[r] # NoId

\* Only a partner of the request was asked.
Asking(h) ==
    job[h].pc \in {"partners", "check"} \cup Holding /\ Asked(h) => Involved # {}

\* The row has a reservation, or a partner's id, or it is of a port that was left out.
Had(r) ==
    \/ mapping[r] \in live[r.on]
    \/ ~Certain(r) /\ Involved # {} /\ (mapping[r] = Theirs \/ r.on \in Ports)

\* What ok has promised holds until the next operation starts.
Fulfilled(h) ==
    job[h].pc = "idle" /\ job[h].answer = "ok" =>
        /\ job[h].op = "Confirm" =>
              /\ \A p \in Parents : status[p] = "RESERVED"
              /\ \A r \in Rows : mapping[r] # NoRow => Had(r)
        /\ IsCancel(h) =>
              /\ \A p \in Parents : status[p] = Target(job[h].op)
              /\ AllFreed
        /\ job[h].op = "Confirm" \/ IsCancel(h) =>
              Skipped \/ \A e \in Involved : partner[e] = Goal(job[h].op)

Promises(h) == Told(h) /\ Aimed(h) /\ Secured(h) /\ Asking(h) /\ Fulfilled(h)

-----------------------------------------------------------------------------
(* Steps that end the work or turn to its undo, and steps that only move on. *)

LEMMA PromisesEnd ==
    ASSUME NEW h \in Handlers,
           \/ job'[h].pc \in {"undo", "maps"}
           \/ job'[h].pc = "idle" /\ (job'[h].answer # "ok" \/ job'[h].op = "Delete")
    PROVE  Promises(h)'
  BY DEF Promises, Told, Aimed, Secured, Asking, Fulfilled, AfterPartners, AfterCommit, Holding, IsCancel

LEMMA PromisesDelete ==
    ASSUME NEW h \in Handlers, job'[h].op = "Delete",
           job'[h].pc \notin {"partners", "check"} \cup Holding
    PROVE  Promises(h)'
  BY DEF Promises, Told, Aimed, Secured, Asking, Fulfilled, IsCancel, Holding

LEMMA PromisesFailed ==
    ASSUME JobOK, NEW h \in Handlers, Answer(h, "failed")
    PROVE  Promises(h)'
  BY AnswerRecord, PromisesEnd DEF Answers

LEMMA PromisesRollback ==
    ASSUME JobOK, NEW h \in Handlers, NEW n \in 1..2, Rollback(h, n), ~At(h, "undo")
    PROVE  Promises(h)'
  BY RollbackRecord, PromisesEnd

LEMMA PromisesUndo ==
    ASSUME TypeOK, NEW h \in Handlers, Undo(h)
    PROVE  Promises(h)'
  <1>0. JobOK
    BY DEF TypeOK
  <1>1. CASE Undoing(h) /\ StepUndone(h)
    BY <1>0, <1>1, UndoneRecord, PromisesEnd
  <1>2. CASE PassDone(h)
    <2>1. CASE job[h].passes = 2
      <3>1. job'[h].pc = "undo"
        BY <1>0, <1>2, <2>1 DEF PassDone, At, JobOK, Jobs
      <3> QED
        BY <3>1, PromisesEnd
    <2>2. CASE job[h].passes # 2
      BY <1>0, <1>2, <2>2, PromisesFailed DEF PassDone
    <2> QED
      BY <2>1, <2>2
  <1> QED
    BY <1>1, <1>2
    DEF Undo, UndoReserve, UndoCancel, UndoPartnerConfirm, UndoPartnerCancel,
        RestoreParents, Unconfirm, UndoDeleteMappings, UndoFails, UndoUnanswered, UndoKind

-----------------------------------------------------------------------------
(* The record of what was asked of partners. *)

LEMMA AskedSame ==
    ASSUME NEW h, job'[h].saga = job[h].saga
    PROVE  Asked(h)' <=> Asked(h)
  BY DEF Asked

LEMMA SagaMore ==
    ASSUME JobOK, NEW h \in Handlers, NEW step \in Steps,
           \/ \E x : RecordDone(h, step, x)
           \/ \E place \in Places : Record(h, step, place)
           \/ \E r \in Rows, id \in Ids :
                 RecordHandle(h, r, id) /\ step = Step("cancelHandle", r.on, id)
    PROVE  job'[h].saga = Append(job[h].saga, step) /\ job[h].saga \in Seq(Steps)
  <1>1. job[h] \in Jobs /\ job[h].saga \in Seq(Steps)
    BY JobFields DEF JobOK, Sagas
  <1> DEFINE new == Append(job[h].saga, step)
  <1> HIDE DEF new
  <1>2. ASSUME NEW x, RecordDone(h, step, x)
        PROVE  job'[h].saga = new
    <2>1. job'[h] = [job[h] EXCEPT !.saga = new, !.todo = @ \ {x}]
      BY <1>2 DEF RecordDone, JobOK, new
    <2> QED
      BY <1>1, <2>1 DEF Jobs
  <1>3. ASSUME NEW place \in Places, Record(h, step, place)
        PROVE  job'[h].saga = new
    <2>1. job'[h] = [job[h] EXCEPT !.saga = new, !.pc = place]
      BY <1>3 DEF Record, JobOK, new
    <2> QED
      BY <1>1, <2>1 DEF Jobs
  <1>4. ASSUME NEW r \in Rows, NEW id \in Ids, RecordHandle(h, r, id),
               step = Step("cancelHandle", r.on, id)
        PROVE  job'[h].saga = new
    <2> DEFINE rest == job[h].todo \ Slot(h, r)
               ids == Handled(h, r, id)
    <2> HIDE DEF rest, ids
    <2>1. job'[h] = [job[h] EXCEPT !.saga = new, !.todo = rest, !.handles = ids]
      BY <1>4 DEF RecordHandle, JobOK, new, rest, ids
    <2> QED
      BY <1>1, <2>1 DEF Jobs
  <1> QED
    BY <1>1, <1>2, <1>3, <1>4 DEF new

LEMMA AskedMore ==
    ASSUME NEW h, NEW step \in Steps, job[h].saga \in Seq(Steps),
           job'[h].saga = Append(job[h].saga, step)
    PROVE  Asked(h)' <=> Asked(h) \/ step.kind = "deletePartner"
  <1> DEFINE old == job[h].saga
             n   == Len(old)
             new == Append(old, step)
  <1>1. /\ n \in Nat /\ new[n + 1] = step /\ \A i \in 1..n : new[i] = old[i]
        /\ DOMAIN old = 1..n /\ DOMAIN new = 1..(n + 1)
    OBVIOUS
  <1>2. 1..(n + 1) = (1..n) \cup {n + 1}
    BY <1>1
  <1>3. (Asked(h) <=> \E i \in 1..n : old[i].kind = "deletePartner")
        /\ (Asked(h)' <=> \E i \in 1..(n + 1) : new[i].kind = "deletePartner")
    BY <1>1 DEF Asked
  <1> HIDE DEF n, new, old
  <1> QED
    BY <1>1, <1>2, <1>3

LEMMA AskedNone ==
    ASSUME NEW h, job[h].saga = <<>>
    PROVE  ~Asked(h)
  BY DEF Asked

-----------------------------------------------------------------------------
(* The steps every operation shares. *)

LEMMA PromisesPartner ==
    ASSUME TypeOK, NEW h \in Handlers, Sound(job[h]), Promises(h), NEW e \in Partners,
           PartnerAgrees(h, e)
    PROVE  Promises(h)'
  <1> DEFINE s == Step(UndoOf(job[h].op), e, NoId)
  <1>1. s \in Steps
    BY DEF Step, Steps, UndoOf
  <1>2. RecordDone(h, s, e) /\ job[h].pc = "partners" /\ ~At(h, "undo")
    BY DEF PartnerAgrees, At
  <1> HIDE DEF s
  <1>3. /\ job'[h].op = job[h].op /\ job'[h].pc = "partners"
        /\ job'[h].todo = job[h].todo \ {e}
    BY <1>1, <1>2, RecordDoneRecord DEF Recorded, TypeOK
  <1>4. /\ partner'[e] = Goal(job[h].op) /\ partner[e] # "none" /\ Goal(job[h].op) # "none"
        /\ \A d \in Partners : d # e => partner'[d] = partner[d]
        /\ gaps' = gaps
    BY DEF PartnerAgrees, Settled, Open, Goal, Target, TypeOK, PartnerOK, history
  <1>5. Told(h)'
    BY <1>2, <1>3, <1>4 DEF Promises, Told, Skipped, Involved, AfterPartners
  <1>6. Asking(h)'
    BY <1>4 DEF Asking, Involved
  <1> QED
    BY <1>3, <1>5, <1>6 DEF Promises, Aimed, Secured, Fulfilled, AfterCommit, Holding

LEMMA PromisesShared ==
    ASSUME TypeOK, NEW h \in Handlers, Sound(job[h]), Promises(h), Shared(h), ~Commit(h)
    PROVE  Promises(h)'
  <1>0. JobOK
    BY DEF TypeOK
  <1>1. CASE LoadMappings(h)
    <2>1. /\ job[h].pc = "maps" /\ job'[h].op = job[h].op
          /\ job'[h].pc = IF job[h].op = "Confirm" THEN "partners" ELSE "resources"
          /\ job[h].op = "Confirm" => job'[h].todo = Involved
          /\ job[h].op \in {"Confirm", "Delete"} /\ partner' = partner
          /\ job[h].saga = <<>> /\ job'[h].saga = <<>>
      BY <1>0, <1>1, LoadRecord DEF LoadMappings, At, SameRecord, Sound, PlacesOf
    <2>2. CASE job[h].op = "Delete"
      BY <2>1, <2>2, PromisesDelete DEF Holding
    <2>3. CASE job[h].op = "Confirm"
      <3>1. job'[h].pc = "partners" /\ \A e \in Involved' : e \in job'[h].todo
        BY <2>1, <2>3 DEF Involved
      <3>2. ~Asked(h)'
        BY <2>1 DEF Asked
      <3> QED
        BY <2>1, <2>3, <3>1, <3>2
        DEF Promises, Told, Aimed, Secured, Asking, Fulfilled, AfterPartners, AfterCommit, Holding
    <2> QED
      BY <2>1, <2>2, <2>3
  <1>2. CASE TurnAway(h) \/ LoadParentsFails(h)
    BY <1>0, <1>2, PromisesFailed DEF TurnAway, LoadParentsFails
  <1>3. ASSUME NEW e \in Partners, PartnerAgrees(h, e)
        PROVE  Promises(h)'
    BY <1>3, PromisesPartner
  <1>4. ASSUME NEW e \in Partners, PartnerRefuses(h, e)
        PROVE  Promises(h)'
    BY <1>0, <1>4, PromisesRollback DEF PartnerRefuses, At
  <1>5. ASSUME NEW e \in Partners, PartnerSkipped(h, e)
        PROVE  Promises(h)'
    <2>1. Skipped' /\ job'[h].pc = "partners" /\ job'[h].saga = job[h].saga
          /\ job[h].pc = "partners" /\ Involved' = Involved
      BY <1>0, <1>5 DEF PartnerSkipped, Gap, Skipped, At, JobOK, Jobs, Involved
    <2>2. Asked(h)' <=> Asked(h)
      BY <2>1, AskedSame
    <2> QED
      BY <2>1, <2>2
      DEF Promises, Told, Aimed, Secured, Asking, Fulfilled, AfterPartners, AfterCommit, Holding
  <1>6. CASE PartnersDone(h)
    <2> DEFINE place == IF job[h].op = "Confirm" THEN "check" ELSE "parents"
    <2>1. /\ place \in Places /\ place # "undo" /\ Goto(h, place) /\ At(h, "partners")
          /\ job[h].op = "Confirm" => place = "check"
          /\ place \in {"check", "parents"} /\ job[h].todo = {}
          /\ UNCHANGED <<partner, gaps>>
      BY <1>6 DEF PartnersDone, Places, history
    <2> HIDE DEF place
    <2>2. /\ job'[h].op = job[h].op /\ job'[h].pc = place /\ job[h].pc = "partners"
          /\ job'[h].saga = job[h].saga
      BY <1>0, <2>1, GotoRecord DEF SameRecord, At
    <2>3. Told(h)'
      BY <2>1, <2>2 DEF Promises, Told, Skipped, Involved
    <2>4. Asking(h)'
      BY <2>1, <2>2, AskedSame DEF Promises, Asking, Involved
    <2>5. Secured(h)' /\ Aimed(h)' /\ Fulfilled(h)'
      BY <2>1, <2>2 DEF Aimed, Secured, Fulfilled, AfterCommit, Holding, IsCancel
    <2> QED
      BY <2>3, <2>4, <2>5 DEF Promises
  <1>7. CASE LoadParents(h)
    <2>1. /\ job'[h].op = job[h].op /\ job'[h].seen = status /\ job'[h].rows = job[h].rows
          /\ job'[h].handles = job[h].handles
          /\ job'[h].pc = "commit" /\ job[h].pc = "parents" /\ job'[h].saga = job[h].saga
          /\ UNCHANGED <<status, live, partner, gaps>>
      BY <1>0, <1>7 DEF LoadParents, JobOK, Jobs, At, db, vendor, history
    <2>2. \A x, id : Held(job'[h], x, id) <=> Held(job[h], x, id)
      BY <2>1 DEF Held, Standing
    <2>3. Told(h)' /\ Aimed(h)'
      BY <2>1 DEF Promises, Told, Aimed, Skipped, Involved, AfterPartners, AfterCommit
    <2>4. Asked(h)' <=> Asked(h)
      BY <2>1, AskedSame
    <2>5. Secured(h)' /\ Asking(h)'
      BY <2>1, <2>2, <2>4 DEF Promises, Secured, Asking, Due, Loaded, Involved, Holding
    <2> QED
      BY <2>1, <2>3, <2>5 DEF Promises, Fulfilled
  <1>8. CASE CommitFails(h)
    BY <1>0, <1>8, PromisesRollback DEF CommitFails, At
  <1> QED
    BY <1>1, <1>2, <1>3, <1>4, <1>5, <1>6, <1>7, <1>8 DEF Shared

\* A Cancel that saw no rows would have to have started without any.
LEMMA PromisesCommit ==
    ASSUME TypeOK, NEW h \in Handlers, Sound(job[h]), Books(h), Promises(h), Commit(h)
    PROVE  Promises(h)'
  <1> DEFINE place == IF job[h].op = "Confirm" THEN "save" ELSE "resources"
             kind == IF job[h].op = "Confirm" THEN "unconfirm" ELSE "restoreStatus"
             s == Step(kind, NoOne, NoId)
  <1>1. kind \in {"unconfirm", "restoreStatus"}
    OBVIOUS
  <1>2. /\ place \in Places /\ place # "undo"
        /\ job[h].op = "Confirm" => place = "save"
        /\ job[h].op # "Confirm" => place = "resources"
    BY DEF Places
  <1>3. /\ Record(h, s, place) /\ ~At(h, "undo") /\ job[h].pc = "commit"
        /\ UNCHANGED <<live, partner, gaps>>
    BY DEF Commit, vendor, history, At
  <1>4. IsCancel(h) => \A p \in Parents : status'[p] = Target(job[h].op)
    <2>1. IsCancel(h) => ~Unseen(h)
      <3>1. ~NoRows
        BY <1>3 DEF Books, Gone
      <3> QED
        BY <1>3, <3>1 DEF Promises, Aimed, Unseen, NoRows
    <2> QED
      BY <2>1 DEF Commit, IsCancel
  <1> HIDE DEF kind, place
  <1>5. s \in Steps /\ s.kind \notin {"cancelHandle", "deletePartner"}
    BY <1>1 DEF Step, Steps
  <1> HIDE DEF s
  <1>6. /\ job'[h].op = job[h].op /\ job'[h].pc = place /\ job'[h].rows = job[h].rows
        /\ job'[h].handles = job[h].handles
        /\ \A x, id : Held(job'[h], x, id) <=> Held(job[h], x, id)
    BY <1>2, <1>3, <1>5, RecordRecord DEF Recorded, TypeOK
  <1>10. Asked(h)' <=> Asked(h)
    BY <1>2, <1>3, <1>5, SagaMore, AskedMore DEF TypeOK
  <1>7. Told(h)'
    BY <1>2, <1>3, <1>6 DEF Promises, Told, Skipped, Involved, AfterPartners
  <1>8. Aimed(h)'
    BY <1>2, <1>4, <1>6 DEF Aimed, IsCancel, AfterCommit
  <1>9. Secured(h)' /\ Asking(h)'
    BY <1>2, <1>3, <1>6, <1>10 DEF Promises, Secured, Asking, Due, Loaded, Involved, Holding
  <1> QED
    BY <1>2, <1>6, <1>7, <1>8, <1>9 DEF Promises, Fulfilled

-----------------------------------------------------------------------------
(* Confirm. *)

LEMMA PromisesReserve ==
    ASSUME TypeOK, NEW h \in Handlers, Sound(job[h]), Books(h), Promises(h), NEW r \in Rows,
           Reserve(h, r)
    PROVE  Promises(h)'
  <1>0. JobOK /\ r.on \in Resources
    BY RowOn DEF TypeOK
  <1>1. PICK k \in 0..MaxFaults :
          Issue(r.on, k + 1) /\ RecordHandle(h, r, issued[r.on] + k + 1)
    BY DEF Reserve
  <1> DEFINE id == issued[r.on] + k + 1
             s == Step("cancelHandle", r.on, id)
             new == Fresh(r.on, k + 1)
  <1>2. k \in Nat /\ k + 1 \in Nat /\ k + 1 > 0 /\ issued[r.on] \in Nat
    BY <1>0, ConstantsAssumption DEF TypeOK, VendorOK
  <1>3. id \in Ids /\ id \in new /\ id # NoId
    <2>1. issued[r.on] + (k + 1) \in Ids
      BY <1>0, <1>1, <1>2, IssueOK DEF TypeOK
    <2>2. id = issued[r.on] + (k + 1) /\ id # NoId
      BY <1>2 DEF NoId
    <2> QED
      BY <1>2, <2>1, <2>2 DEF Fresh
  <1>4. live' = [live EXCEPT ![r.on] = @ \cup new]
    BY <1>1 DEF Issue
  <1>5. /\ RecordHandle(h, r, id) /\ job[h].pc = "reserve" /\ ~At(h, "undo")
        /\ UNCHANGED <<partner, status>> /\ gaps \subseteq gaps' /\ r \in job[h].todo
    BY <1>1 DEF Reserve, At, db, Gap
  <1> HIDE DEF id, new
  <1>6. (\A y \in Resources : live[y] \subseteq live'[y]) /\ id \in live'[r.on]
    BY <1>0, <1>3, <1>4 DEF TypeOK, VendorOK
  <1>7. s \in Steps /\ s.kind = "cancelHandle" /\ s.on = r.on /\ s.id = id
    BY <1>0, <1>3 DEF Step, Steps
  <1>8. /\ job'[h].op = job[h].op /\ job'[h].pc = "reserve"
        /\ job'[h].rows = job[h].rows /\ job'[h].todo = job[h].todo \ Slot(h, r)
        /\ job'[h].handles = Handled(h, r, id)
        /\ \A y, i : Held(job'[h], y, i) <=> Held(job[h], y, i) \/ (y = r.on /\ i = id)
    BY <1>0, <1>3, <1>5, <1>7, RecordHandleRecord DEF Recorded
  <1>9. Asked(h)' <=> Asked(h)
    BY <1>0, <1>3, <1>5, <1>7, SagaMore, AskedMore
  <1> HIDE DEF s
  <1>10. /\ \A q \in Rows : Handled(h, r, id)[q] # id => Handled(h, r, id)[q] = job[h].handles[q]
         /\ \A q \in Slot(h, r) : Handled(h, r, id)[q] = id
    <2>1. job[h].op = "Confirm"
      BY <1>5 DEF Sound, PlacesOf
    <2>2. job[h].todo \subseteq Rows
      BY <1>5, <2>1 DEF Books, Handed, Holding, Loaded
    <2> QED
      BY <1>5, <2>2, HandledFacts
  <1>11. ASSUME NEW q \in Loaded(h)', Due(h, q)', q \notin job'[h].todo, job[h].op = "Confirm"
         PROVE  job'[h].handles[q] # NoId
    <2>1. q \in Loaded(h) /\ Due(h, q) /\ q \in Rows
      BY <1>8, <1>9, <1>11 DEF Loaded, Due
    <2>2. q \in job[h].todo \/ job[h].handles[q] # NoId
      BY <1>5, <1>11, <2>1 DEF Promises, Secured, Holding
    <2>3. q \in job[h].todo => q \in Slot(h, r)
      BY <1>8, <1>11
    <2> QED
      BY <1>3, <1>8, <1>10, <2>1, <2>2, <2>3
  <1>12. Secured(h)'
    <2>1. ASSUME NEW x \in Resources, NEW i \in Ids, Held(job'[h], x, i), job[h].op = "Confirm"
          PROVE  i \in live'[x]
      <3>1. Held(job[h], x, i) => i \in live[x]
        BY <1>5, <2>1 DEF Promises, Secured, Holding
      <3> QED
        BY <1>6, <1>8, <2>1, <3>1
    <2> QED
      BY <1>8, <1>11, <2>1 DEF Secured
  <1>13. Told(h)'
    BY <1>5, <1>8 DEF Promises, Told, Skipped, Involved, AfterPartners
  <1>14. Asking(h)'
    BY <1>5, <1>9 DEF Promises, Asking, Involved, Holding
  <1> QED
    BY <1>8, <1>12, <1>13, <1>14 DEF Promises, Aimed, Fulfilled, AfterCommit

\* What a Confirm saves in a row that it read.
LEMMA SavedRow ==
    ASSUME TypeOK, NEW h \in Handlers, job[h].rows = mapping, NEW theirs, theirs \subseteq Rows,
           mapping' = Saved(Renewed(h, theirs), NewRows(h, theirs)), NEW r \in Rows
    PROVE  /\ mapping'[r] # NoRow /\ r \notin theirs /\ job[h].handles[r] = NoId =>
                 mapping'[r] = mapping[r]
           /\ mapping[r] = NoRow => mapping'[r] = NoRow
           /\ mapping[r] # NoRow /\ r \in theirs => mapping'[r] = Theirs
           /\ mapping[r] # NoRow /\ r \notin theirs /\ job[h].handles[r] # NoId =>
                 mapping'[r] = job[h].handles[r]
  <1> DEFINE c == NewRows(h, theirs)[r]
  <1>1. c = IF r \in theirs THEN Theirs ELSE job[h].handles[r]
    BY DEF NewRows
  <1>2. r \in Renewed(h, theirs) <=> mapping[r] # NoRow /\ c \notin {NoId, mapping[r]}
    BY DEF Renewed, Loaded
  <1>3. mapping'[r] = IF r \in Renewed(h, theirs) THEN c ELSE mapping[r]
    BY DEF Saved
  <1> HIDE DEF c
  <1> QED
    BY <1>1, <1>2, <1>3 DEF Theirs, NoId

LEMMA PromisesSaves ==
    ASSUME TypeOK, NEW h \in Handlers, Sound(job[h]), Books(h), Promises(h), SaveMappings(h)
    PROVE  Promises(h)'
  <1>0. JobOK
    BY DEF TypeOK
  <1>1. /\ job[h].pc = "save" /\ Answer(h, "ok") /\ UNCHANGED <<status, live, partner, gaps>>
        /\ ~At(h, "undo")
    BY DEF SaveMappings, At, vendor, history
  <1>2. job[h].op = "Confirm" /\ job[h].rows = mapping
    BY <1>1 DEF Sound, PlacesOf, Books, ReadOnce, Holding
  <1>3. PICK theirs \in Answering(h) : mapping' = Saved(Renewed(h, theirs), NewRows(h, theirs))
    BY DEF SaveMappings
  <1>4. /\ theirs \subseteq Rows
        /\ theirs # {} => Asked(h)
        /\ \A r \in theirs : ~Certain(r)
    BY <1>3 DEF Answering, Loaded, Certain
  <1>5. Asked(h) => Involved # {}
    BY <1>1 DEF Promises, Asking, Holding
  <1>6. ASSUME NEW r \in Rows, mapping'[r] # NoRow
        PROVE  Had(r)'
    <2>1. mapping[r] # NoRow /\ r \in Loaded(h)
      BY <1>2, <1>3, <1>4, <1>6, SavedRow DEF Loaded
    <2>2. Involved' = Involved /\ (Certain(r)' <=> Certain(r)) /\ live' = live
      BY <1>1 DEF Involved, Certain
    <2>3. CASE r \in theirs
      <3>1. mapping'[r] = Theirs
        BY <1>2, <1>3, <1>4, <2>1, <2>3, SavedRow
      <3> QED
        BY <1>4, <1>5, <2>2, <2>3, <3>1 DEF Had
    <2>4. CASE r \notin theirs /\ job[h].handles[r] # NoId
      <3>1. mapping'[r] = job[h].handles[r]
        BY <1>2, <1>3, <1>4, <2>1, <2>4, SavedRow
      <3>2. job[h].handles[r] \in Ids /\ Held(job[h], r.on, job[h].handles[r])
        BY <1>1, <1>2, <2>4 DEF Books, Handed, Holding
      <3>3. job[h].handles[r] \in live[r.on]
        BY <1>1, <1>2, <3>2, RowOn DEF Promises, Secured, Holding
      <3> QED
        BY <2>2, <3>1, <3>3 DEF Had
    <2>5. CASE job[h].handles[r] = NoId
      <3>1. ~Due(h, r)
        BY <1>1, <1>2, <2>1, <2>5 DEF Promises, Secured, Holding
      <3>2. r.on \in Ports
        BY <3>1, RowOn DEF Due, Resources
      <3> QED
        BY <1>5, <2>2, <3>1, <3>2 DEF Had, Due
    <2> QED
      BY <2>3, <2>4, <2>5
  <1>7. job'[h].op = "Confirm" /\ job'[h].pc = "idle"
    BY <1>0, <1>1, <1>2, AnswerRecord DEF Answers
  <1>8. \A p \in Parents : status[p] = "RESERVED"
    BY <1>1 DEF Books, Committed
  <1>9. Skipped' \/ \A e \in Involved' : partner'[e] = "RESERVED"
    BY <1>1, <1>2 DEF Promises, Told, Skipped, Involved, AfterPartners, Goal
  <1>10. Fulfilled(h)'
    BY <1>1, <1>6, <1>7, <1>8, <1>9 DEF Fulfilled, IsCancel, Goal
  <1> QED
    BY <1>7, <1>10 DEF Promises, Told, Aimed, Secured, Asking, AfterPartners, AfterCommit, Holding

LEMMA PromisesChecks ==
    ASSUME TypeOK, NEW h \in Handlers, Sound(job[h]), Books(h), Promises(h), Check(h)
    PROVE  Promises(h)'
  <1>1. PICK rs \in Sorted(h) : job' = [job EXCEPT ![h].pc = "reserve", ![h].todo = rs]
    BY DEF Check
  <1>2. job[h] \in Jobs /\ job'[h] = [job[h] EXCEPT !.pc = "reserve", !.todo = rs]
    BY <1>1 DEF TypeOK, JobOK
  <1>3. /\ job'[h].op = job[h].op /\ job'[h].rows = job[h].rows
        /\ job'[h].pc = "reserve" /\ job[h].pc = "check" /\ job'[h].saga = job[h].saga
        /\ job'[h].todo = rs /\ job[h].op = "Confirm"
        /\ UNCHANGED <<live, partner, gaps>>
    BY <1>2 DEF Check, Jobs, At, vendor, history, Sound, PlacesOf
  <1>4. (Asked(h)' <=> Asked(h)) /\ \A x, id : Held(job'[h], x, id) <=> Held(job[h], x, id)
    BY <1>3, AskedSame DEF Held, Standing
  <1>5. ASSUME NEW r \in Loaded(h), Due(h, r)
        PROVE  r \in rs
    <2>1. CASE ~Asked(h)
      BY <1>1, <1>5, <2>1 DEF Sorted
    <2>2. CASE Asked(h) /\ r.on \in Vehicles
      BY <1>1, <1>5, <2>2 DEF Sorted
    <2>3. CASE Asked(h) /\ r.on \notin Vehicles
      <3>1. Certain(r) /\ r.on \in Ports
        BY <1>5, <2>3, RowOn DEF Due, Loaded, Resources
      <3>2. PICK q \in Loaded(h) : SameKey(q, r) /\ (r \in rs <=> q.tag = "ours")
        BY <1>1, <1>5, <2>3, <3>1 DEF Sorted
      <3> QED
        BY <3>1, <3>2 DEF Certain, Loaded
    <2> QED
      BY <2>1, <2>2, <2>3
  <1>6. Loaded(h)' = Loaded(h) /\ \A r : Due(h, r)' <=> Due(h, r)
    BY <1>3, <1>4 DEF Loaded, Due, Certain
  <1>7. Told(h)' /\ Asking(h)'
    BY <1>3, <1>4 DEF Promises, Told, Asking, Skipped, Involved, AfterPartners
  <1>8. \A x \in Resources, id \in Ids : ~Held(job[h], x, id)
    BY <1>3 DEF Books, ReadOnce
  <1>9. Secured(h)'
    BY <1>3, <1>4, <1>5, <1>6, <1>8 DEF Secured
  <1> QED
    BY <1>3, <1>7, <1>9 DEF Promises, Aimed, Fulfilled, AfterCommit

LEMMA PromisesConfirming ==
    ASSUME TypeOK, NEW h \in Handlers, Sound(job[h]), Books(h), Promises(h), Confirming(h)
    PROVE  Promises(h)'
  <1>0. JobOK
    BY DEF TypeOK
  <1>1. CASE Check(h)
    BY <1>1, PromisesChecks
  <1>2. CASE CheckRefuses(h)
    BY <1>0, <1>2, PromisesRollback DEF CheckRefuses, At
  <1>3. ASSUME NEW r \in Rows, Reserve(h, r)
        PROVE  Promises(h)'
    BY <1>3, PromisesReserve
  <1>4. ASSUME NEW r \in Rows, ReserveFails(h, r)
        PROVE  Promises(h)'
    BY <1>0, <1>4, PromisesRollback DEF ReserveFails, At
  <1>5. CASE ReserveDone(h)
    <2>1. Goto(h, "parents") /\ ~At(h, "undo") /\ "parents" \in Places /\ job[h].pc = "reserve"
          /\ job[h].todo = {} /\ UNCHANGED <<live, partner, gaps>>
      BY <1>5 DEF ReserveDone, Places, vendor, history, At
    <2>2. /\ job'[h].op = job[h].op /\ job'[h].rows = job[h].rows /\ job'[h].pc = "parents"
          /\ job'[h].saga = job[h].saga /\ job'[h].handles = job[h].handles
          /\ \A x, id : Held(job'[h], x, id) <=> Held(job[h], x, id)
      BY <1>0, <2>1, GotoRecord DEF SameRecord
    <2>5. Asked(h)' <=> Asked(h)
      BY <2>2, AskedSame
    <2>3. Secured(h)'
      BY <2>1, <2>2, <2>5 DEF Promises, Secured, Due, Loaded, Holding
    <2>4. Told(h)' /\ Asking(h)'
      BY <2>1, <2>2, <2>5 DEF Promises, Told, Asking, Skipped, Involved, AfterPartners, Holding
    <2> QED
      BY <2>2, <2>3, <2>4 DEF Promises, Aimed, Fulfilled, AfterCommit
  <1>6. CASE SaveMappings(h)
    BY <1>6, PromisesSaves
  <1>7. CASE SaveMappingsFails(h)
    BY <1>0, <1>7, PromisesRollback DEF SaveMappingsFails, At
  <1> QED
    BY <1>1, <1>2, <1>3, <1>4, <1>5, <1>6, <1>7 DEF Confirming

-----------------------------------------------------------------------------
(* Cancel, Rescind and Delete. *)

\* A Cancel that goes on to its next stage with the rows and the partners as they were.
LEMMA PromisesOnward ==
    ASSUME NEW h \in Handlers, Sound(job[h]), Promises(h), job[h].pc \in AfterCommit,
           job'[h].pc \in AfterCommit, job'[h].op = job[h].op,
           UNCHANGED <<status, partner, gaps>>
    PROVE  Promises(h)'
  <1>1. Told(h)'
    BY DEF Promises, Told, Skipped, Involved, AfterPartners, AfterCommit
  <1>2. Aimed(h)'
    BY DEF Promises, Aimed, IsCancel, AfterCommit
  <1> QED
    BY <1>1, <1>2 DEF Promises, Secured, Asking, Fulfilled, AfterCommit, Holding

LEMMA PromisesSwept ==
    ASSUME TypeOK, NEW h \in Handlers, Sound(job[h]), Books(h), Promises(h), Answer(h, "ok"),
           job[h].pc \in {"reload", "clear"}, UNCHANGED <<status, live, lost, partner>>,
           gaps \subseteq gaps'
    PROVE  Promises(h)'
  <1>1. job'[h].op = job[h].op /\ job'[h].pc = "idle" /\ job[h].op \in {"Cancel", "Rescind"}
    BY AnswerRecord DEF Answers, Sound, PlacesOf, TypeOK
  <1>2. AllFreed' /\ \A p \in Parents : status'[p] = Target(job'[h].op)
    BY <1>1 DEF Books, Swept, AllFreed, Lost, Traceable, RowsOf, Promises, Aimed, AfterCommit, IsCancel
  <1>3. Skipped' \/ \A e \in Involved' : partner'[e] = Goal(job'[h].op)
    BY <1>1 DEF Promises, Told, Skipped, Involved, AfterPartners
  <1>4. Fulfilled(h)'
    BY <1>1, <1>2, <1>3 DEF Fulfilled
  <1> QED
    BY <1>1, <1>4 DEF Promises, Told, Aimed, Secured, Asking, AfterPartners, AfterCommit, Holding

LEMMA PromisesCancelling ==
    ASSUME TypeOK, NEW h \in Handlers, Sound(job[h]), Books(h), Promises(h), Cancelling(h)
    PROVE  Promises(h)'
  <1>0. JobOK
    BY DEF TypeOK
  <1>1. CASE LoadResources(h) \/ Reload(h)
    <2>1. /\ job[h].pc \in {"resources", "reload"} /\ job'[h].pc \in {"cancel", "clear"}
          /\ job'[h].op = job[h].op /\ UNCHANGED <<status, partner, gaps>>
      BY <1>0, <1>1, LoadRecord DEF LoadResources, Reload, At, db, history, SameRecord
    <2> QED
      BY <2>1, PromisesOnward DEF AfterCommit
  <1>2. CASE LoadResourcesFails(h) \/ DeleteFails(h) \/ ClearMappingsFails(h)
    BY <1>0, <1>2, PromisesRollback DEF LoadResourcesFails, DeleteFails, ClearMappingsFails, At
  <1>3. ASSUME NEW r \in Rows, CancelResource(h, r)
        PROVE  Promises(h)'
    <2> DEFINE s == Step("reReserve", r.on, NoId)
    <2>1. s \in Steps
      BY RowOn DEF Step, Steps
    <2>2. RecordDone(h, s, r) /\ job[h].pc = "cancel" /\ ~At(h, "undo")
          /\ UNCHANGED <<status, partner, gaps>>
      BY <1>3 DEF CancelResource, db, history, At
    <2> HIDE DEF s
    <2>3. job'[h].op = job[h].op /\ job'[h].pc = "cancel"
      BY <1>0, <2>1, <2>2, RecordDoneRecord DEF Recorded
    <2> QED
      BY <2>2, <2>3, PromisesOnward DEF AfterCommit
  <1>4. ASSUME NEW r \in Rows, CancelResourceFails(h, r)
        PROVE  Promises(h)'
    BY <1>0, <1>4, PromisesRollback DEF CancelResourceFails, At
  <1>5. CASE CancelDone(h)
    <2> DEFINE place == IF job[h].op = "Delete" THEN "deleteMaps" ELSE "reload"
    <2>1. /\ Goto(h, place) /\ ~At(h, "undo") /\ place \in Places /\ place # "undo"
          /\ place = "deleteMaps" => job[h].op = "Delete"
          /\ place \in {"deleteMaps", "reload"} /\ job[h].pc = "cancel"
          /\ UNCHANGED <<status, partner, gaps>>
      BY <1>5 DEF CancelDone, Places, At, db, history
    <2> HIDE DEF place
    <2>2. job'[h].op = job[h].op /\ job'[h].pc = place
      BY <1>0, <2>1, GotoRecord DEF SameRecord
    <2>3. CASE place = "deleteMaps"
      BY <2>1, <2>2, <2>3, PromisesDelete DEF Holding
    <2>4. CASE place = "reload"
      BY <2>1, <2>2, <2>4, PromisesOnward DEF AfterCommit
    <2> QED
      BY <2>1, <2>3, <2>4
  <1>6. CASE ReloadFails(h)
    <2>1. Answer(h, "ok") /\ UNCHANGED <<status, live, lost, partner>> /\ job[h].pc = "reload"
          /\ gaps \subseteq gaps'
      BY <1>6 DEF ReloadFails, db, vendor, At, Gap
    <2> QED
      BY <2>1, PromisesSwept
  <1>7. CASE ClearMappings(h)
    <2>1. Answer(h, "ok") /\ UNCHANGED <<status, live, lost, partner>> /\ job[h].pc = "clear"
          /\ gaps \subseteq gaps'
      BY <1>7 DEF ClearMappings, vendor, At, history
    <2> QED
      BY <2>1, PromisesSwept
  <1>8. CASE DeleteMappings(h)
    <2> DEFINE s == Step("insertMapping", NoOne, NoId)
    <2>1. s \in Steps /\ "deleteRows" \in Places
      BY DEF Step, Steps, Places
    <2>2. Record(h, s, "deleteRows") /\ ~At(h, "undo") /\ job[h].op = "Delete"
      BY <1>8 DEF DeleteMappings, At, Sound, PlacesOf
    <2> HIDE DEF s
    <2>3. job'[h].op = "Delete" /\ job'[h].pc = "deleteRows"
      BY <1>0, <2>1, <2>2, RecordRecord DEF Recorded
    <2> QED
      BY <2>3, PromisesDelete DEF Holding
  <1>9. CASE DeleteRows(h)
    <2>1. Answer(h, "ok") /\ job[h].op = "Delete"
      BY <1>9 DEF DeleteRows, At, Sound, PlacesOf
    <2> QED
      BY <1>0, <2>1, AnswerRecord, PromisesEnd DEF Answers
  <1> QED
    BY <1>1, <1>2, <1>3, <1>4, <1>5, <1>6, <1>7, <1>8, <1>9 DEF Cancelling

-----------------------------------------------------------------------------
(* Every step, and the theorems. *)

LEMMA PromisesArrive ==
    ASSUME TypeOK, NEW h \in Handlers, NEW o \in Operations, Arrive(h, o)
    PROVE  Promises(h)'
  <1>1. /\ job'[h].op = o /\ partner' = partner /\ job'[h].saga = <<>>
        /\ \/ job'[h].pc = "idle" /\ job'[h].answer # "ok"
           \/ job'[h].pc = "maps"
           \/ job'[h].pc = "partners" /\ o \notin {"Confirm", "Delete"} /\ job'[h].todo = Involved
    BY ArriveRecord DEF TypeOK, Arrive
  <1>2. CASE job'[h].pc = "partners"
    <2>1. (\A e \in Involved' : e \in job'[h].todo) /\ ~Asked(h)'
      BY <1>1, <1>2 DEF Involved, Asked
    <2> QED
      BY <1>2, <2>1 DEF Promises, Told, Aimed, Secured, Asking, Fulfilled, AfterPartners, AfterCommit, Holding
  <1> QED
    BY <1>1, <1>2, PromisesEnd

LEMMA PromisesKept ==
    ASSUME NEW h, Handlers = {h}, TypeOK, SoundInv, Books(h), Promises(h), [Next]_vars
    PROVE  Promises(h)'
  <1>1. h \in Handlers /\ Sound(job[h]) /\ \A g \in Handlers : g = h
    BY DEF SoundInv
  <1>2. CASE Progress(h)
    BY <1>1, <1>2, PromisesShared, PromisesCommit, PromisesConfirming, PromisesCancelling,
       PromisesUndo DEF Progress
  <1>3. ASSUME NEW o \in Operations, Arrive(h, o)
        PROVE  Promises(h)'
    BY <1>1, <1>3, PromisesArrive
  <1>4. CASE Disconnect(h)
    <2>1. UNCHANGED <<status, mapping, live, partner, lost, gaps>> /\ InUse(h)
      BY <1>4 DEF Disconnect, db, vendor, history
    <2>2. /\ job'[h].op = job[h].op /\ job'[h].seen = job[h].seen /\ job'[h].pc = job[h].pc
          /\ job'[h].rows = job[h].rows /\ job'[h].todo = job[h].todo
          /\ job'[h].saga = job[h].saga /\ job'[h].handles = job[h].handles
          /\ \A x, id : Held(job'[h], x, id) <=> Held(job[h], x, id)
      BY <1>1, <1>4, DisconnectRecord DEF SameRecord, TypeOK
    <2>3. Asked(h)' <=> Asked(h)
      BY <2>2, AskedSame
    <2>4. Told(h)' /\ Aimed(h)' /\ Asking(h)' /\ Fulfilled(h)'
      BY <2>1, <2>2, <2>3
      DEF Promises, Told, Aimed, Asking, Fulfilled, IsCancel, Skipped, Involved, InUse
    <2>5. Secured(h)'
      BY <2>1, <2>2, <2>3 DEF Promises, Secured, Due, Certain, Loaded
    <2> QED
      BY <2>4, <2>5 DEF Promises
  <1>5. CASE Crash
    <2>1. job'[h].pc = "idle" /\ job'[h].answer # "ok"
      BY <1>1, <1>5, CrashRecord DEF TypeOK
    <2> QED
      BY <1>1, <2>1, PromisesEnd
  <1>6. CASE UNCHANGED vars
    <2>1. UNCHANGED <<status, mapping, live, partner, job, lost, gaps>>
      BY <1>6 DEF vars
    <2>2. Told(h)' /\ Aimed(h)' /\ Asking(h)'
      BY <2>1 DEF Promises, Told, Aimed, Asking, Asked, IsCancel, Skipped, Involved
    <2>3. Secured(h)'
      BY <2>1 DEF Promises, Secured, Due, Certain, Loaded, Asked
    <2>4. Fulfilled(h)'
      BY <2>1 DEF Promises, Fulfilled, Had, Certain, Involved, IsCancel, Skipped, AllFreed,
         Traceable, RowsOf, Lost
    <2> QED
      BY <2>2, <2>3, <2>4 DEF Promises
  <1> QED
    BY <1>1, <1>2, <1>3, <1>4, <1>5, <1>6 DEF Next, Idle

LEMMA PromisesInit ==
    ASSUME NEW h, Handlers = {h}, Init
    PROVE  Promises(h)
  <1>1. job[h].pc = "idle" /\ job[h].answer = "none"
    BY DEF Init, Unused
  <1> QED
    BY <1>1 DEF Promises, Told, Aimed, Secured, Asking, Fulfilled, AfterPartners, AfterCommit, Holding

\* One request served at a time: every stage leaves behind what the next one counts on.
THEOREM PromisesAlways ==
    ASSUME NEW CONSTANT h, Handlers = {h}
    PROVE  Spec => []Promises(h)
  <1>1. Init => Promises(h)
    BY PromisesInit
  <1>2. TypeOK /\ SoundInv /\ Books(h) /\ Promises(h) /\ [Next]_vars => Promises(h)'
    BY PromisesKept
  <1> QED
    BY <1>1, <1>2, TypeCorrect, RecordsSound, BooksAlways, PTL DEF Spec

\* One request served at a time: a Confirm that answered ok has every partner it could find
\* in hand and in every row a live reservation, whatever failed and was retried on the way;
\* only where partners take part, a row that is not certain may have a partner's id, and one
\* of a port none.
THEOREM ConfirmedHeld ==
    ASSUME NEW CONSTANT h, Handlers = {h}
    PROVE  Spec => []ConfirmedIsHeld
  <1>1. Promises(h) => ConfirmedIsHeld
    BY DEF ConfirmedIsHeld, Promises, Fulfilled, Had, Quiet, InUse, Goal, Skipped
  <1> QED
    BY <1>1, PromisesAlways, PTL

\* One request served at a time: a Cancel or a Rescind that answered ok leaves nothing at its
\* vendor of a resource that can be given back but what was dropped at a named place, and
\* every parent and partner it could find in the target status.
THEOREM CancelledFree ==
    ASSUME NEW CONSTANT h, Handlers = {h}
    PROVE  Spec => []CancelledIsFree
  <1>1. Promises(h) => CancelledIsFree
    BY DEF CancelledIsFree, Promises, Fulfilled, Quiet, InUse, Goal, Skipped, AllFreed, Lost, IsCancel
  <1> QED
    BY <1>1, PromisesAlways, PTL

-----------------------------------------------------------------------------
(* The four places agree. *)

(* What a handler still knows how to undo, as sets of steps. *)

AllSteps(j)  == {j.saga[i] : i \in 1..Len(j.saga)}
LeftSteps(j) == {j.saga[i] : i \in 1..Standing(j)}
Has(steps, kind) == \E t \in steps : t.kind = kind
HasOn(steps, kind, on) == \E t \in steps : t.kind = kind /\ t.on = on
Wrote(steps) == Has(steps, "unconfirm") \/ Has(steps, "restoreStatus")

-----------------------------------------------------------------------------
(* The invariant.  While no gap was met, an operation that found the request in *)
(* status s finds each of the four places as it was, or a step in its record     *)
(* that puts it back.                                                           *)

Uniform(s) == [p \in Parents |-> s]
Early == {"maps", "partners", "check", "reserve", "parents", "commit"}

\* Column c of row r agrees with status s; a resource that is free was cancelled.
Fits(s, r, c, free) ==
    IF s = "RESERVED" THEN c # NoRow /\ (Certain(r) => c \in live[r.on] \/ free) ELSE c = NoId

StatusKept(j, s) ==
    /\ j.pc \in Early \/ j.op = "Delete" => status = Uniform(s)
    /\ j.pc = "commit" => j.seen = status
    /\ status = Uniform(s) \/ Wrote(LeftSteps(j))
    /\ Wrote(AllSteps(j)) => j.seen = Uniform(s)

PartnersKept(j, s) ==
    /\ \A e \in Involved :
          \/ partner[e] = s
          \/ HasOn(LeftSteps(j), "deletePartner", e) \/ HasOn(LeftSteps(j), "reconfirmPartner", e)
    /\ \A t \in AllSteps(j) : t.kind = "reconfirmPartner" => partner[t.on] # "PENDING"

\* A Confirm writes the table with its last step; a Delete puts back the rows it read.
RowKept(j, s, r) ==
    \/ Fits(s, r, mapping[r], HasOn(LeftSteps(j), "reReserve", r.on))
    \/ /\ Has(LeftSteps(j), "insertMapping") /\ mapping[r] = NoRow
       /\ Fits(s, r, j.rows[r], HasOn(LeftSteps(j), "reReserve", r.on))
TableKept(j, s) ==
    IF j.op = "Confirm" THEN \A r \in Rows : mapping[r] = NoId
    ELSE \A r \in Rows : RowKept(j, s, r)

RowsRead(j) ==
    j.pc = "clear" \/ (j.op = "Delete" /\ j.pc \in {"resources", "cancel", "deleteMaps"})
        => j.rows = mapping

\* Which status an operation starts from, and which steps it records.
Admitted(j, s) ==
    /\ j.op = "Confirm" => s = "PENDING"
    /\ j.op \in {"Cancel", "Rescind"} => s \in {"PENDING", "RESERVED"}
StepsOf(j) ==
    \A t \in AllSteps(j) :
        /\ t.kind = "cancelHandle" => j.op = "Confirm"
        /\ t.kind = "insertMapping" => j.op = "Delete"
        /\ t.kind \in {"deletePartner", "reconfirmPartner"} => j.op # "Delete"

Was(j, s) ==
    /\ StatusKept(j, s) /\ PartnersKept(j, s) /\ TableKept(j, s) /\ RowsRead(j)
    /\ Admitted(j, s) /\ StepsOf(j)

\* The request stands at status s, whatever a running operation has done meanwhile.
Stands(h, s) ==
    IF InUse(h) THEN s \in Statuses /\ Was(job[h], s)
    ELSE s \in Statuses \cup {"gone"} /\ Agreed(s)

Whole(h) == gaps = {} => lost = {} /\ \E s \in Statuses \cup {"gone"} : Stands(h, s)

\* The moves of RequestLifecycle.
Moves(s, t) ==
    \/ s = "PENDING" /\ t = "RESERVED"
    \/ s \in {"PENDING", "RESERVED"} /\ t \in {"CANCELED", "RESCINDED"}
    \/ s # "gone" /\ t = "gone"
Follows(h, s) == Stands(h, s)' \/ \E t \in Statuses \cup {"gone"} : Moves(s, t) /\ Stands(h, t)'

-----------------------------------------------------------------------------
(* Records. *)

LEMMA SameSteps ==
    ASSUME NEW j, NEW k, k.saga = j.saga, j.pc # "undo", k.pc # "undo" \/ k.left = Len(j.saga)
    PROVE  AllSteps(k) = AllSteps(j) /\ LeftSteps(k) = LeftSteps(j)
  BY DEF AllSteps, LeftSteps, Standing

LEMMA MoreSteps ==
    ASSUME NEW j, NEW k, NEW step \in Steps, j.saga \in Seq(Steps), k.saga = Append(j.saga, step),
           j.pc # "undo", k.pc # "undo"
    PROVE  /\ AllSteps(k) = AllSteps(j) \cup {step}
           /\ LeftSteps(k) = LeftSteps(j) \cup {step}
  <1> DEFINE old == j.saga
             n   == Len(old)
             new == Append(old, step)
  <1>1. /\ n \in Nat /\ Len(new) = n + 1 /\ new[n + 1] = step
        /\ \A i \in 1..n : new[i] = old[i]
    OBVIOUS
  <1>2. 1..(n + 1) = (1..n) \cup {n + 1}
    BY <1>1
  <1>3. LeftSteps(k) = {new[i] : i \in 1..(n + 1)} /\ AllSteps(k) = {new[i] : i \in 1..(n + 1)}
    BY <1>1 DEF LeftSteps, AllSteps, Standing
  <1>4. LeftSteps(j) = {old[i] : i \in 1..n} /\ AllSteps(j) = {old[i] : i \in 1..n}
    BY DEF LeftSteps, AllSteps, Standing
  <1> HIDE DEF n, new, old
  <1>5. {new[i] : i \in 1..(n + 1)} = {old[i] : i \in 1..n} \cup {step}
    BY <1>1, <1>2
  <1> QED
    BY <1>3, <1>4, <1>5

\* A step was recorded: what the records know, and which fields stay.
LEMMA Remembers ==
    ASSUME JobOK, NEW h \in Handlers, NEW step \in Steps, NEW x, RecordDone(h, step, x),
           ~At(h, "undo")
    PROVE  /\ AllSteps(job'[h]) = AllSteps(job[h]) \cup {step}
           /\ LeftSteps(job'[h]) = LeftSteps(job[h]) \cup {step}
           /\ job'[h].op = job[h].op /\ job'[h].pc = job[h].pc
           /\ job'[h].seen = job[h].seen /\ job'[h].rows = job[h].rows
  <1>1. /\ job'[h].op = job[h].op /\ job'[h].pc = job[h].pc
        /\ job'[h].seen = job[h].seen /\ job'[h].rows = job[h].rows
    BY RecordDoneRecord DEF Recorded
  <1>2. job'[h].saga = Append(job[h].saga, step) /\ job[h].saga \in Seq(Steps)
    BY SagaMore
  <1>3. job[h].pc # "undo" /\ job'[h].pc # "undo"
    BY <1>1 DEF At
  <1>4. /\ AllSteps(job'[h]) = AllSteps(job[h]) \cup {step}
        /\ LeftSteps(job'[h]) = LeftSteps(job[h]) \cup {step}
    BY <1>2, <1>3, MoreSteps
  <1> QED
    BY <1>1, <1>4

LEMMA RemembersHandle ==
    ASSUME JobOK, NEW h \in Handlers, NEW r \in Rows, NEW id \in Ids, RecordHandle(h, r, id),
           ~At(h, "undo")
    PROVE  LET step == Step("cancelHandle", r.on, id)
           IN  /\ AllSteps(job'[h]) = AllSteps(job[h]) \cup {step}
               /\ LeftSteps(job'[h]) = LeftSteps(job[h]) \cup {step}
               /\ job'[h].op = job[h].op /\ job'[h].pc = job[h].pc
               /\ job'[h].seen = job[h].seen /\ job'[h].rows = job[h].rows
  <1> DEFINE step == Step("cancelHandle", r.on, id)
  <1>1. step \in Steps
    BY RowOn DEF Step, Steps
  <1>2. /\ job'[h].op = job[h].op /\ job'[h].pc = job[h].pc
        /\ job'[h].seen = job[h].seen /\ job'[h].rows = job[h].rows
    BY RecordHandleRecord DEF Recorded
  <1>3. job'[h].saga = Append(job[h].saga, step) /\ job[h].saga \in Seq(Steps)
    BY <1>1, SagaMore
  <1> HIDE DEF step
  <1>4. job[h].pc # "undo" /\ job'[h].pc # "undo"
    BY <1>2 DEF At
  <1>5. /\ AllSteps(job'[h]) = AllSteps(job[h]) \cup {step}
        /\ LeftSteps(job'[h]) = LeftSteps(job[h]) \cup {step}
    BY <1>1, <1>3, <1>4, MoreSteps
  <1> QED
    BY <1>2, <1>5 DEF step

LEMMA RemembersOn ==
    ASSUME JobOK, NEW h \in Handlers, NEW step \in Steps, NEW place \in Places, place # "undo",
           Record(h, step, place), ~At(h, "undo")
    PROVE  /\ AllSteps(job'[h]) = AllSteps(job[h]) \cup {step}
           /\ LeftSteps(job'[h]) = LeftSteps(job[h]) \cup {step}
           /\ job'[h].op = job[h].op /\ job'[h].pc = place
           /\ job'[h].seen = job[h].seen /\ job'[h].rows = job[h].rows
  <1>1. /\ job'[h].op = job[h].op /\ job'[h].pc = place
        /\ job'[h].seen = job[h].seen /\ job'[h].rows = job[h].rows
    BY RecordRecord DEF Recorded
  <1>2. job'[h].saga = Append(job[h].saga, step) /\ job[h].saga \in Seq(Steps)
    BY SagaMore
  <1>3. job[h].pc # "undo" /\ job'[h].pc # "undo"
    BY <1>1 DEF At
  <1>4. /\ AllSteps(job'[h]) = AllSteps(job[h]) \cup {step}
        /\ LeftSteps(job'[h]) = LeftSteps(job[h]) \cup {step}
    BY <1>2, <1>3, MoreSteps
  <1> QED
    BY <1>1, <1>4

\* A Rollback begins: all steps are still to be undone.
LEMMA TurnsBack ==
    ASSUME JobOK, NEW h \in Handlers, NEW n \in 1..2, Rollback(h, n), ~At(h, "undo")
    PROVE  /\ AllSteps(job'[h]) = AllSteps(job[h]) /\ LeftSteps(job'[h]) = LeftSteps(job[h])
           /\ job'[h].op = job[h].op /\ job'[h].pc = "undo"
           /\ job'[h].seen = job[h].seen /\ job'[h].rows = job[h].rows
  <1>1. /\ job'[h].op = job[h].op /\ job'[h].pc = "undo" /\ job'[h].saga = job[h].saga
        /\ job'[h].seen = job[h].seen /\ job'[h].rows = job[h].rows
    BY RollbackRecord DEF SameRecord
  <1>2. job'[h].left = Len(job[h].saga)
    <2> DEFINE l == Len(job[h].saga)
    <2> HIDE DEF l
    <2>1. job'[h] = [job[h] EXCEPT !.pc = "undo", !.left = l, !.passes = n] /\ job[h] \in Jobs
      BY DEF Rollback, JobOK, l
    <2> QED
      BY <2>1 DEF Jobs, l
  <1> QED
    BY <1>1, <1>2, SameSteps DEF At

\* A step was undone: only that one is no longer left.
LEMMA Undone ==
    ASSUME JobOK, NEW h \in Handlers, Undoing(h), StepUndone(h)
    PROVE  /\ AllSteps(job'[h]) = AllSteps(job[h]) /\ Current(h) \in AllSteps(job[h])
           /\ \A t \in LeftSteps(job[h]) : t \in LeftSteps(job'[h]) \/ t = Current(h)
           /\ job'[h].op = job[h].op /\ job'[h].pc = "undo" /\ job[h].pc = "undo"
           /\ job'[h].seen = job[h].seen /\ job'[h].rows = job[h].rows
  <1> DEFINE l == job[h].left - 1
             old == job[h].saga
  <1>1. /\ job'[h].op = job[h].op /\ job'[h].pc = "undo" /\ job'[h].saga = job[h].saga
        /\ job'[h].seen = job[h].seen /\ job'[h].rows = job[h].rows /\ job[h].pc = "undo"
    BY UndoneRecord DEF Undoing, At
  <1>2. job[h] \in Jobs /\ job[h].left \in Nat /\ job[h].left > 0 /\ job[h].left <= Len(job[h].saga)
    BY JobFields DEF Undoing, JobOK
  <1>3. Len(job[h].saga) \in Nat
    BY JobFields DEF Sagas
  <1>4. job'[h].left = l
    <2>1. job'[h] = [job[h] EXCEPT !.left = @ - 1]
      BY DEF StepUndone, JobOK
    <2> QED
      BY <1>2, <2>1 DEF Jobs
  <1>5. Current(h) = old[job[h].left] /\ job[h].left \in 1..Len(old)
    BY <1>2, <1>3 DEF Current
  <1>6. \A i \in 1..job[h].left : i \in 1..l \/ i = job[h].left
    BY <1>2
  <1>7. LeftSteps(job[h]) = {old[i] : i \in 1..job[h].left} /\ LeftSteps(job'[h]) = {old[i] : i \in 1..l}
    BY <1>1, <1>4 DEF LeftSteps, Standing
  <1>8. AllSteps(job'[h]) = AllSteps(job[h]) /\ AllSteps(job[h]) = {old[i] : i \in 1..Len(old)}
    BY <1>1 DEF AllSteps
  <1> HIDE DEF l, old
  <1> QED
    BY <1>1, <1>5, <1>6, <1>7, <1>8

\* Without a record there is nothing left, nor anything tracked.
LEMMA NoSteps ==
    ASSUME JobOK, NEW h \in Handlers, job[h].saga = <<>>
    PROVE  LeftSteps(job[h]) = {} /\ AllSteps(job[h]) = {} /\ Tracked(h) = {}
  <1>1. Len(<<>>) = 0 /\ job[h].left \in Nat /\ job[h].left <= Len(job[h].saga)
    BY JobFields DEF JobOK
  <1>2. Standing(job[h]) = 0
    BY <1>1 DEF Standing
  <1> QED
    BY <1>1, <1>2 DEF LeftSteps, AllSteps, Tracked

-----------------------------------------------------------------------------
(* Steps that leave the four places alone. *)

Outside == <<status, mapping, live, partner>>

LEMMA WasStays ==
    ASSUME NEW h \in Handlers, NEW s, Was(job[h], s), UNCHANGED Outside,
           AllSteps(job'[h]) = AllSteps(job[h]), LeftSteps(job[h]) \subseteq LeftSteps(job'[h]),
           job'[h].op = job[h].op,
           job'[h].pc \in Early => job[h].pc \in Early,
           job'[h].pc = "commit" => job'[h].seen = status,
           job'[h].seen = job[h].seen \/ job'[h].seen = Uniform(s),
           Has(LeftSteps(job[h]), "insertMapping") => job'[h].rows = job[h].rows,
           RowsRead(job[h])'
    PROVE  Was(job[h], s)'
  <1>1. /\ \A kind : Has(LeftSteps(job[h]), kind) => Has(LeftSteps(job'[h]), kind)
        /\ \A kind, on : HasOn(LeftSteps(job[h]), kind, on) => HasOn(LeftSteps(job'[h]), kind, on)
    BY DEF Has, HasOn
  <1>2. StatusKept(job[h], s)'
    <2>1. Wrote(LeftSteps(job[h])) => Wrote(LeftSteps(job'[h]))
      BY <1>1 DEF Wrote
    <2>2. Wrote(AllSteps(job'[h])) <=> Wrote(AllSteps(job[h]))
      OBVIOUS
    <2>3. StatusKept(job[h], s) /\ status' = status
      BY DEF Was, Outside
    <2> QED
      BY <2>1, <2>2, <2>3 DEF StatusKept
  <1>3. PartnersKept(job[h], s)'
    BY <1>1 DEF Was, PartnersKept, Outside, Involved
  <1>4. TableKept(job[h], s)'
    <2>1. CASE job[h].op = "Confirm"
      BY <2>1 DEF Was, TableKept, Outside
    <2>2. CASE job[h].op # "Confirm"
      <3>1. ASSUME NEW r \in Rows
            PROVE  RowKept(job[h], s, r)'
        <4>1. RowKept(job[h], s, r) /\ UNCHANGED <<mapping, live>>
          BY <2>2 DEF Was, TableKept, Outside
        <4> QED
          BY <1>1, <4>1 DEF RowKept, Fits, Certain
      <3> QED
        BY <2>2, <3>1 DEF TableKept
    <2> QED
      BY <2>1, <2>2
  <1>5. Admitted(job[h], s)' /\ StepsOf(job[h])'
    BY DEF Was, Admitted, StepsOf
  <1> QED
    BY <1>2, <1>3, <1>4, <1>5 DEF Was

\* The operation moves to another place with the record and the copies it has.
LEMMA WasMoves ==
    ASSUME NEW h \in Handlers, NEW s \in Statuses, Stands(h, s), InUse(h), UNCHANGED Outside,
           AllSteps(job'[h]) = AllSteps(job[h]), LeftSteps(job[h]) \subseteq LeftSteps(job'[h]),
           job'[h].op = job[h].op, job'[h].seen = job[h].seen, job'[h].rows = job[h].rows,
           job'[h].pc # "idle",
           \/ job'[h].pc = job[h].pc
           \/ job'[h].pc \notin Early \cup {"clear", "resources", "cancel", "deleteMaps"}
           \/ job'[h].pc \in Early /\ job'[h].pc # "commit" /\ job[h].pc \in Early
           \/ job'[h].pc = "deleteMaps" /\ job[h].pc = "cancel"
    PROVE  Follows(h, s)
  <1>1. Was(job[h], s)
    BY DEF Stands
  <1>2. RowsRead(job[h])'
    BY <1>1 DEF Was, RowsRead, Outside, Early
  <1>3. job'[h].pc = "commit" => job'[h].seen = status
    BY <1>1 DEF Was, StatusKept, Early
  <1>4. job'[h].pc \in Early => job[h].pc \in Early
    BY DEF Early
  <1>5. Was(job[h], s)'
    BY <1>1, <1>2, <1>3, <1>4, WasStays
  <1> QED
    BY <1>5 DEF Follows, Stands, InUse

LEMMA StandsRollback ==
    ASSUME JobOK, NEW h \in Handlers, NEW s \in Statuses, Stands(h, s), InUse(h), UNCHANGED Outside,
           NEW n \in 1..2, Rollback(h, n), ~At(h, "undo")
    PROVE  Follows(h, s)
  <1>1. /\ AllSteps(job'[h]) = AllSteps(job[h]) /\ LeftSteps(job'[h]) = LeftSteps(job[h])
        /\ job'[h].op = job[h].op /\ job'[h].pc = "undo"
        /\ job'[h].seen = job[h].seen /\ job'[h].rows = job[h].rows
    BY TurnsBack
  <1>2. "undo" \notin Early \cup {"clear", "resources", "cancel", "deleteMaps"}
    BY DEF Early
  <1> QED
    BY <1>1, <1>2, WasMoves

-----------------------------------------------------------------------------
(* When nothing is left to be undone, the places agree on the status they had.  *)

LEMMA NothingLeft ==
    ASSUME TypeOK, NEW h \in Handlers, NEW s \in Statuses, Was(job[h], s), InUse(h), Books(h),
           lost = {}, LeftSteps(job[h]) = {}
    PROVE  Agreed(s)
  <1>1. /\ \A kind : ~Has(LeftSteps(job[h]), kind)
        /\ \A kind, on : ~HasOn(LeftSteps(job[h]), kind, on)
    BY DEF Has, HasOn
  <1>2. \A p \in Parents : status[p] = s
    BY <1>1 DEF Was, StatusKept, Wrote, Uniform
  <1>3. \A e \in Involved : partner[e] = s
    BY <1>1 DEF Was, PartnersKept
  <1>4. \A x \in Resources : Traceable(x) => \A id \in live[x] : InRow(mapping, x, id)
    <2>1. CASE job[h].op = "Confirm"
      <3>1. \A x, id : ~Held(job[h], x, id)
        BY DEF Held, LeftSteps
      <3> QED
        BY <2>1, <3>1 DEF Books, Booked, Busy, Lost
    <2>2. CASE job[h].op # "Confirm"
      BY <2>2 DEF Books, Mapped, Busy, Lost
    <2> QED
      BY <2>1, <2>2
  <1>5. s = "PENDING" => \A x \in Resources : live[x] = {}
    <2>1. CASE job[h].op = "Confirm"
      <3>1. \A x, id : ~Held(job[h], x, id)
        BY DEF Held, LeftSteps
      <3> QED
        BY <2>1, <3>1 DEF Books, Booked, Busy, Lost
    <2>2. CASE job[h].op # "Confirm"
      BY <1>2, <2>2, ConstantsAssumption DEF Books, Pending, AllLost, Busy, Lost
    <2> QED
      BY <2>1, <2>2
  <1>6. s # "RESERVED" => \A r \in Rows : mapping[r] = NoId
    BY <1>1 DEF Was, TableKept, RowKept, Fits
  <1>7. s = "RESERVED" =>
           \A r \in Rows : mapping[r] # NoRow /\ (Certain(r) => mapping[r] \in live[r.on])
    BY <1>1 DEF Was, TableKept, RowKept, Fits, Admitted
  <1>8. CASE s = "RESERVED"
    <2>1. \A x \in Resources : Traceable(x) => live[x] \subseteq {mapping[r] : r \in RowsOf(x)}
      BY <1>4 DEF InRow
    <2> QED
      BY <1>2, <1>3, <1>7, <1>8, <2>1 DEF Agreed
  <1>9. CASE s # "RESERVED"
    <2>1. \A x \in Resources : Traceable(x) => live[x] = {}
      <3>1. \A x \in Resources : \A id \in live[x] : id # NoId
        BY DEF TypeOK, VendorOK, Ids, NoId
      <3> QED
        BY <1>4, <1>6, <1>9, <3>1 DEF InRow, RowsOf
    <2>2. s # "gone"
      BY DEF Statuses
    <2> QED
      BY <1>2, <1>3, <1>5, <1>6, <1>9, <2>1, <2>2 DEF Agreed
  <1> QED
    BY <1>8, <1>9

LEMMA AgreedStays ==
    ASSUME NEW s, Agreed(s), UNCHANGED Outside
    PROVE  Agreed(s)'
  <1>1. UNCHANGED <<status, mapping, live, partner>>
    BY DEF Outside
  <1>2. /\ (\A r : Certain(r)' <=> Certain(r)) /\ (\A x : Traceable(x)' <=> Traceable(x))
        /\ (\A x : RowsOf(x)' = RowsOf(x)) /\ Involved' = Involved
    BY <1>1 DEF Certain, Traceable, RowsOf, Involved
  <1> QED
    BY <1>1, <1>2 DEF Agreed

\* Nobody is at work, and the four places agree.
LEMMA Rests ==
    ASSUME NEW h \in Handlers, NEW s, NEW t \in Statuses \cup {"gone"},
           job'[h].pc = "idle", Agreed(t)', t = s \/ Moves(s, t)
    PROVE  Follows(h, s)
  BY DEF Follows, Stands, InUse

LEMMA StandsFailed ==
    ASSUME TypeOK, NEW h \in Handlers, NEW s \in Statuses, Stands(h, s), InUse(h), Books(h),
           lost = {}, LeftSteps(job[h]) = {}, UNCHANGED Outside, job'[h].pc = "idle"
    PROVE  Follows(h, s)
  <1>1. Agreed(s)
    BY NothingLeft DEF Stands
  <1>2. Agreed(s)'
    BY <1>1, AgreedStays
  <1> QED
    BY <1>2, Rests

-----------------------------------------------------------------------------
(* The steps every operation shares. *)

LEMMA StandsLoads ==
    ASSUME TypeOK, NEW h \in Handlers, NEW s \in Statuses, Stands(h, s), Sound(job[h]), InUse(h),
           LoadMappings(h) \/ LoadResources(h) \/ Reload(h)
    PROVE  Follows(h, s)
  <1>0. JobOK /\ Was(job[h], s)
    BY DEF TypeOK, Stands
  <1>1. /\ job[h].pc \in {"maps", "resources", "reload"} /\ UNCHANGED Outside
        /\ LoadMappings(h) => job[h].pc = "maps"
        /\ ~LoadMappings(h) => job[h].pc # "maps"
        /\ LoadResources(h) => job[h].pc = "resources"
    BY DEF LoadMappings, LoadResources, Reload, At, db, vendor, Outside
  <1>2. job'[h].rows = mapping
    <2>1. LoadResources(h) => Read(h) = mapping
      BY <1>0, <1>1 DEF Read, Was, RowsRead
    <2> QED
      BY <1>0, <2>1, LoadRecord
  <1>3. /\ job'[h].op = job[h].op /\ job'[h].saga = job[h].saga /\ job'[h].seen = job[h].seen
        /\ job'[h].pc \in {"partners", "resources", "cancel", "clear"}
        /\ job'[h].pc = "partners" => job[h].pc = "maps"
    BY <1>0, <1>1, LoadRecord DEF SameRecord
  <1>4. AllSteps(job'[h]) = AllSteps(job[h]) /\ LeftSteps(job'[h]) = LeftSteps(job[h])
    BY <1>1, <1>3, SameSteps
  <1>5. Has(LeftSteps(job[h]), "insertMapping") => job'[h].rows = job[h].rows
    <2>1. CASE job[h].pc = "maps"
      <3>1. LeftSteps(job[h]) = {}
        BY <1>0, <2>1, NoSteps DEF Sound, PlacesOf
      <3> QED
        BY <3>1 DEF Has
    <2>2. CASE job[h].pc = "resources" /\ job[h].op = "Delete"
      BY <1>0, <1>2, <2>2 DEF Was, RowsRead
    <2>3. CASE job[h].pc \in {"resources", "reload"} /\ job[h].op # "Delete"
      <3>1. LeftSteps(job[h]) \subseteq AllSteps(job[h])
        BY <2>3 DEF LeftSteps, AllSteps, Standing
      <3> QED
        BY <1>0, <2>3, <3>1 DEF Was, StepsOf, Has
    <2>4. job[h].pc = "reload" => job[h].op # "Delete"
      BY DEF Sound, PlacesOf
    <2> QED
      BY <1>1, <2>1, <2>2, <2>3, <2>4
  <1>6. RowsRead(job[h])'
    BY <1>1, <1>2 DEF RowsRead, Outside
  <1>7. Was(job[h], s)'
    BY <1>0, <1>1, <1>3, <1>4, <1>5, <1>6, WasStays DEF Early
  <1> QED
    BY <1>3, <1>7 DEF Follows, Stands, InUse

LEMMA StandsLoadParents ==
    ASSUME TypeOK, NEW h \in Handlers, NEW s \in Statuses, Stands(h, s), InUse(h), LoadParents(h)
    PROVE  Follows(h, s)
  <1>1. job[h].pc = "parents" /\ UNCHANGED Outside /\ Was(job[h], s)
    BY DEF LoadParents, At, db, vendor, Outside, Stands
  <1>2. /\ job'[h].op = job[h].op /\ job'[h].saga = job[h].saga /\ job'[h].rows = job[h].rows
        /\ job'[h].seen = status /\ job'[h].pc = "commit"
    BY DEF LoadParents, JobOK, Jobs, TypeOK
  <1>3. AllSteps(job'[h]) = AllSteps(job[h]) /\ LeftSteps(job'[h]) = LeftSteps(job[h])
    BY <1>1, <1>2, SameSteps
  <1>4. status = Uniform(s)
    BY <1>1 DEF Was, StatusKept, Early
  <1>5. RowsRead(job[h])'
    BY <1>2 DEF RowsRead
  <1>6. Was(job[h], s)'
    BY <1>1, <1>2, <1>3, <1>4, <1>5, WasStays DEF Early
  <1> QED
    BY <1>2, <1>6 DEF Follows, Stands, InUse

\* One more step in the record keeps what is known of the partners and of the table.
LEMMA PartnersGrow ==
    ASSUME NEW h \in Handlers, NEW s, NEW step, PartnersKept(job[h], s), partner' = partner,
           AllSteps(job'[h]) = AllSteps(job[h]) \cup {step}, step.kind # "reconfirmPartner",
           LeftSteps(job'[h]) = LeftSteps(job[h]) \cup {step}
    PROVE  PartnersKept(job[h], s)'
  BY DEF PartnersKept, HasOn, Involved

LEMMA TableGrows ==
    ASSUME NEW h \in Handlers, NEW s, TableKept(job[h], s), mapping' = mapping, live' = live,
           LeftSteps(job[h]) \subseteq LeftSteps(job'[h]),
           job'[h].op = job[h].op, job'[h].rows = job[h].rows
    PROVE  TableKept(job[h], s)'
  <1>1. CASE job[h].op = "Confirm"
    BY <1>1 DEF TableKept
  <1>2. CASE job[h].op # "Confirm"
    <2>1. ASSUME NEW r \in Rows
          PROVE  RowKept(job[h], s, r)'
      <3>1. RowKept(job[h], s, r)
        BY <1>2 DEF TableKept
      <3>2. HasOn(LeftSteps(job[h]), "reReserve", r.on)
              => HasOn(LeftSteps(job'[h]), "reReserve", r.on)
        BY DEF HasOn
      <3>3. Has(LeftSteps(job[h]), "insertMapping") => Has(LeftSteps(job'[h]), "insertMapping")
        BY DEF Has
      <3> QED
        BY <3>1, <3>2, <3>3 DEF RowKept, Fits, Certain
    <2> QED
      BY <1>2, <2>1 DEF TableKept
  <1> QED
    BY <1>1, <1>2

LEMMA StandsPartner ==
    ASSUME TypeOK, NEW h \in Handlers, NEW s \in Statuses, Stands(h, s), Sound(job[h]), InUse(h),
           NEW e \in Partners, PartnerAgrees(h, e)
    PROVE  Follows(h, s)
  <1>0. JobOK /\ Was(job[h], s)
    BY DEF TypeOK, Stands
  <1> DEFINE step == Step(UndoOf(job[h].op), e, NoId)
  <1>1. /\ step \in Steps /\ step.kind = UndoOf(job[h].op) /\ step.on = e
        /\ step.kind \in {"deletePartner", "reconfirmPartner"}
    BY DEF Step, Steps, UndoOf
  <1>2. RecordDone(h, step, e) /\ job[h].pc = "partners" /\ ~At(h, "undo")
        /\ UNCHANGED <<status, mapping, live>>
    BY DEF PartnerAgrees, At, db, vendor
  <1> HIDE DEF step
  <1>3. /\ AllSteps(job'[h]) = AllSteps(job[h]) \cup {step}
        /\ LeftSteps(job'[h]) = LeftSteps(job[h]) \cup {step}
        /\ job'[h].op = job[h].op /\ job'[h].pc = "partners"
        /\ job'[h].seen = job[h].seen /\ job'[h].rows = job[h].rows
    BY <1>0, <1>1, <1>2, Remembers
  <1>4. /\ \A d \in Partners : d # e => partner'[d] = partner[d]
        /\ partner[e] # "none" /\ partner'[e] # "none"
        /\ partner'[e] # "PENDING"
    BY DEF PartnerAgrees, Settled, Open, Target, TypeOK, PartnerOK
  <1>5. StatusKept(job[h], s)'
    BY <1>0, <1>1, <1>2, <1>3 DEF Was, StatusKept, Wrote, Has, Early
  <1>6. PartnersKept(job[h], s)'
    <2>1. Involved' = Involved
      BY <1>4 DEF Involved
    <2>2. ASSUME NEW d \in Involved
          PROVE  \/ partner'[d] = s
                 \/ HasOn(LeftSteps(job'[h]), "deletePartner", d)
                 \/ HasOn(LeftSteps(job'[h]), "reconfirmPartner", d)
      <3>1. CASE d = e
        BY <1>1, <1>3, <3>1 DEF HasOn
      <3>2. CASE d # e
        BY <1>0, <1>3, <1>4, <3>2 DEF Was, PartnersKept, HasOn, Involved
      <3> QED
        BY <3>1, <3>2
    <2>3. ASSUME NEW t \in AllSteps(job'[h]), t.kind = "reconfirmPartner"
          PROVE  partner'[t.on] # "PENDING"
      <3>1. CASE t = step
        BY <1>1, <1>4, <3>1
      <3>2. CASE t \in AllSteps(job[h])
        <4>1. partner[t.on] # "PENDING" /\ t.on \in Partners
          <5>1. t \in Steps
            BY <1>0, <3>2, JobFields DEF AllSteps, Sagas
          <5> QED
            BY <1>0, <2>3, <3>2, <5>1 DEF Was, PartnersKept, Steps
        <4> QED
          BY <1>4, <4>1
      <3> QED
        BY <1>3, <2>3, <3>1, <3>2
    <2> QED
      BY <2>1, <2>2, <2>3 DEF PartnersKept
  <1>7. TableKept(job[h], s)'
    BY <1>0, <1>2, <1>3, TableGrows DEF Was
  <1>8. RowsRead(job[h])' /\ Admitted(job[h], s)' /\ StepsOf(job[h])'
    <2>1. job[h].op # "Delete"
      BY <1>2 DEF Sound, PlacesOf
    <2> QED
      BY <1>0, <1>1, <1>3, <2>1 DEF Was, RowsRead, Admitted, StepsOf
  <1>9. Was(job[h], s)'
    BY <1>5, <1>6, <1>7, <1>8 DEF Was
  <1> QED
    BY <1>3, <1>9 DEF Follows, Stands, InUse

LEMMA StandsCommit ==
    ASSUME TypeOK, NEW h \in Handlers, NEW s \in Statuses, Stands(h, s), Sound(job[h]), InUse(h),
           Commit(h)
    PROVE  Follows(h, s)
  <1>0. JobOK /\ Was(job[h], s)
    BY DEF TypeOK, Stands
  <1> DEFINE place == IF job[h].op = "Confirm" THEN "save" ELSE "resources"
             kind == IF job[h].op = "Confirm" THEN "unconfirm" ELSE "restoreStatus"
             step == Step(kind, NoOne, NoId)
  <1>1. /\ place \in Places /\ place # "undo" /\ place \notin Early
        /\ place \in {"save", "resources"} /\ kind \in {"unconfirm", "restoreStatus"}
    BY DEF Places, Early
  <1>2. Record(h, step, place) /\ job[h].pc = "commit" /\ ~At(h, "undo")
        /\ UNCHANGED <<mapping, live, partner>>
    BY DEF Commit, At, vendor
  <1> HIDE DEF place, kind
  <1>3. step \in Steps /\ step.kind = kind
    BY <1>1 DEF Step, Steps
  <1> HIDE DEF step
  <1>4. /\ AllSteps(job'[h]) = AllSteps(job[h]) \cup {step}
        /\ LeftSteps(job'[h]) = LeftSteps(job[h]) \cup {step}
        /\ job'[h].op = job[h].op /\ job'[h].pc = place
        /\ job'[h].seen = job[h].seen /\ job'[h].rows = job[h].rows
    BY <1>0, <1>1, <1>2, <1>3, RemembersOn
  <1>5. StatusKept(job[h], s)'
    <2>1. job[h].seen = Uniform(s) /\ job[h].op # "Delete"
      BY <1>0, <1>2 DEF Was, StatusKept, Early, Sound, PlacesOf
    <2>2. Wrote(LeftSteps(job'[h]))
      BY <1>1, <1>3, <1>4 DEF Wrote, Has
    <2> QED
      BY <1>1, <1>4, <2>1, <2>2 DEF StatusKept
  <1>6. PartnersKept(job[h], s)'
    BY <1>0, <1>1, <1>2, <1>3, <1>4, PartnersGrow DEF Was
  <1>7. TableKept(job[h], s)'
    BY <1>0, <1>2, <1>4, TableGrows DEF Was
  <1>8. RowsRead(job[h])' /\ Admitted(job[h], s)' /\ StepsOf(job[h])'
    <2>1. job[h].op # "Delete"
      BY <1>2 DEF Sound, PlacesOf
    <2> QED
      BY <1>0, <1>1, <1>3, <1>4, <2>1 DEF Was, RowsRead, Admitted, StepsOf
  <1>9. Was(job[h], s)'
    BY <1>5, <1>6, <1>7, <1>8 DEF Was
  <1> QED
    BY <1>1, <1>4, <1>9 DEF Follows, Stands, InUse

LEMMA StandsShared ==
    ASSUME TypeOK, NEW h \in Handlers, NEW s \in Statuses, Stands(h, s), Sound(job[h]), InUse(h),
           Books(h), lost = {}, gaps' = {}, Shared(h)
    PROVE  Follows(h, s)
  <1>0. JobOK
    BY DEF TypeOK
  <1>1. CASE LoadMappings(h)
    BY <1>1, StandsLoads
  <1>2. CASE TurnAway(h)
    <2>1. Answer(h, "failed") /\ UNCHANGED Outside /\ job[h].saga = <<>>
      BY <1>2 DEF TurnAway, At, Sound, PlacesOf, Outside, db, vendor
    <2> QED
      BY <1>0, <2>1, AnswerRecord, NoSteps, StandsFailed DEF Answers
  <1>3. ASSUME NEW e \in Partners, PartnerAgrees(h, e)
        PROVE  Follows(h, s)
    BY <1>3, StandsPartner
  <1>4. ASSUME NEW e \in Partners, PartnerRefuses(h, e)
        PROVE  Follows(h, s)
    <2>1. Rollback(h, 1) /\ UNCHANGED Outside /\ ~At(h, "undo")
      BY <1>4 DEF PartnerRefuses, At, Outside, db, vendor, Gap
    <2> QED
      BY <1>0, <2>1, StandsRollback
  <1>5. ASSUME NEW e \in Partners, PartnerSkipped(h, e)
        PROVE  Follows(h, s)
    BY <1>5 DEF PartnerSkipped, Gap
  <1>6. CASE PartnersDone(h)
    <2> DEFINE place == IF job[h].op = "Confirm" THEN "check" ELSE "parents"
    <2>1. /\ place \in Places /\ place # "undo" /\ Goto(h, place) /\ job[h].pc = "partners"
          /\ place \in Early /\ place # "commit" /\ place # "idle" /\ ~At(h, "undo")
          /\ UNCHANGED Outside /\ job[h].pc \in Early
      BY <1>6 DEF PartnersDone, Places, Early, At, Outside, db, vendor
    <2> HIDE DEF place
    <2>2. /\ job'[h].op = job[h].op /\ job'[h].saga = job[h].saga /\ job'[h].pc = place
          /\ job'[h].seen = job[h].seen /\ job'[h].rows = job[h].rows
      BY <1>0, <2>1, GotoRecord DEF SameRecord
    <2>3. AllSteps(job'[h]) = AllSteps(job[h]) /\ LeftSteps(job'[h]) = LeftSteps(job[h])
      BY <2>1, <2>2, SameSteps
    <2> QED
      BY <2>1, <2>2, <2>3, WasMoves
  <1>7. CASE LoadParents(h)
    BY <1>7, StandsLoadParents
  <1>8. CASE LoadParentsFails(h)
    <2>1. Answer(h, "failed") /\ UNCHANGED Outside /\ job[h].saga = <<>>
      BY <1>8 DEF LoadParentsFails, Gap, Outside, db, vendor
    <2> QED
      BY <1>0, <2>1, AnswerRecord, NoSteps, StandsFailed DEF Answers
  <1>9. CASE Commit(h)
    BY <1>9, StandsCommit
  <1>10. CASE CommitFails(h)
    <2>1. Rollback(h, 1) /\ UNCHANGED Outside /\ ~At(h, "undo")
      BY <1>10 DEF CommitFails, At, Outside, db, vendor
    <2> QED
      BY <1>0, <2>1, StandsRollback
  <1> QED
    BY <1>1, <1>2, <1>3, <1>4, <1>5, <1>6, <1>7, <1>8, <1>9, <1>10 DEF Shared

-----------------------------------------------------------------------------
(* Confirm. *)

LEMMA StandsReserve ==
    ASSUME TypeOK, NEW h \in Handlers, NEW s \in Statuses, Stands(h, s), Sound(job[h]), InUse(h),
           NEW r \in Rows, Reserve(h, r)
    PROVE  Follows(h, s)
  <1>0. JobOK /\ Was(job[h], s) /\ r.on \in Resources
    BY RowOn DEF TypeOK, Stands
  <1>1. PICK k \in 0..MaxFaults :
          Issue(r.on, k + 1) /\ RecordHandle(h, r, issued[r.on] + k + 1)
    BY DEF Reserve
  <1> DEFINE id == issued[r.on] + k + 1
             step == Step("cancelHandle", r.on, id)
  <1>2. id \in Ids
    <2>1. k \in Nat /\ k + 1 \in Nat /\ k + 1 > 0 /\ issued[r.on] \in Nat
      BY <1>0, ConstantsAssumption DEF TypeOK, VendorOK
    <2>2. issued[r.on] + (k + 1) \in Ids
      BY <1>0, <1>1, <2>1, IssueOK DEF TypeOK
    <2> QED
      BY <2>1, <2>2
  <1>3. /\ RecordHandle(h, r, id) /\ job[h].pc = "reserve" /\ ~At(h, "undo")
        /\ UNCHANGED <<status, mapping, partner>> /\ job[h].op = "Confirm"
    BY <1>1 DEF Reserve, At, db, Sound, PlacesOf
  <1> HIDE DEF id
  <1>4. step \in Steps /\ step.kind = "cancelHandle"
    BY <1>0, <1>2 DEF Step, Steps
  <1>5. /\ AllSteps(job'[h]) = AllSteps(job[h]) \cup {step}
        /\ LeftSteps(job'[h]) = LeftSteps(job[h]) \cup {step}
        /\ job'[h].op = job[h].op /\ job'[h].pc = "reserve"
        /\ job'[h].seen = job[h].seen /\ job'[h].rows = job[h].rows
    BY <1>0, <1>2, <1>3, <1>4, RemembersHandle
  <1> HIDE DEF step
  <1>6. StatusKept(job[h], s)'
    BY <1>0, <1>3, <1>4, <1>5 DEF Was, StatusKept, Wrote, Has, Early
  <1>7. PartnersKept(job[h], s)'
    BY <1>0, <1>3, <1>4, <1>5, PartnersGrow DEF Was
  <1>8. TableKept(job[h], s)'
    BY <1>0, <1>3, <1>5 DEF Was, TableKept
  <1>9. RowsRead(job[h])' /\ Admitted(job[h], s)' /\ StepsOf(job[h])'
    BY <1>0, <1>3, <1>4, <1>5 DEF Was, RowsRead, Admitted, StepsOf
  <1>10. Was(job[h], s)'
    BY <1>6, <1>7, <1>8, <1>9 DEF Was
  <1> QED
    BY <1>5, <1>10 DEF Follows, Stands, InUse

LEMMA StandsReserveFails ==
    ASSUME TypeOK, NEW h \in Handlers, NEW s \in Statuses, Stands(h, s), InUse(h), gaps' = {},
           NEW r \in Rows, ReserveFails(h, r)
    PROVE  Follows(h, s)
  <1>1. Rollback(h, 1) /\ ~At(h, "undo") /\ UNCHANGED <<status, mapping, partner>>
        /\ r.on \in Resources
    BY RowOn DEF ReserveFails, At, db
  <1>2. live' = live
    <2>1. PICK k \in 0..MaxFaults :
            Issue(r.on, k) /\ Gap(IF k = 0 THEN {} ELSE {"answerLost"})
      BY ConstantsAssumption DEF ReserveFails
    <2>2. k = 0
      BY <2>1 DEF Gap
    <2>3. Fresh(r.on, 0) = {}
      BY <1>1 DEF Fresh, TypeOK, VendorOK
    <2> QED
      BY <1>1, <2>1, <2>2, <2>3 DEF Issue, TypeOK, VendorOK
  <1>3. UNCHANGED Outside
    BY <1>1, <1>2 DEF Outside
  <1> QED
    BY <1>1, <1>3, StandsRollback DEF TypeOK

LEMMA StandsSaves ==
    ASSUME TypeOK, TypeOK', NEW h \in Handlers, NEW s \in Statuses, Stands(h, s), Sound(job[h]),
           InUse(h), Books(h), Books(h)', Promises(h)', lost' = {}, gaps' = {}, SaveMappings(h)
    PROVE  Follows(h, s)
  <1>1. /\ job[h].op = "Confirm" /\ job[h].rows = mapping /\ Answer(h, "ok")
        /\ Was(job[h], s) /\ job[h].pc = "save"
    BY DEF SaveMappings, At, Sound, PlacesOf, Books, ReadOnce, Holding, Stands
  <1>2. job'[h].pc = "idle" /\ job'[h].answer = "ok" /\ job'[h].op = "Confirm"
    BY <1>1, AnswerRecord DEF Answers, TypeOK
  <1>3. /\ \A p \in Parents : status'[p] = "RESERVED"
        /\ \A r \in Rows : mapping'[r] # NoRow => Had(r)'
        /\ \A e \in Involved' : partner'[e] = "RESERVED"
    BY <1>2 DEF Promises, Fulfilled, Skipped, Goal
  <1>4. \A x \in Resources : Traceable(x)' => \A id \in live'[x] : InRow(mapping', x, id)
    BY <1>2 DEF Books, Mapped, Busy, InUse, Lost, Traceable, RowsOf, InRow
  <1>5. ASSUME NEW r \in Rows
        PROVE  mapping'[r] # NoRow
    <2>1. PICK theirs \in Answering(h) :
              mapping' = Saved(Renewed(h, theirs), NewRows(h, theirs))
      BY DEF SaveMappings
    <2>2. mapping[r] = NoId /\ mapping[r] # NoRow /\ theirs \subseteq Rows
      BY <1>1, <2>1 DEF Was, TableKept, Answering, Loaded, NoId, NoRow
    <2>3. CASE r \in theirs
      BY <1>1, <2>1, <2>2, <2>3, SavedRow DEF Theirs, NoRow
    <2>4. CASE r \notin theirs /\ job[h].handles[r] # NoId
      <3>1. job[h].handles[r] \in Ids /\ mapping'[r] = job[h].handles[r]
        BY <1>1, <2>1, <2>2, <2>4, SavedRow DEF Books, Handed, Holding
      <3> QED
        BY <3>1 DEF Ids, NoRow
    <2>5. CASE r \notin theirs /\ job[h].handles[r] = NoId
      <3>1. mapping'[r] # mapping[r] => FALSE
        <4>1. NewRows(h, theirs)[r] = NoId
          BY <2>5 DEF NewRows
        <4>2. r \notin Renewed(h, theirs)
          BY <4>1 DEF Renewed
        <4> QED
          BY <2>1, <4>2 DEF Saved
      <3> QED
        BY <2>2, <3>1
    <2> QED
      BY <2>3, <2>4, <2>5
  <1>6. \A x \in Resources : Traceable(x)' => live'[x] \subseteq {mapping'[r] : r \in RowsOf(x)'}
    BY <1>4 DEF InRow, RowsOf
  <1>7. Agreed("RESERVED")'
    BY <1>3, <1>5, <1>6 DEF Agreed, Had
  <1>8. Moves(s, "RESERVED")
    BY <1>1 DEF Was, Admitted, Moves
  <1> QED
    BY <1>2, <1>7, <1>8, Rests DEF Statuses

LEMMA StandsConfirming ==
    ASSUME TypeOK, TypeOK', NEW h \in Handlers, NEW s \in Statuses, Stands(h, s), Sound(job[h]),
           InUse(h), Books(h), Books(h)', Promises(h)', lost' = {}, gaps' = {}, Confirming(h)
    PROVE  Follows(h, s)
  <1>0. JobOK
    BY DEF TypeOK
  <1>1. CASE Check(h)
    <2>1. /\ job'[h].op = job[h].op /\ job'[h].saga = job[h].saga /\ job'[h].pc = "reserve"
          /\ job'[h].seen = job[h].seen /\ job'[h].rows = job[h].rows /\ job[h].pc = "check"
          /\ UNCHANGED Outside
      <3>1. PICK rs : job' = [job EXCEPT ![h].pc = "reserve", ![h].todo = rs]
        BY <1>1 DEF Check
      <3>2. job[h] \in Jobs /\ job'[h] = [job[h] EXCEPT !.pc = "reserve", !.todo = rs]
        BY <1>0, <3>1 DEF JobOK
      <3> QED
        BY <1>1, <3>2 DEF Check, Jobs, At, Outside, db, vendor
    <2>2. AllSteps(job'[h]) = AllSteps(job[h]) /\ LeftSteps(job'[h]) = LeftSteps(job[h])
      BY <2>1, SameSteps
    <2> QED
      BY <2>1, <2>2, WasMoves DEF Early
  <1>2. CASE CheckRefuses(h)
    <2>1. Rollback(h, 1) /\ UNCHANGED Outside /\ ~At(h, "undo")
      BY <1>2 DEF CheckRefuses, At, Outside, db, vendor
    <2> QED
      BY <1>0, <2>1, StandsRollback
  <1>3. ASSUME NEW r \in Rows, Reserve(h, r)
        PROVE  Follows(h, s)
    BY <1>3, StandsReserve
  <1>4. ASSUME NEW r \in Rows, ReserveFails(h, r)
        PROVE  Follows(h, s)
    BY <1>4, StandsReserveFails
  <1>5. CASE ReserveDone(h)
    <2>1. /\ Goto(h, "parents") /\ job[h].pc = "reserve" /\ ~At(h, "undo") /\ UNCHANGED Outside
          /\ "parents" \in Places
      BY <1>5 DEF ReserveDone, Places, At, Outside, db, vendor
    <2>2. /\ job'[h].op = job[h].op /\ job'[h].saga = job[h].saga /\ job'[h].pc = "parents"
          /\ job'[h].seen = job[h].seen /\ job'[h].rows = job[h].rows
      BY <1>0, <2>1, GotoRecord DEF SameRecord
    <2>3. AllSteps(job'[h]) = AllSteps(job[h]) /\ LeftSteps(job'[h]) = LeftSteps(job[h])
      BY <2>1, <2>2, SameSteps
    <2> QED
      BY <2>1, <2>2, <2>3, WasMoves DEF Early
  <1>6. CASE SaveMappings(h)
    BY <1>6, StandsSaves
  <1>7. CASE SaveMappingsFails(h)
    <2>1. /\ Rollback(h, 1) /\ UNCHANGED <<status, live, partner>> /\ ~At(h, "undo")
          /\ \E theirs : mapping' = Saved({}, NewRows(h, theirs))
      BY <1>7 DEF SaveMappingsFails, At, vendor, Gap
    <2>2. mapping' = mapping
      BY <2>1 DEF Saved, TypeOK, RowsOK, Tables
    <2> QED
      BY <1>0, <2>1, <2>2, StandsRollback DEF Outside
  <1> QED
    BY <1>1, <1>2, <1>3, <1>4, <1>5, <1>6, <1>7 DEF Confirming

-----------------------------------------------------------------------------
(* Cancel, Rescind and Delete. *)

LEMMA StandsCancels ==
    ASSUME TypeOK, NEW h \in Handlers, NEW s \in Statuses, Stands(h, s), Sound(job[h]), InUse(h),
           NEW r \in Rows, CancelResource(h, r)
    PROVE  Follows(h, s)
  <1> DEFINE x == r.on
             step == Step("reReserve", x, NoId)
  <1>0. JobOK /\ Was(job[h], s) /\ x \in Resources
    BY RowOn DEF TypeOK, Stands
  <1>1. step \in Steps /\ step.kind = "reReserve" /\ step.on = x
    BY <1>0 DEF Step, Steps
  <1>2. /\ RecordDone(h, step, r) /\ job[h].pc = "cancel" /\ ~At(h, "undo")
        /\ UNCHANGED <<status, mapping, partner>> /\ job[h].op # "Confirm"
    BY DEF CancelResource, At, db, Sound, PlacesOf
  <1> HIDE DEF step
  <1>3. /\ AllSteps(job'[h]) = AllSteps(job[h]) \cup {step}
        /\ LeftSteps(job'[h]) = LeftSteps(job[h]) \cup {step}
        /\ job'[h].op = job[h].op /\ job'[h].pc = "cancel"
        /\ job'[h].seen = job[h].seen /\ job'[h].rows = job[h].rows
    BY <1>0, <1>1, <1>2, Remembers
  <1>4. /\ \A y \in Resources : y # x => live'[y] = live[y]
        /\ live'[x] \subseteq live[x]
    BY <1>0 DEF CancelResource, Release, TypeOK, VendorOK
  <1>5. StatusKept(job[h], s)'
    BY <1>0, <1>1, <1>2, <1>3 DEF Was, StatusKept, Wrote, Has, Early
  <1>6. PartnersKept(job[h], s)'
    BY <1>0, <1>1, <1>2, <1>3, PartnersGrow DEF Was
  <1>7. ASSUME NEW q \in Rows
        PROVE  RowKept(job[h], s, q)'
    <2>1. RowKept(job[h], s, q)
      BY <1>0, <1>2 DEF Was, TableKept
    <2>2. /\ HasOn(LeftSteps(job[h]), "reReserve", q.on) => HasOn(LeftSteps(job'[h]), "reReserve", q.on)
          /\ Has(LeftSteps(job[h]), "insertMapping") => Has(LeftSteps(job'[h]), "insertMapping")
          /\ HasOn(LeftSteps(job'[h]), "reReserve", x)
      BY <1>1, <1>3 DEF HasOn, Has
    <2>3. q.on \in Resources /\ (Certain(q)' <=> Certain(q))
      BY RowOn DEF Certain
    <2>4. CASE q.on # x
      BY <1>2, <1>3, <1>4, <2>1, <2>2, <2>3, <2>4 DEF RowKept, Fits
    <2>5. CASE q.on = x
      BY <1>2, <1>3, <1>4, <2>1, <2>2, <2>3, <2>5 DEF RowKept, Fits
    <2> QED
      BY <2>4, <2>5
  <1>8. TableKept(job[h], s)'
    BY <1>2, <1>3, <1>7 DEF TableKept
  <1>9. RowsRead(job[h])' /\ Admitted(job[h], s)' /\ StepsOf(job[h])'
    BY <1>0, <1>1, <1>2, <1>3 DEF Was, RowsRead, Admitted, StepsOf
  <1>10. Was(job[h], s)'
    BY <1>5, <1>6, <1>8, <1>9 DEF Was
  <1> QED
    BY <1>3, <1>10 DEF Follows, Stands, InUse

LEMMA StandsDeletes ==
    ASSUME TypeOK, NEW h \in Handlers, NEW s \in Statuses, Stands(h, s), Sound(job[h]), InUse(h),
           DeleteMappings(h)
    PROVE  Follows(h, s)
  <1>0. JobOK /\ Was(job[h], s)
    BY DEF TypeOK, Stands
  <1> DEFINE step == Step("insertMapping", NoOne, NoId)
  <1>1. step \in Steps /\ step.kind = "insertMapping" /\ "deleteRows" \in Places
    BY DEF Step, Steps, Places
  <1>2. /\ Record(h, step, "deleteRows") /\ job[h].pc = "deleteMaps" /\ ~At(h, "undo")
        /\ UNCHANGED <<status, live, partner>> /\ job[h].op = "Delete"
        /\ mapping' = [r \in Rows |-> NoRow]
    BY DEF DeleteMappings, At, vendor, Sound, PlacesOf
  <1> HIDE DEF step
  <1>3. /\ AllSteps(job'[h]) = AllSteps(job[h]) \cup {step}
        /\ LeftSteps(job'[h]) = LeftSteps(job[h]) \cup {step}
        /\ job'[h].op = job[h].op /\ job'[h].pc = "deleteRows"
        /\ job'[h].seen = job[h].seen /\ job'[h].rows = job[h].rows
    BY <1>0, <1>1, <1>2, RemembersOn
  <1>4. StatusKept(job[h], s)'
    BY <1>0, <1>1, <1>2, <1>3 DEF Was, StatusKept, Wrote, Has, Early
  <1>5. PartnersKept(job[h], s)'
    BY <1>0, <1>1, <1>2, <1>3, PartnersGrow DEF Was
  <1>6. ASSUME NEW q \in Rows
        PROVE  RowKept(job[h], s, q)'
    <2>1. RowKept(job[h], s, q) /\ job[h].rows = mapping /\ mapping'[q] = NoRow
      BY <1>0, <1>2 DEF Was, TableKept, RowsRead
    <2>2. /\ HasOn(LeftSteps(job[h]), "reReserve", q.on) => HasOn(LeftSteps(job'[h]), "reReserve", q.on)
          /\ Has(LeftSteps(job'[h]), "insertMapping")
      BY <1>1, <1>3 DEF HasOn, Has
    <2> QED
      BY <1>2, <1>3, <2>1, <2>2 DEF RowKept, Fits, Certain
  <1>7. TableKept(job[h], s)'
    BY <1>2, <1>3, <1>6 DEF TableKept
  <1>8. RowsRead(job[h])' /\ Admitted(job[h], s)' /\ StepsOf(job[h])'
    BY <1>0, <1>1, <1>2, <1>3 DEF Was, RowsRead, Admitted, StepsOf
  <1>9. Was(job[h], s)'
    BY <1>4, <1>5, <1>7, <1>8 DEF Was
  <1> QED
    BY <1>3, <1>9 DEF Follows, Stands, InUse

\* A Cancel that answers ok with an empty mapping table has cancelled everywhere.
LEMMA StandsCancelled ==
    ASSUME TypeOK, NEW h \in Handlers, NEW s \in Statuses, Stands(h, s), Sound(job[h]), InUse(h),
           Promises(h)', lost' = {}, gaps' = {}, job[h].pc \in {"reload", "clear"},
           Answer(h, "ok"), \A r \in Rows : mapping'[r] = NoId
    PROVE  Follows(h, s)
  <1>1. job[h].op \in {"Cancel", "Rescind"} /\ Was(job[h], s)
    BY DEF Sound, PlacesOf, Stands
  <1>2. job'[h].pc = "idle" /\ job'[h].answer = "ok" /\ job'[h].op = job[h].op
    BY AnswerRecord DEF Answers, TypeOK
  <1>3. PICK t \in {"CANCELED", "RESCINDED"} : t = Target(job[h].op)
    BY DEF Target
  <1>4. /\ \A p \in Parents : status'[p] = t
        /\ \A x \in Resources : Traceable(x)' => live'[x] = {}
        /\ \A e \in Involved' : partner'[e] = t
    BY <1>1, <1>2, <1>3
    DEF Promises, Fulfilled, Skipped, Goal, IsCancel, AllFreed, Lost, Traceable, RowsOf
  <1>5. Agreed(t)'
    BY <1>3, <1>4 DEF Agreed
  <1>6. Moves(s, t)
    BY <1>1, <1>3 DEF Was, Admitted, Moves
  <1> QED
    BY <1>2, <1>3, <1>5, <1>6, Rests DEF Statuses

LEMMA StandsCancelling ==
    ASSUME TypeOK, TypeOK', NEW h \in Handlers, NEW s \in Statuses, Stands(h, s), Sound(job[h]),
           InUse(h), Books(h), Promises(h)', lost = {}, lost' = {}, gaps' = {}, Cancelling(h)
    PROVE  Follows(h, s)
  <1>0. JobOK /\ Was(job[h], s)
    BY DEF TypeOK, Stands
  <1>1. CASE LoadResources(h) \/ Reload(h)
    BY <1>1, StandsLoads
  <1>2. CASE LoadResourcesFails(h) \/ DeleteFails(h)
    <2>1. Rollback(h, 1) /\ UNCHANGED Outside /\ ~At(h, "undo")
      BY <1>2 DEF LoadResourcesFails, DeleteFails, At, Outside, db, vendor
    <2> QED
      BY <1>0, <2>1, StandsRollback
  <1>3. ASSUME NEW r \in Rows, CancelResource(h, r)
        PROVE  Follows(h, s)
    BY <1>3, StandsCancels
  <1>4. ASSUME NEW r \in Rows, CancelResourceFails(h, r)
        PROVE  Follows(h, s)
    <2>1. Rollback(h, 2) /\ UNCHANGED Outside /\ ~At(h, "undo")
      BY <1>4 DEF CancelResourceFails, At, Outside, db, vendor, Gap
    <2> QED
      BY <1>0, <2>1, StandsRollback
  <1>5. CASE CancelDone(h)
    <2> DEFINE place == IF job[h].op = "Delete" THEN "deleteMaps" ELSE "reload"
    <2>1. /\ Goto(h, place) /\ job[h].pc = "cancel" /\ ~At(h, "undo") /\ UNCHANGED Outside
          /\ place \in Places /\ place # "undo" /\ place \in {"deleteMaps", "reload"}
      BY <1>5 DEF CancelDone, Places, At, Outside, db, vendor
    <2> HIDE DEF place
    <2>2. /\ job'[h].op = job[h].op /\ job'[h].saga = job[h].saga /\ job'[h].pc = place
          /\ job'[h].seen = job[h].seen /\ job'[h].rows = job[h].rows
      BY <1>0, <2>1, GotoRecord DEF SameRecord
    <2>3. AllSteps(job'[h]) = AllSteps(job[h]) /\ LeftSteps(job'[h]) = LeftSteps(job[h])
      BY <2>1, <2>2, SameSteps
    <2> QED
      BY <2>1, <2>2, <2>3, WasMoves DEF Early
  <1>6. CASE ReloadFails(h)
    <2>1. /\ Answer(h, "ok") /\ job[h].pc = "reload" /\ mapping' = mapping
          /\ \A r \in Rows : mapping[r] \in {NoRow, NoId}
      BY <1>6 DEF ReloadFails, At, db, Gap
    <2>2. ~Has(LeftSteps(job[h]), "insertMapping") /\ job[h].op # "Confirm"
      <3>1. job[h].op \in {"Cancel", "Rescind"} /\ LeftSteps(job[h]) \subseteq AllSteps(job[h])
        BY <2>1 DEF Sound, PlacesOf, LeftSteps, AllSteps, Standing
      <3> QED
        BY <1>0, <3>1 DEF Was, StepsOf, Has
    <2>3. \A r \in Rows : mapping[r] = NoId
      BY <1>0, <2>1, <2>2 DEF Was, TableKept, RowKept, Fits, NoRow, NoId
    <2> QED
      BY <2>1, <2>3, StandsCancelled
  <1>7. CASE ClearMappings(h)
    <2>1. /\ Answer(h, "ok") /\ job[h].pc = "clear" /\ job[h].rows = mapping
          /\ mapping' = Saved(Loaded(h), Cleared(h))
      BY <1>0, <1>7 DEF ClearMappings, At, Was, RowsRead
    <2>2. ~Has(LeftSteps(job[h]), "insertMapping") /\ job[h].op # "Confirm"
      <3>1. job[h].op \in {"Cancel", "Rescind"} /\ LeftSteps(job[h]) \subseteq AllSteps(job[h])
        BY <2>1 DEF Sound, PlacesOf, LeftSteps, AllSteps, Standing
      <3> QED
        BY <1>0, <3>1 DEF Was, StepsOf, Has
    <2>3. \A r \in Rows : mapping[r] # NoRow
      BY <1>0, <2>2 DEF Was, TableKept, RowKept, Fits, NoId, NoRow
    <2>4. \A r \in Rows : mapping'[r] = NoId
      BY <2>1, <2>3 DEF Saved, Loaded, Cleared
    <2> QED
      BY <2>1, <2>4, StandsCancelled
  <1>8. CASE ClearMappingsFails(h)
    <2>1. /\ Rollback(h, 1) /\ UNCHANGED Outside /\ ~At(h, "undo")
      BY <1>8 DEF ClearMappingsFails, At, vendor, Gap, Outside
    <2> QED
      BY <1>0, <2>1, StandsRollback
  <1>9. CASE DeleteMappings(h)
    BY <1>9, StandsDeletes
  <1>10. CASE DeleteRows(h)
    <2>1. /\ Answer(h, "ok") /\ UNCHANGED <<mapping, live, partner>>
          /\ \A p \in Parents : status'[p] = "gone"
          /\ \A r \in Rows : mapping[r] = NoRow
          /\ \A x \in Resources : Traceable(x) => live[x] = {}
          /\ job[h].op = "Delete"
      BY <1>10 DEF DeleteRows, At, vendor, Books, Swept, AllFreed, Lost, Sound, PlacesOf
    <2>2. job'[h].pc = "idle"
      BY <1>0, <2>1, AnswerRecord DEF Answers
    <2>4. \A e \in Involved : partner[e] = s
      <3>1. LeftSteps(job[h]) \subseteq AllSteps(job[h])
        BY <1>10 DEF DeleteRows, At, LeftSteps, AllSteps, Standing
      <3> QED
        BY <1>0, <2>1, <3>1 DEF Was, PartnersKept, StepsOf, HasOn
    <2>5. /\ Involved' = Involved /\ \A x : Traceable(x)' <=> Traceable(x)
      BY <2>1 DEF Involved, Traceable, RowsOf
    <2>3. Agreed("gone")' /\ Moves(s, "gone")
      BY <2>1, <2>4, <2>5 DEF Agreed, Moves, Statuses
    <2> QED
      BY <2>2, <2>3, Rests
  <1> QED
    BY <1>1, <1>2, <1>3, <1>4, <1>5, <1>6, <1>7, <1>8, <1>9, <1>10 DEF Cancelling

-----------------------------------------------------------------------------
(* Rollback: a step that was undone leaves its place as the operation found it. *)

LEMMA UndoneStatus ==
    ASSUME JobOK, NEW h \in Handlers, NEW s, Was(job[h], s), Undoing(h), StepUndone(h),
           UNCHANGED status, Current(h).kind \notin {"unconfirm", "restoreStatus"}
    PROVE  StatusKept(job[h], s)'
  <1>1. Wrote(LeftSteps(job[h])) => Wrote(LeftSteps(job'[h]))
    BY Undone DEF Wrote, Has
  <1>2. StatusKept(job[h], s) /\ job[h].pc = "undo" /\ job'[h].pc = "undo" /\ job'[h].op = job[h].op
        /\ job'[h].seen = job[h].seen /\ AllSteps(job'[h]) = AllSteps(job[h])
    BY Undone DEF Was
  <1> QED
    BY <1>1, <1>2 DEF StatusKept

LEMMA UndonePartners ==
    ASSUME JobOK, NEW h \in Handlers, NEW s, Was(job[h], s), Undoing(h), StepUndone(h),
           UNCHANGED partner, Current(h).kind \notin {"deletePartner", "reconfirmPartner"}
    PROVE  PartnersKept(job[h], s)'
  <1>1. \A on : \A kind \in {"deletePartner", "reconfirmPartner"} :
           HasOn(LeftSteps(job[h]), kind, on) => HasOn(LeftSteps(job'[h]), kind, on)
    BY Undone DEF HasOn
  <1>2. PartnersKept(job[h], s) /\ AllSteps(job'[h]) = AllSteps(job[h])
    BY Undone DEF Was
  <1> QED
    BY <1>1, <1>2 DEF PartnersKept, Involved

LEMMA UndoneTable ==
    ASSUME JobOK, NEW h \in Handlers, NEW s, Was(job[h], s), Undoing(h), StepUndone(h),
           UNCHANGED mapping,
           \/ job[h].op = "Confirm"
           \/ UNCHANGED live /\ Current(h).kind \notin {"reReserve", "insertMapping"}
    PROVE  TableKept(job[h], s)'
  <1>1. TableKept(job[h], s) /\ job'[h].op = job[h].op /\ job'[h].rows = job[h].rows
    BY Undone DEF Was
  <1>2. CASE job[h].op = "Confirm"
    BY <1>1, <1>2 DEF TableKept
  <1>3. CASE job[h].op # "Confirm"
    <2>1. ASSUME NEW r \in Rows
          PROVE  RowKept(job[h], s, r)'
      <3>1. /\ HasOn(LeftSteps(job[h]), "reReserve", r.on)
                  => HasOn(LeftSteps(job'[h]), "reReserve", r.on)
            /\ Has(LeftSteps(job[h]), "insertMapping") => Has(LeftSteps(job'[h]), "insertMapping")
        BY <1>3, Undone DEF HasOn, Has
      <3>2. RowKept(job[h], s, r) /\ mapping'[r] = mapping[r] /\ live' = live
        BY <1>1, <1>3 DEF TableKept
      <3> QED
        BY <1>1, <3>1, <3>2 DEF RowKept, Fits, Certain
    <2> QED
      BY <1>1, <1>3, <2>1 DEF TableKept
  <1> QED
    BY <1>2, <1>3

LEMMA StandsUndone ==
    ASSUME JobOK, NEW h \in Handlers, NEW s \in Statuses, Stands(h, s), Undoing(h), StepUndone(h),
           StatusKept(job[h], s)', PartnersKept(job[h], s)', TableKept(job[h], s)'
    PROVE  Follows(h, s)
  <1>1. Was(job[h], s)
    BY DEF Undoing, At, Stands, InUse
  <1>2. RowsRead(job[h])' /\ Admitted(job[h], s)' /\ StepsOf(job[h])' /\ job'[h].pc = "undo"
    BY <1>1, Undone DEF Was, RowsRead, Admitted, StepsOf
  <1> QED
    BY <1>1, <1>2 DEF Was, Follows, Stands, InUse

\* The undo steps that meet no gap; a partner to be confirmed again is never pending, since
\* it was cancelled and nobody else reopens it.
LEMMA GapFreeUndo ==
    ASSUME JobOK, NEW h \in Handlers, NEW s, Was(job[h], s), gaps' = {}, Undo(h)
    PROVE  \/ UndoReserve(h) \/ RestoreParents(h) \/ Unconfirm(h) \/ UndoDeleteMappings(h)
           \/ PassDone(h)
  <1>1. ~UndoCancel(h) /\ ~UndoPartnerConfirm(h) /\ ~UndoFails(h) /\ ~UndoUnanswered(h)
    BY DEF UndoCancel, UndoPartnerConfirm, UndoFails, UndoUnanswered, Gap
  <1>2. ASSUME UndoPartnerCancel(h)
        PROVE  FALSE
    <2>1. /\ Undoing(h) /\ StepUndone(h) /\ Current(h).kind = "reconfirmPartner"
          /\ partner[Current(h).on] = "PENDING"
      BY <1>2 DEF UndoPartnerCancel, UndoKind, Gap
    <2>2. Current(h) \in AllSteps(job[h])
      BY <2>1, Undone
    <2> QED
      BY <2>1, <2>2 DEF Was, PartnersKept
  <1> QED
    BY <1>1, <1>2 DEF Undo

LEMMA StandsRestored ==
    ASSUME TypeOK, NEW h \in Handlers, NEW s \in Statuses, Stands(h, s), Sound(job[h]),
           gaps' = {}, RestoreParents(h) \/ Unconfirm(h)
    PROVE  Follows(h, s)
  <1>0. JobOK /\ Was(job[h], s)
    BY DEF TypeOK, RestoreParents, Unconfirm, UndoKind, Undoing, At, Stands, InUse
  <1>1. /\ Undoing(h) /\ StepUndone(h) /\ UNCHANGED <<mapping, live, partner>>
        /\ Current(h).kind \in {"restoreStatus", "unconfirm"}
    BY DEF RestoreParents, Unconfirm, UndoKind, vendor
  <1>2. /\ Current(h) \in AllSteps(job[h]) /\ AllSteps(job'[h]) = AllSteps(job[h])
        /\ job'[h].seen = job[h].seen /\ job'[h].pc = "undo"
    BY <1>0, <1>1, Undone
  <1>3. Wrote(AllSteps(job[h])) /\ job[h].seen = Uniform(s)
    BY <1>0, <1>1, <1>2 DEF Was, StatusKept, Wrote, Has
  <1>4. status' = Uniform(s)
    <2>1. CASE RestoreParents(h)
      <3>1. ~Unseen(h)
        BY <1>3, ConstantsAssumption DEF Unseen, Uniform, Statuses
      <3> QED
        BY <1>3, <2>1, <3>1 DEF RestoreParents
    <2>2. CASE Unconfirm(h)
      <3>1. job[h].op = "Confirm" /\ s = "PENDING"
        <4>1. Current(h).kind = "unconfirm"
          BY <2>2 DEF Unconfirm, UndoKind
        <4> QED
          BY <1>0, <1>2, <4>1 DEF Sound, SagaOf, AllSteps, Was, Admitted
      <3>2. Parents = {Primary} /\ status' = [status EXCEPT ![Primary] = "PENDING"]
        BY <2>2 DEF Unconfirm, Gap
      <3>3. status \in Snapshots
        BY DEF TypeOK, RowsOK
      <3> QED
        BY <3>1, <3>2, <3>3 DEF Uniform, Snapshots
    <2> QED
      BY <2>1, <2>2
  <1>5. StatusKept(job[h], s)'
    BY <1>2, <1>3, <1>4 DEF StatusKept, Early
  <1>6. PartnersKept(job[h], s)' /\ TableKept(job[h], s)'
    BY <1>0, <1>1, UndonePartners, UndoneTable
  <1> QED
    BY <1>0, <1>1, <1>5, <1>6, StandsUndone

LEMMA StandsReinserted ==
    ASSUME TypeOK, NEW h \in Handlers, NEW s \in Statuses, Stands(h, s), UndoDeleteMappings(h)
    PROVE  Follows(h, s)
  <1>0. JobOK /\ Was(job[h], s)
    BY DEF TypeOK, UndoDeleteMappings, UndoKind, Undoing, At, Stands, InUse
  <1>1. /\ Undoing(h) /\ StepUndone(h) /\ UNCHANGED <<status, live, partner>>
        /\ Current(h).kind = "insertMapping"
        /\ \A r \in Loaded(h) : mapping[r] = NoRow
        /\ mapping' = Saved(Loaded(h), job[h].rows)
    BY DEF UndoDeleteMappings, UndoKind, vendor
  <1>2. StatusKept(job[h], s)' /\ PartnersKept(job[h], s)'
    BY <1>0, <1>1, UndoneStatus, UndonePartners
  <1>3. Current(h) \in AllSteps(job[h]) /\ job'[h].op = job[h].op /\ job'[h].rows = job[h].rows
    BY <1>0, <1>1, Undone
  <1>4. job[h].op = "Delete"
    BY <1>0, <1>1, <1>3 DEF Was, StepsOf
  <1>5. ASSUME NEW r \in Rows
        PROVE  RowKept(job[h], s, r)'
    <2>1. HasOn(LeftSteps(job[h]), "reReserve", r.on)
            => HasOn(LeftSteps(job'[h]), "reReserve", r.on)
      BY <1>0, <1>1, Undone DEF HasOn
    <2>2. RowKept(job[h], s, r) /\ (Certain(r)' <=> Certain(r))
      BY <1>0, <1>4 DEF Was, TableKept, Certain
    <2>3. NoRow # NoId
      BY DEF NoRow, NoId
    <2>4. CASE r \in Loaded(h)
      <3>1. mapping[r] = NoRow /\ mapping'[r] = job[h].rows[r]
        BY <1>1, <2>4 DEF Saved
      <3> QED
        BY <1>1, <1>3, <2>1, <2>2, <2>3, <3>1 DEF RowKept, Fits
    <2>5. CASE r \notin Loaded(h)
      <3>1. job[h].rows[r] = NoRow /\ mapping'[r] = mapping[r]
        BY <1>1, <2>5 DEF Saved, Loaded
      <3> QED
        BY <1>1, <1>3, <2>1, <2>2, <2>3, <3>1 DEF RowKept, Fits
    <2> QED
      BY <2>4, <2>5
  <1>6. TableKept(job[h], s)'
    BY <1>3, <1>4, <1>5 DEF TableKept
  <1> QED
    BY <1>0, <1>1, <1>2, <1>6, StandsUndone

LEMMA StandsUndo ==
    ASSUME TypeOK, NEW h \in Handlers, NEW s \in Statuses, Stands(h, s), Sound(job[h]), InUse(h),
           Books(h), lost = {}, gaps' = {}, Undo(h)
    PROVE  Follows(h, s)
  <1>0. JobOK /\ Was(job[h], s)
    BY DEF TypeOK, Stands
  <1>1. CASE UndoReserve(h)
    <2>1. /\ Undoing(h) /\ StepUndone(h) /\ UNCHANGED <<status, mapping, partner>>
          /\ Current(h).kind = "cancelHandle"
      BY <1>1 DEF UndoReserve, UndoKind, db
    <2>2. job[h].op = "Confirm"
      <3>1. Current(h) \in AllSteps(job[h])
        BY <1>0, <2>1, Undone
      <3> QED
        BY <1>0, <2>1, <3>1 DEF Was, StepsOf
    <2>3. StatusKept(job[h], s)' /\ PartnersKept(job[h], s)' /\ TableKept(job[h], s)'
      BY <1>0, <2>1, <2>2, UndoneStatus, UndonePartners, UndoneTable
    <2> QED
      BY <1>0, <2>1, <2>3, StandsUndone
  <1>2. CASE PassDone(h)
    <2>1. job[h].pc = "undo" /\ job[h].left = 0 /\ UNCHANGED Outside
      BY <1>2 DEF PassDone, At, Outside, db, vendor
    <2>2. LeftSteps(job[h]) = {}
      BY <2>1 DEF LeftSteps, Standing
    <2>3. CASE job[h].passes = 2
      <3> DEFINE l == Len(job[h].saga)
      <3> HIDE DEF l
      <3>1. job[h] \in Jobs /\ job'[h] = [job[h] EXCEPT !.passes = 1, !.left = l]
        BY <1>0, <1>2, <2>3 DEF PassDone, JobOK, l
      <3>2. /\ job'[h].op = job[h].op /\ job'[h].saga = job[h].saga /\ job'[h].pc = job[h].pc
            /\ job'[h].seen = job[h].seen /\ job'[h].rows = job[h].rows
        BY <3>1 DEF Jobs
      <3>3. AllSteps(job'[h]) = AllSteps(job[h])
        BY <3>2 DEF AllSteps
      <3>4. job'[h].pc # "idle"
        BY <2>1, <3>2
      <3> QED
        BY <2>1, <2>2, <3>2, <3>3, <3>4, WasMoves
    <2>4. CASE job[h].passes # 2
      <3>1. Answer(h, "failed")
        BY <1>2, <2>4 DEF PassDone
      <3>2. job'[h].pc = "idle"
        BY <1>0, <3>1, AnswerRecord DEF Answers
      <3> QED
        BY <2>1, <2>2, <3>2, StandsFailed
    <2> QED
      BY <2>3, <2>4
  <1> QED
    BY <1>0, <1>1, <1>2, GapFreeUndo, StandsRestored, StandsReinserted

-----------------------------------------------------------------------------
(* Arrival, disconnect and crash, and every step. *)

LEMMA EmptyRecord ==
    ASSUME NEW j, j.saga = <<>>, j.pc # "undo"
    PROVE  AllSteps(j) = {} /\ LeftSteps(j) = {}
  <1>1. Len(<<>>) = 0
    OBVIOUS
  <1> QED
    BY <1>1 DEF AllSteps, LeftSteps, Standing

LEMMA Undisturbed ==
    ASSUME NEW h \in Handlers, NEW s \in Statuses \cup {"gone"}, Agreed(s), UNCHANGED Outside,
           job'[h].pc = "idle"
    PROVE  Follows(h, s)
  <1>1. Agreed(s)'
    BY AgreedStays
  <1> QED
    BY <1>1, Rests

LEMMA StandsArrive ==
    ASSUME TypeOK, NEW h \in Handlers, NEW s \in Statuses \cup {"gone"}, Stands(h, s),
           NEW o \in Operations, Arrive(h, o)
    PROVE  Follows(h, s)
  <1>1. Agreed(s) /\ UNCHANGED Outside
    BY DEF Arrive, At, Stands, InUse, Outside, db, vendor
  <1>2. /\ job'[h].op = o /\ job'[h].saga = <<>>
        /\ \/ job'[h].pc = "idle"
           \/ Admits(o) /\ job'[h].pc \in {"maps", "partners"}
    BY ArriveRecord DEF TypeOK
  <1>3. CASE job'[h].pc = "idle"
    BY <1>1, <1>3, Undisturbed
  <1>4. CASE Admits(o) /\ job'[h].pc \in {"maps", "partners"}
    <2>1. \A p \in Parents : status[p] = s
      BY <1>1 DEF Agreed
    <2>2. /\ o = "Confirm" => s = "PENDING"
          /\ o \in {"Cancel", "Rescind"} => s \in {"PENDING", "RESERVED"}
          /\ s # "gone"
      BY <1>4, <2>1, ConstantsAssumption DEF Admits, NoRows, Operations
    <2>3. AllSteps(job'[h]) = {} /\ LeftSteps(job'[h]) = {}
      BY <1>2, <1>4, EmptyRecord
    <2>4. StatusKept(job[h], s)'
      <3>1. status = Uniform(s)
        BY <2>1 DEF TypeOK, RowsOK, Snapshots, Uniform
      <3> QED
        BY <1>1, <1>4, <2>3, <3>1 DEF StatusKept, Outside, Wrote, Has
    <2>5. PartnersKept(job[h], s)'
      <3>1. \A e \in Involved : partner[e] = s
        BY <1>1, <2>2 DEF Agreed
      <3> QED
        BY <1>1, <2>3, <3>1 DEF PartnersKept, Involved, Outside
    <2>6. ASSUME NEW r \in Rows
          PROVE  /\ s = "RESERVED" => mapping[r] # NoRow /\ (Certain(r) => mapping[r] \in live[r.on])
                 /\ s # "RESERVED" => mapping[r] = NoId
      BY <1>1, <2>2 DEF Agreed
    <2>7. TableKept(job[h], s)'
      BY <1>1, <1>2, <2>2, <2>6 DEF TableKept, RowKept, Fits, Outside, Certain
    <2>8. RowsRead(job[h])' /\ Admitted(job[h], s)' /\ StepsOf(job[h])'
      BY <1>2, <1>4, <2>2, <2>3 DEF RowsRead, Admitted, StepsOf
    <2>9. Was(job[h], s)'
      BY <2>4, <2>5, <2>7, <2>8 DEF Was
    <2> QED
      BY <1>4, <2>2, <2>9 DEF Follows, Stands, InUse
  <1> QED
    BY <1>2, <1>3, <1>4

LEMMA StandsDisconnect ==
    ASSUME TypeOK, NEW h \in Handlers, NEW s \in Statuses, Stands(h, s), Disconnect(h)
    PROVE  Follows(h, s)
  <1>1. InUse(h) /\ UNCHANGED Outside
    BY DEF Disconnect, Outside, db, vendor
  <1>2. /\ job'[h].op = job[h].op /\ job'[h].saga = job[h].saga /\ job'[h].pc = job[h].pc
        /\ job'[h].seen = job[h].seen /\ job'[h].rows = job[h].rows
        /\ job'[h].left = job[h].left
    <2>1. job[h] \in Jobs /\ job'[h] = [job[h] EXCEPT !.alive = FALSE]
      BY DEF Disconnect, JobOK, TypeOK
    <2> QED
      BY <2>1 DEF Jobs
  <1>3. AllSteps(job'[h]) = AllSteps(job[h]) /\ LeftSteps(job'[h]) = LeftSteps(job[h])
    BY <1>2 DEF AllSteps, LeftSteps, Standing
  <1> QED
    BY <1>1, <1>2, <1>3, WasMoves DEF InUse

LEMMA StandsCrash ==
    ASSUME TypeOK, NEW h \in Handlers, NEW s \in Statuses \cup {"gone"}, Stands(h, s), Books(h),
           lost = {}, gaps' = {}, Crash
    PROVE  Follows(h, s)
  <1>1. UNCHANGED Outside /\ job[h].saga = <<>> /\ job'[h].pc = "idle"
    BY CrashRecord DEF Crash, Gap, Outside, db, vendor, TypeOK
  <1>2. CASE InUse(h)
    <2>1. LeftSteps(job[h]) = {} /\ s \in Statuses
      BY <1>1, <1>2, NoSteps DEF TypeOK, Stands
    <2> QED
      BY <1>1, <1>2, <2>1, StandsFailed
  <1>3. CASE ~InUse(h)
    BY <1>1, <1>3, Undisturbed DEF Stands
  <1> QED
    BY <1>2, <1>3

LEMMA StandsUnchanged ==
    ASSUME NEW h \in Handlers, NEW s \in Statuses \cup {"gone"}, Stands(h, s), UNCHANGED vars
    PROVE  Follows(h, s)
  <1>1. UNCHANGED Outside /\ job' = job
    BY DEF vars, Outside
  <1>2. CASE InUse(h)
    <2>1. s \in Statuses /\ job[h].pc # "idle"
      BY <1>2 DEF Stands, InUse
    <2> QED
      BY <1>1, <1>2, <2>1, WasMoves
  <1>3. CASE ~InUse(h)
    BY <1>1, <1>3, Undisturbed DEF Stands, InUse
  <1> QED
    BY <1>2, <1>3

LEMMA AtWork ==
    ASSUME NEW h \in Handlers, Progress(h)
    PROVE  InUse(h)
  <1>1. CASE Shared(h)
    BY <1>1 DEF Shared, InUse, At, LoadMappings, TurnAway, PartnerAgrees, PartnerRefuses,
       PartnerSkipped, PartnersDone, LoadParents, LoadParentsFails, Commit, CommitFails
  <1>2. CASE Confirming(h)
    BY <1>2 DEF Confirming, InUse, At, Check, CheckRefuses, Reserve, ReserveFails, ReserveDone,
       SaveMappings, SaveMappingsFails
  <1>3. CASE Cancelling(h)
    BY <1>3 DEF Cancelling, InUse, At, LoadResources, LoadResourcesFails, CancelResource,
       CancelResourceFails, CancelDone, Reload, ReloadFails, ClearMappings, ClearMappingsFails,
       DeleteMappings, DeleteRows, DeleteFails
  <1>4. CASE Undo(h)
    BY <1>4 DEF Undo, InUse, At, UndoReserve, UndoCancel, UndoPartnerConfirm, UndoPartnerCancel,
       RestoreParents, Unconfirm, UndoDeleteMappings, UndoFails, UndoUnanswered, PassDone,
       UndoKind, Undoing
  <1> QED
    BY <1>1, <1>2, <1>3, <1>4 DEF Progress

LEMMA EveryStep ==
    ASSUME NEW h, Handlers = {h}, TypeOK, TypeOK', SoundInv, Books(h), Books(h)', Promises(h)',
           lost = {}, lost' = {}, gaps' = {}, NEW s \in Statuses \cup {"gone"}, Stands(h, s),
           [Next]_vars
    PROVE  Follows(h, s)
  <1>1. h \in Handlers /\ Sound(job[h]) /\ \A g \in Handlers : g = h
    BY DEF SoundInv
  <1>2. CASE Progress(h)
    <2>1. InUse(h) /\ s \in Statuses
      BY <1>1, <1>2, AtWork DEF Stands
    <2> QED
      BY <1>1, <1>2, <2>1, StandsShared, StandsConfirming, StandsCancelling, StandsUndo
      DEF Progress
  <1>3. ASSUME NEW o \in Operations, Arrive(h, o)
        PROVE  Follows(h, s)
    BY <1>1, <1>3, StandsArrive
  <1>4. CASE Disconnect(h)
    <2>1. s \in Statuses
      BY <1>4 DEF Disconnect, Stands
    <2> QED
      BY <1>1, <1>4, <2>1, StandsDisconnect
  <1>5. CASE Crash
    BY <1>1, <1>5, StandsCrash
  <1>6. CASE UNCHANGED vars
    BY <1>1, <1>6, StandsUnchanged
  <1> QED
    BY <1>1, <1>2, <1>3, <1>4, <1>5, <1>6 DEF Next, Idle

-----------------------------------------------------------------------------
(* The history variables. *)

\* A gap is never forgotten.
LEMMA GapsGrow ==
    ASSUME [Next]_vars
    PROVE  gaps \subseteq gaps'
  <1>1. ASSUME NEW h \in Handlers, Shared(h)
        PROVE  gaps \subseteq gaps'
    BY <1>1 DEF Shared, LoadMappings, TurnAway, PartnerAgrees, PartnerRefuses, PartnerSkipped,
       PartnersDone, LoadParents, LoadParentsFails, Commit, CommitFails, history, Gap, NoGap
  <1>2. ASSUME NEW h \in Handlers, Confirming(h)
        PROVE  gaps \subseteq gaps'
    BY <1>2 DEF Confirming, Check, CheckRefuses, Reserve, ReserveFails, ReserveDone,
       SaveMappings, SaveMappingsFails, history, Gap
  <1>3. ASSUME NEW h \in Handlers, Cancelling(h)
        PROVE  gaps \subseteq gaps'
    BY <1>3 DEF Cancelling, LoadResources, LoadResourcesFails, CancelResource,
       CancelResourceFails, CancelDone, Reload, ReloadFails, ClearMappings, ClearMappingsFails,
       DeleteMappings, DeleteRows, DeleteFails, history, Gap
  <1>4. ASSUME NEW h \in Handlers, Undo(h)
        PROVE  gaps \subseteq gaps'
    BY <1>4 DEF Undo, UndoReserve, UndoCancel, UndoPartnerConfirm, UndoPartnerCancel,
       RestoreParents, Unconfirm, UndoDeleteMappings, UndoFails, UndoUnanswered, PassDone,
       history, Gap
  <1>5. ASSUME NEW h \in Handlers, NEW o \in Operations, Arrive(h, o)
        PROVE  gaps \subseteq gaps'
    BY <1>5 DEF Arrive, history
  <1>6. ASSUME NEW h \in Handlers, Disconnect(h)
        PROVE  gaps \subseteq gaps'
    BY <1>6 DEF Disconnect, history
  <1>7. CASE Crash
    BY <1>7 DEF Crash, Gap
  <1>8. CASE UNCHANGED vars
    BY <1>8 DEF vars
  <1> QED
    BY <1>1, <1>2, <1>3, <1>4, <1>5, <1>6, <1>7, <1>8 DEF Next, Idle, Progress

\* No attempt is lost before the first answer.
LEMMA NothingFresh ==
    ASSUME TypeOK, NEW x \in Resources
    PROVE  {x} \X Fresh(x, 0) = {}
  <1>1. issued[x] \in Nat
    BY ConstantsAssumption DEF TypeOK, VendorOK
  <1>2. Fresh(x, 0) = {}
    BY <1>1 DEF Fresh
  <1> QED
    BY <1>2

\* What the program drops, it drops at a gap.
LEMMA LostAtGap ==
    ASSUME NEW h, Handlers = {h}, TypeOK, lost = {}, gaps' = {}, [Next]_vars
    PROVE  lost' = {}
  <1>1. h \in Handlers /\ \A g \in Handlers : g = h
    OBVIOUS
  <1>2. CASE Shared(h)
    <2>1. CASE LoadParentsFails(h)
      <3>1. job[h].saga = <<>>
        BY <2>1 DEF LoadParentsFails, Gap
      <3>2. Tracked(h) = {}
        BY <1>1, <3>1, NoSteps DEF TypeOK
      <3> QED
        BY <2>1, <3>2 DEF LoadParentsFails
    <2>2. CASE ~LoadParentsFails(h)
      BY <1>2, <2>2 DEF Shared, LoadMappings, TurnAway, PartnerAgrees, PartnerRefuses,
         PartnerSkipped, PartnersDone, LoadParents, Commit, CommitFails, history, NoGap
    <2> QED
      BY <2>1, <2>2
  <1>3. CASE Confirming(h)
    <2>1. ASSUME NEW r \in Rows, Reserve(h, r) \/ ReserveFails(h, r)
          PROVE  lost' = {}
      <3>1. PICK k : lost' = lost \cup ({r.on} \X Fresh(r.on, k)) /\ Gap(IF k = 0 THEN {} ELSE {"answerLost"})
        BY <2>1 DEF Reserve, ReserveFails
      <3>2. k = 0
        BY <3>1 DEF Gap
      <3> QED
        BY <3>1, <3>2, RowOn, NothingFresh
    <2>2. CASE \A r \in Rows : ~Reserve(h, r) /\ ~ReserveFails(h, r)
      BY <1>3, <2>2 DEF Confirming, Check, CheckRefuses, ReserveDone, SaveMappings,
         SaveMappingsFails, history
    <2> QED
      BY <2>1, <2>2
  <1>4. CASE Cancelling(h)
    BY <1>4 DEF Cancelling, LoadResources, LoadResourcesFails, CancelResource,
       CancelResourceFails, CancelDone, Reload, ReloadFails, ClearMappings, ClearMappingsFails,
       DeleteMappings, DeleteRows, DeleteFails, history
  <1>5. CASE Undo(h)
    BY <1>5 DEF Undo, UndoReserve, UndoCancel, UndoPartnerConfirm, UndoPartnerCancel,
       RestoreParents, Unconfirm, UndoDeleteMappings, UndoFails, UndoUnanswered, PassDone,
       history, Gap
  <1>6. ASSUME NEW o \in Operations, Arrive(h, o)
        PROVE  lost' = {}
    BY <1>6 DEF Arrive, history
  <1>7. CASE Disconnect(h)
    BY <1>7 DEF Disconnect, history
  <1>8. CASE Crash
    <2>1. job[h].saga = <<>>
      BY <1>1, <1>8 DEF Crash, Gap
    <2>2. Tracked(h) = {}
      BY <1>1, <2>1, NoSteps DEF TypeOK
    <2> QED
      BY <1>1, <1>8, <2>2 DEF Crash
  <1>9. CASE UNCHANGED vars
    BY <1>9 DEF vars
  <1> QED
    BY <1>1, <1>2, <1>3, <1>4, <1>5, <1>6, <1>7, <1>8, <1>9 DEF Next, Idle, Progress

-----------------------------------------------------------------------------
(* The theorems. *)

LEMMA StandsInit ==
    ASSUME NEW h, Handlers = {h}, Init
    PROVE  Stands(h, "PENDING") /\ gaps = {} /\ lost = {}
  <1>1. job[h].pc = "idle"
    BY DEF Init, Unused
  <1>2. Agreed("PENDING")
    BY DEF Init, Agreed, Involved
  <1> QED
    BY <1>1, <1>2 DEF Stands, InUse, Statuses, Init

LEMMA WholeKept ==
    ASSUME NEW h, Handlers = {h}, TypeOK, TypeOK', SoundInv, Books(h), Books(h)', Promises(h)',
           Whole(h), [Next]_vars
    PROVE  Whole(h)'
  <1>1. SUFFICES ASSUME gaps' = {}
                 PROVE  lost' = {} /\ \E s \in Statuses \cup {"gone"} : Stands(h, s)'
    BY DEF Whole
  <1>2. gaps = {}
    BY <1>1, GapsGrow
  <1>3. PICK s \in Statuses \cup {"gone"} : lost = {} /\ Stands(h, s)
    BY <1>2 DEF Whole
  <1>4. lost' = {}
    BY <1>1, <1>3, LostAtGap
  <1>5. Follows(h, s)
    BY <1>1, <1>3, <1>4, EveryStep
  <1> QED
    BY <1>4, <1>5 DEF Follows

\* One request served at a time: until a gap is met, an operation finds each of the four
\* places as it was, or a step in its record that puts it back.
THEOREM WholeAlways ==
    ASSUME NEW CONSTANT h, Handlers = {h}
    PROVE  Spec => []Whole(h)
  <1>1. Init => Whole(h)
    BY StandsInit DEF Whole, Statuses
  <1>2. /\ TypeOK /\ TypeOK' /\ SoundInv /\ Books(h) /\ Books(h)' /\ Promises(h)'
        /\ Whole(h) /\ [Next]_vars
        => Whole(h)'
    BY WholeKept
  <1> QED
    BY <1>1, <1>2, TypeCorrect, RecordsSound, BooksAlways, PromisesAlways, PTL DEF Spec

\* One request served at a time: between two operations the rows, the mapping table, the
\* vendors and the partners agree on one status, unless an operation was left half done at
\* a named place.
THEOREM AgreementUnlessGap ==
    ASSUME NEW CONSTANT h, Handlers = {h}
    PROVE  Spec => []AgreedUnlessGap
  <1>1. Whole(h) => AgreedUnlessGap
    BY DEF Whole, Stands, AgreedUnlessGap, Quiet
  <1> QED
    BY <1>1, WholeAlways, PTL

-----------------------------------------------------------------------------
(* The refinement.  A running operation promises the status it found. *)

LEMMA PromisedIs ==
    ASSUME NEW CONSTANT h, Handlers = {h}
    PROVE  TypeOK /\ SoundInv => \A s \in Statuses \cup {"gone"} : Stands(h, s) => Promised = s
  <1> SUFFICES ASSUME TypeOK, SoundInv, NEW s \in Statuses \cup {"gone"}, Stands(h, s)
               PROVE  Promised = s
    OBVIOUS
  <1>1. h \in Handlers /\ JobOK /\ Sound(job[h]) /\ Primary \in Parents
    BY ConstantsAssumption DEF SoundInv, TypeOK
  <1>2. Promised = IF Written(h) THEN job[h].seen[Primary] ELSE status[Primary]
    BY DEF Promised
  <1>3. Written(h) <=> Wrote(AllSteps(job[h]))
    BY DEF Written, Wrote, Has, AllSteps
  <1>4. CASE InUse(h)
    <2>1. StatusKept(job[h], s)
      BY <1>4 DEF Stands, Was
    <2>2. CASE Written(h)
      BY <1>1, <1>2, <1>3, <2>1, <2>2 DEF StatusKept, Uniform
    <2>3. CASE ~Written(h)
      <3>1. LeftSteps(job[h]) \subseteq AllSteps(job[h])
        <4>1. job[h].left <= Len(job[h].saga) /\ job[h].left \in Nat /\ Len(job[h].saga) \in Nat
          BY <1>1, JobFields DEF Sagas
        <4> QED
          BY <4>1 DEF LeftSteps, AllSteps, Standing
      <3>2. status = Uniform(s)
        BY <1>3, <2>1, <2>3, <3>1 DEF StatusKept, Wrote, Has
      <3> QED
        BY <1>1, <1>2, <2>3, <3>2 DEF Uniform
    <2> QED
      BY <2>2, <2>3
  <1>5. CASE ~InUse(h)
    <2>1. AllSteps(job[h]) = {}
      BY <1>1, <1>5, NoSteps DEF Sound, PlacesOf, InUse
    <2>2. ~Written(h)
      BY <1>3, <2>1 DEF Wrote, Has
    <2> QED
      BY <1>1, <1>2, <1>5, <2>2 DEF Stands, Agreed
  <1> QED
    BY <1>4, <1>5

LEMMA PromisedStatus ==
    ASSUME NEW CONSTANT h, Handlers = {h}
    PROVE  TypeOK => Promised \in Statuses \cup {"gone"}
  <1> SUFFICES ASSUME TypeOK
               PROVE  Promised \in Statuses \cup {"gone"}
    OBVIOUS
  <1>1. job[h].seen \in Snapshots /\ status \in Snapshots /\ Primary \in Parents
    BY JobFields, ConstantsAssumption DEF TypeOK, RowsOK
  <1>2. Promised = IF Written(h) THEN job[h].seen[Primary] ELSE status[Primary]
    BY DEF Promised
  <1> QED
    BY <1>1, <1>2 DEF Snapshots

LEMMA LifecycleStep ==
    ASSUME NEW CONSTANT h, Handlers = {h}, TypeOK, TypeOK', SoundInv, SoundInv', Books(h), Books(h)',
           Promises(h)', Whole(h), [Next]_vars,
           \A s \in Statuses \cup {"gone"} : Stands(h, s) => Promised = s,
           \A s \in Statuses \cup {"gone"} : Stands(h, s)' => Promised' = s,
           Promised' \in Statuses \cup {"gone"}
    PROVE  [Lifecycle!Next]_(Lifecycle!vars)
  <1>1. CASE gaps' # {}
    BY <1>1 DEF Lifecycle!Next, Lifecycle!Tear, Lifecycle!Statuses, Statuses
  <1>2. CASE gaps' = {}
    <2>1. gaps = {}
      BY <1>2, GapsGrow
    <2>2. PICK s \in Statuses \cup {"gone"} : lost = {} /\ Stands(h, s)
      BY <2>1 DEF Whole
    <2>3. Follows(h, s)
      BY <1>2, <2>2, EveryStep, LostAtGap
    <2>4. Promised = s /\ (Promised' = s \/ Moves(s, Promised'))
      BY <2>2, <2>3 DEF Follows
    <2>5. (gaps # {}) = FALSE /\ (gaps' # {}) = FALSE
      BY <1>2, <2>1
    <2>6. CASE Promised' = s
      BY <2>4, <2>5, <2>6 DEF Lifecycle!vars
    <2>7. CASE Moves(s, Promised')
      <3>1. Lifecycle!Confirm \/ Lifecycle!Close \/ Lifecycle!Delete
        BY <2>4, <2>7 DEF Moves, Lifecycle!Confirm, Lifecycle!Close, Lifecycle!Delete
      <3> QED
        BY <2>5, <3>1 DEF Lifecycle!Next, Lifecycle!Succeed
    <2> QED
      BY <2>4, <2>6, <2>7
  <1> QED
    BY <1>1, <1>2

\* One request served at a time: a client sees each operation take effect in one step when
\* it answers ok and not at all when it fails, until an operation is left half done at a
\* named place: the handlers implement RequestLifecycle.
THEOREM ImplementsLifecycle ==
    ASSUME NEW CONSTANT h, Handlers = {h}
    PROVE  Spec => AtomicOrTorn
  <1>1. Init => Lifecycle!Init
    <2>1. SUFFICES ASSUME Init
                   PROVE  Lifecycle!Init
      OBVIOUS
    <2>2. Promised = "PENDING"
      <3>1. Len(<<>>) = 0 /\ job[h].saga = <<>> /\ status[Primary] = "PENDING"
        BY <2>1, ConstantsAssumption DEF Init, Unused
      <3>2. ~Written(h)
        BY <3>1 DEF Written
      <3> QED
        BY <3>1, <3>2 DEF Promised
    <2>3. (gaps # {}) = FALSE
      BY <2>1 DEF Init
    <2> QED
      BY <2>2, <2>3 DEF Lifecycle!Init
  <1> DEFINE Names == \A s \in Statuses \cup {"gone"} : Stands(h, s) => Promised = s
             Known == Promised \in Statuses \cup {"gone"}
  <1>2. (TypeOK /\ SoundInv => Names) /\ (TypeOK => Known)
    BY PromisedIs, PromisedStatus
  <1>3. /\ TypeOK /\ TypeOK' /\ SoundInv /\ SoundInv' /\ Books(h) /\ Books(h)' /\ Promises(h)'
        /\ Whole(h) /\ [Next]_vars /\ Names /\ Names' /\ Known'
        => [Lifecycle!Next]_(Lifecycle!vars)
    BY LifecycleStep
  <1> HIDE DEF Names, Known
  <1>4. Spec => [][Lifecycle!Next]_(Lifecycle!vars)
    BY <1>2, <1>3, TypeCorrect, RecordsSound, BooksAlways, PromisesAlways, WholeAlways, PTL DEF Spec
  <1>5. Spec => Lifecycle!Init
    BY <1>1 DEF Spec
  <1> QED
    BY <1>4, <1>5 DEF AtomicOrTorn, Lifecycle!Spec
==============================================================================
