---------------------------- MODULE Reservation ----------------------------
(***************************************************************************)
(* One booking request of the UASL reservation server after it was held:   *)
(* the handlers that confirm, cancel, rescind and delete it, each cut into *)
(* one action per database call or outgoing call (a call wrapped in        *)
(* retry.WithBackoff is one action, whose outcomes include the effects of  *)
(* attempts whose answer never came back).  The handlers share the rows of *)
(* uasl_reservations and external_resource_reservations, the reservations  *)
(* the vehicle and port vendors hold, and the copies of the request that   *)
(* partner administrators hold.  Each handler records how to undo what it  *)
(* did outside and, when a step fails, runs the record backwards.          *)
(***************************************************************************)
EXTENDS Integers, Sequences, FiniteSets

CONSTANTS
    Handlers,    \* HTTP handlers that may work on the request
    Parents,     \* parent rows of the request, one per run of own sections
    Primary,     \* the parent FindByRequestID answers with
    Vehicles,    \* vehicles the request needs from the vehicle vendor
    Ports,       \* drone ports the request needs from the port vendor
    Partners,    \* other administrators that hold a part of the route
    Rows,        \* rows of external_resource_reservations the hold wrote
    MaxIds,      \* bound: reservations a vendor can issue per resource
    MaxFaults,   \* bound: failed or unanswered calls, disconnects, crashes
    MaxOps,      \* bound: operations started
    NoOne        \* what an undo step without a resource or partner is on

\* A row says which resource is used, when, what for, and whose administrator's id the hold
\* wrote in it: our own, another's or none.  The hold tags our resources with the
\* administrator of the route's first section, who need not be us.
ASSUME ConstantsAssumption ==
    /\ Primary \in Parents
    /\ MaxIds \in Nat /\ MaxFaults \in Nat /\ MaxOps \in Nat
    /\ NoOne \notin Vehicles \cup Ports \cup Partners
    /\ \A r \in Rows : r.on \in Vehicles \cup Ports /\ r.tag \in {"ours", "theirs", "none"}

Resources == Vehicles \cup Ports
Ids       == 1..MaxIds
NoRow     == -1                  \* the mapping row does not exist
NoId      == 0                   \* the row exists, its ex_reservation_id is empty
Theirs    == -2                  \* an id that a partner's Confirm answered
Column    == {NoRow, NoId, Theirs} \cup Ids

Statuses  == {"PENDING", "RESERVED", "CANCELED", "RESCINDED"}
Operations == {"Confirm", "Cancel", "Rescind", "Delete"}
Target(o) == IF o = "Rescind" THEN "RESCINDED" ELSE "CANCELED"

VARIABLES
    status,   \* status[p]: the status column of parent row p, "gone" without rows
    mapping,  \* mapping[r]: the ex_reservation_id column of row r
    issued,   \* issued[x]: reservations of x the vendor issued so far
    live,     \* live[x]: those the vendor still holds
    partner,  \* partner[e]: status of the request at administrator e; "none" off its route
    job,      \* job[h]: what handler h is doing
    faults,   \* faults met so far
    ops,      \* operations started so far
    lost,     \* history: reservations the program no longer refers to
    gaps      \* history: named places where an operation was left half done

vars == <<status, mapping, issued, live, partner, job, faults, ops, lost, gaps>>
db       == <<status, mapping>>
vendor   == <<issued, live>>
history  == <<lost, gaps>>

GapNames == {"answerLost", "undoFailed", "parentsNotLoaded", "crashed", "reReserved",
             "partnerNotReconfirmed", "partnerDeleted", "parentsSplit",
             "mappingTorn", "mappingNotCleared", "partnerSkipped"}

\* An undo step names a vendor's reservation, a resource, a partner or nothing.
Step(kind, on, id) == [kind |-> kind, on |-> on, id |-> id]
Steps ==
    [kind : {"cancelHandle"}, on : Resources, id : Ids]
    \cup [kind : {"reReserve"}, on : Resources, id : {NoId}]
    \cup [kind : {"deletePartner", "reconfirmPartner"}, on : Partners, id : {NoId}]
    \cup [kind : {"restoreStatus", "unconfirm", "insertMapping"}, on : {NoOne}, id : {NoId}]

Places == {"idle", "maps", "partners", "check", "reserve", "parents", "commit",
           "resources", "cancel", "reload", "clear", "save",
           "deleteMaps", "deleteRows", "undo"}
Answers == {"none", "ok", "rejected", "conflict", "failed"}

Snapshots == [Parents -> Statuses \cup {"gone"}]     \* of the parents' status column
Tables    == [Rows -> Column]                         \* of the mapping table
Work      == SUBSET (Rows \cup Partners)              \* what a loop has left to visit
Sagas     == Seq(Steps)
Jobs == [op : Operations \cup {"none"}, pc : Places, alive : BOOLEAN,
         seen : Snapshots, rows : Tables, todo : Work, handles : Tables, saga : Sagas,
         left : Nat, passes : 0..2, answer : Answers]

Unused(o, a) ==
    [op |-> o, pc |-> "idle", alive |-> TRUE, seen |-> [p \in Parents |-> "gone"],
     rows |-> [r \in Rows |-> NoRow], todo |-> {}, handles |-> [r \in Rows |-> NoId], saga |-> <<>>,
     left |-> 0, passes |-> 0, answer |-> a]

\* The rows as the hold leaves them: everything pending, no vendor asked yet.  A request that
\* came from another administrator asks nobody, whatever the tags of its rows.
Init ==
    /\ status  = [p \in Parents |-> "PENDING"]
    /\ mapping = [r \in Rows |-> NoId]
    /\ issued  = [x \in Resources |-> 0]
    /\ live    = [x \in Resources |-> {}]
    /\ partner \in [Partners -> {"none", "PENDING"}]
    /\ job     = [h \in Handlers |-> Unused("none", "none")]
    /\ faults = 0 /\ ops = 0 /\ lost = {} /\ gaps = {}

-----------------------------------------------------------------------------
(* Vocabulary of the steps. *)

\* A handle finds its row by buildResourceKey: by the resource, and of a port by the use.
\* Ports that are used at the same time, whatever for, are reserved at the vendor once.
SameKey(q, r)  == q.on = r.on /\ (r.on \in Vehicles \/ q.use = r.use)
SameSlot(q, r) == q = r \/ (r.on \in Ports /\ q.on = r.on /\ q.at = r.at)

Loaded(h) == {r \in Rows : job[h].rows[r] # NoRow}
NoRows == \A p \in Parents : status[p] = "gone"
InUse(h) == job[h].pc # "idle"
At(h, place) == job[h].pc = place
IsCancel(h) == job[h].op \in {"Cancel", "Rescind"}
\* The administrators of the route's sections, other than our own.
Involved == {e \in Partners : partner[e] # "none"}

Fault(n) == faults + n <= MaxFaults /\ faults' = faults + n
Gap(names) == gaps' = gaps \cup names
NoGap == UNCHANGED history

Goto(h, place) == job' = [job EXCEPT ![h].pc = place]
Answer(h, a) == job' = [job EXCEPT ![h] = Unused(job[h].op, a)]

\* Mutated: the error answer without the Rollback call.
Rollback_Dropped(h, n) == Answer(h, "failed")

\* Rollback(ctx), n times in a row, then the error answer.
Rollback(h, n) ==
    job' = [job EXCEPT ![h].pc = "undo", ![h].left = Len(job[h].saga), ![h].passes = n]

\* RecordSuccess, and on to the given place.
Record(h, step, place) ==
    job' = [job EXCEPT ![h].saga = Append(@, step), ![h].pc = place]
RecordDone(h, step, x) ==
    job' = [job EXCEPT ![h].saga = Append(@, step), ![h].todo = @ \ {x}]

\* Vendor reservations whose only reference is the handler's undo record.
Tracked(h) == {<<s.on, s.id>> : s \in {job[h].saga[i] : i \in
                  {i \in 1..Len(job[h].saga) : job[h].saga[i].kind = "cancelHandle"}}}

\* The vendor issues n reservations of x.
Fresh(x, n) == (issued[x] + 1)..(issued[x] + n)
Issue(x, n) ==
    /\ issued[x] + n <= MaxIds
    /\ issued' = [issued EXCEPT ![x] = @ + n]
    /\ live'   = [live EXCEPT ![x] = @ \cup Fresh(x, n)]
Release(x, id) ==
    /\ live' = [live EXCEPT ![x] = @ \ {id}]
    /\ UNCHANGED issued

\* Save writes whole rows, and inserts a row that is missing.
Saved(rs, rows) == [r \in Rows |-> IF r \in rs THEN rows[r] ELSE mapping[r]]

-----------------------------------------------------------------------------
(* Arrival: FindByRequestID, the guards on the primary parent's status, and  *)
(* everything that can turn the request away before a step is recorded.      *)

\* Mutated: no look at the status before a Confirm.
Admits_AnyStatus(o) ==
    CASE o = "Delete" -> ~NoRows
      [] OTHER -> status[Primary] # "gone"
Admits(o) ==
    CASE o = "Confirm" -> status[Primary] = "PENDING"
      [] o \in {"Cancel", "Rescind"} -> status[Primary] \in {"PENDING", "RESERVED"}
      [] o = "Delete" -> ~NoRows

Arrive(h, o) ==
    /\ At(h, "idle") /\ ops < MaxOps
    /\ ops' = ops + 1
    /\ \/ /\ Admits(o)
          /\ job' = [job EXCEPT ![h] =
                [Unused(o, "none") EXCEPT !.pc = IF o \in {"Confirm", "Delete"}
                                                 THEN "maps" ELSE "partners",
                                          !.todo = IF o = "Delete" THEN {} ELSE Involved]]
       \/ \* a status the operation does not accept, or a read that failed
          job' = [job EXCEPT ![h] = Unused(o, "rejected")]
    /\ UNCHANGED <<db, vendor, partner, faults, history>>

\* Confirm and Delete read the mapping rows before they act.
LoadMappings(h) ==
    /\ At(h, "maps")
    /\ job' = [job EXCEPT ![h].rows = mapping,
                          ![h].pc = IF job[h].op = "Confirm" THEN "partners" ELSE "resources",
                          ![h].todo = IF job[h].op = "Confirm" THEN Involved ELSE {}]
    /\ UNCHANGED <<db, vendor, partner, faults, ops, history>>

\* The read fails, or the credit check refuses or fails: nothing to undo yet.
TurnAway(h) ==
    /\ At(h, "maps")
    /\ Answer(h, "failed")
    /\ UNCHANGED <<db, vendor, partner, faults, ops, history>>

-----------------------------------------------------------------------------
(* Partner administrators.  ConfirmUaslReservation answers a refusal as a    *)
(* response, so it is not retried; a lost answer is retried, and the partner *)
(* then refuses what it already did.                                         *)

Open(e, o) == IF o = "Confirm" THEN partner[e] = "PENDING"
              ELSE partner[e] \in {"PENDING", "RESERVED"}
Settled(e, o) ==
    partner' = [partner EXCEPT ![e] = IF o = "Confirm" THEN "RESERVED" ELSE Target(o)]
UndoOf(o) == IF o = "Confirm" THEN "deletePartner" ELSE "reconfirmPartner"

PartnerAgrees(h, e) ==
    /\ At(h, "partners") /\ e \in job[h].todo
    /\ job[h].alive /\ Open(e, job[h].op)
    /\ Settled(e, job[h].op)
    /\ RecordDone(h, Step(UndoOf(job[h].op), e, NoId), e)
    /\ UNCHANGED <<db, vendor, faults, ops, history>>

PartnerRefuses(h, e) ==
    /\ At(h, "partners") /\ e \in job[h].todo
    /\ Rollback(h, 1)
    /\ \/ UNCHANGED partner /\ NoGap /\ UNCHANGED faults
       \/ /\ job[h].alive /\ Open(e, job[h].op) /\ Fault(1)   \* done, answer lost
          /\ Settled(e, job[h].op)
          /\ Gap({"answerLost"}) /\ UNCHANGED lost
    /\ UNCHANGED <<db, vendor, ops>>

\* An administrator whose address cannot be found has no group: nobody asks it, and the
\* operation goes on.
PartnerSkipped(h, e) ==
    /\ At(h, "partners") /\ e \in job[h].todo
    /\ Fault(1)
    /\ job' = [job EXCEPT ![h].todo = @ \ {e}]
    /\ Gap({"partnerSkipped"}) /\ UNCHANGED lost
    /\ UNCHANGED <<db, vendor, partner, ops>>

PartnersDone(h) ==
    /\ At(h, "partners") /\ job[h].todo = {}
    /\ Goto(h, IF job[h].op = "Confirm" THEN "check" ELSE "parents")
    /\ UNCHANGED <<db, vendor, partner, faults, ops, history>>

-----------------------------------------------------------------------------
(* Confirm: the availability check, then vehicles, then ports. *)

\* Partners were asked, so the ports are sorted: those stay of whose key the first row that
\* was read has our tag.  No vehicle is left out, and nothing when nobody was asked.
Asked(h) == \E i \in DOMAIN job[h].saga : job[h].saga[i].kind = "deletePartner"
Sorted(h) ==
    IF ~Asked(h) THEN {Loaded(h)}
    ELSE {rs \in SUBSET Loaded(h) :
            /\ \A r \in Loaded(h) : r.on \in Vehicles => r \in rs
            /\ \A r \in Loaded(h) : r.on \in Ports =>
                  /\ \E q \in Loaded(h) : SameKey(q, r) /\ (r \in rs <=> q.tag = "ours")
                  /\ \A q \in Loaded(h) : SameKey(q, r) => (q \in rs <=> r \in rs)}

\* What a vendor holds may be for another time that the request needs the resource.
Available(r) == live[r.on] = {} \/ \E q \in Rows : q.on = r.on /\ q.at # r.at

\* Ports whose detail request fails with an HTTP error are not checked at all,
\* and nothing is when the client has gone.
Check(h) ==
    /\ At(h, "check")
    /\ \E rs \in Sorted(h), skipped \in SUBSET Ports :
          /\ Fault(IF skipped = {} THEN 0 ELSE 1)
          /\ job[h].alive => \A r \in rs : r.on \in skipped \/ Available(r)
          /\ job' = [job EXCEPT ![h].pc = "reserve", ![h].todo = rs]
    /\ UNCHANGED <<db, vendor, partner, ops, history>>

\* A reservation of anybody, the request's own included, or a failed check.
CheckRefuses(h) ==
    /\ At(h, "check") /\ job[h].alive
    /\ Rollback(h, 1)
    /\ UNCHANGED <<db, vendor, partner, faults, ops, history>>

InTurn(h, r) == r.on \in Vehicles \/ \A q \in job[h].todo : q.on \notin Vehicles
Slot(h, r) == {q \in job[h].todo : SameSlot(q, r)}

\* Mutated: the handle is kept for the row it was asked for alone.
Handled_RowOnly(h, r, id) == [q \in Rows |-> IF q = r THEN id ELSE job[h].handles[q]]
\* newReservationIDMap, as every row will look its handle up: the last one of its key.
Handled(h, r, id) ==
    [q \in Rows |-> IF \E g \in Slot(h, r) : SameKey(g, q) THEN id ELSE job[h].handles[q]]

\* Mutated: the call succeeded and no step is recorded.
RecordHandle_Forgotten(h, r, id) ==
    job' = [job EXCEPT ![h].todo = @ \ Slot(h, r), ![h].handles = Handled(h, r, id)]
RecordHandle(h, r, id) ==
    job' = [job EXCEPT ![h].saga = Append(@, Step("cancelHandle", r.on, id)),
                       ![h].todo = @ \ Slot(h, r), ![h].handles = Handled(h, r, id)]

\* The answers of k attempts are lost before one comes back with a handle.
Reserve(h, r) ==
    /\ At(h, "reserve") /\ r \in job[h].todo /\ InTurn(h, r) /\ job[h].alive
    /\ \E k \in 0..MaxFaults :
          /\ Fault(k) /\ Issue(r.on, k + 1)
          /\ RecordHandle(h, r, issued[r.on] + k + 1)
          /\ lost' = lost \cup ({r.on} \X Fresh(r.on, k))
          /\ Gap(IF k = 0 THEN {} ELSE {"answerLost"})
    /\ UNCHANGED <<db, partner, ops>>

ReserveFails(h, r) ==
    /\ At(h, "reserve") /\ r \in job[h].todo /\ InTurn(h, r)
    /\ \E k \in 0..(IF job[h].alive THEN MaxFaults ELSE 0) :
          /\ Fault(k) /\ Issue(r.on, k)
          /\ lost' = lost \cup ({r.on} \X Fresh(r.on, k))
          /\ Gap(IF k = 0 THEN {} ELSE {"answerLost"})
    /\ Rollback(h, 1)
    /\ UNCHANGED <<db, partner, ops>>

ReserveDone(h) ==
    /\ At(h, "reserve") /\ job[h].todo = {}
    /\ Goto(h, "parents")
    /\ UNCHANGED <<db, vendor, partner, faults, ops, history>>

-----------------------------------------------------------------------------
(* The parents' status: FindParentsByRequestID, then UpdateBatch, which is   *)
(* one transaction and fails when a row it was given is gone.                *)

LoadParents(h) ==
    /\ At(h, "parents")
    /\ job' = [job EXCEPT ![h].seen = status, ![h].pc = "commit"]
    /\ UNCHANGED <<db, vendor, partner, faults, ops, history>>

\* Both operations return here without a Rollback.
LoadParentsFails(h) ==
    /\ At(h, "parents") /\ Fault(1)
    /\ lost' = lost \cup Tracked(h)
    /\ Gap(IF job[h].saga = <<>> THEN {} ELSE {"parentsNotLoaded"})
    /\ Answer(h, "failed")
    /\ UNCHANGED <<db, vendor, partner, ops>>

Unseen(h) == \A p \in Parents : job[h].seen[p] = "gone"

\* Mutated: only the primary parent is updated.
Commit_PrimaryOnly(h) ==
    /\ At(h, "commit") /\ ~NoRows /\ ~Unseen(h)
    /\ status' = [status EXCEPT ![Primary] = IF job[h].op = "Confirm" THEN "RESERVED"
                                             ELSE Target(job[h].op)]
    /\ Record(h, Step(IF job[h].op = "Confirm" THEN "unconfirm" ELSE "restoreStatus", NoOne, NoId),
              IF job[h].op = "Confirm" THEN "save" ELSE "resources")
    /\ UNCHANGED <<mapping, vendor, partner, faults, ops, history>>

\* Confirm updates the children with the parents; Cancel updates the parents only,
\* so its batch is empty, and succeeds, when it saw none.
Commit(h) ==
    /\ At(h, "commit")
    /\ \/ /\ ~NoRows /\ ~Unseen(h)
          /\ status' = [p \in Parents |-> IF job[h].op = "Confirm" THEN "RESERVED"
                                          ELSE Target(job[h].op)]
       \/ IsCancel(h) /\ Unseen(h) /\ UNCHANGED status
    /\ Record(h, Step(IF job[h].op = "Confirm" THEN "unconfirm" ELSE "restoreStatus", NoOne, NoId),
              IF job[h].op = "Confirm" THEN "save" ELSE "resources")
    /\ UNCHANGED <<mapping, vendor, partner, faults, ops, history>>

CommitFails(h) ==
    /\ At(h, "commit")
    /\ \/ (NoRows \/ Unseen(h)) /\ UNCHANGED faults
       \/ Fault(1)
    /\ Rollback(h, 1)
    /\ UNCHANGED <<db, vendor, partner, ops, history>>

-----------------------------------------------------------------------------
(* Confirm's last step: the new handles are saved row by row, outside a      *)
(* transaction, in the rows that were read at the beginning.  An id that a   *)
(* partner answered goes to every row of its key, ours included.             *)

Answering(h) ==
    IF ~Asked(h) THEN {{}}
    ELSE {rs \in SUBSET Loaded(h) :
            \A r \in rs : /\ \E q \in Rows : SameKey(q, r) /\ q.tag = "theirs"
                          /\ \A q \in Loaded(h) : SameKey(q, r) => q \in rs}
NewRows(h, theirs) == [r \in Rows |-> IF r \in theirs THEN Theirs ELSE job[h].handles[r]]
Renewed(h, theirs) == {r \in Loaded(h) : NewRows(h, theirs)[r] \notin {NoId, job[h].rows[r]}}

SaveMappings(h) ==
    /\ At(h, "save")
    /\ \E theirs \in Answering(h) : mapping' = Saved(Renewed(h, theirs), NewRows(h, theirs))
    /\ Answer(h, "ok")
    /\ UNCHANGED <<status, vendor, partner, faults, ops, history>>

SaveMappingsFails(h) ==
    /\ At(h, "save") /\ Fault(1)
    /\ \E theirs \in Answering(h) : \E done \in SUBSET Renewed(h, theirs) :
          /\ done # Renewed(h, theirs)
          /\ mapping' = Saved(done, NewRows(h, theirs))
          /\ Gap(IF done = {} THEN {} ELSE {"mappingTorn"})
    /\ Rollback(h, 1)
    /\ UNCHANGED <<status, vendor, partner, ops, lost>>

-----------------------------------------------------------------------------
(* CancelExternalResources: Cancel reads the mapping rows now, Delete has     *)
(* read them at the beginning.  As soon as one of them is tagged, only those  *)
(* with our tag are cancelled; all are when our administrators are not found. *)

Read(h) == IF job[h].op = "Delete" THEN job[h].rows ELSE mapping
\* Mutated: ports are skipped.
OurRows_NoPorts(rows) == {r \in Rows : rows[r] # NoRow /\ r.tag = "ours" /\ r.on \in Vehicles}
OurRows(rows) ==
    {r \in Rows : /\ rows[r] # NoRow
                  /\ r.tag = "ours" \/ \A q \in Rows : rows[q] # NoRow => q.tag = "none"}

LoadResources(h) ==
    /\ At(h, "resources")
    /\ \E rs \in {OurRows(Read(h)), Rows} :
          /\ Fault(IF rs = OurRows(Read(h)) THEN 0 ELSE 1)
          /\ job' = [job EXCEPT ![h].rows = Read(h), ![h].pc = "cancel",
                                ![h].todo = {r \in rs : Read(h)[r] \notin {NoRow, NoId}}]
    /\ UNCHANGED <<db, vendor, partner, ops, history>>

LoadResourcesFails(h) ==
    /\ At(h, "resources") /\ IsCancel(h) /\ Fault(1)
    /\ Rollback(h, 1)
    /\ UNCHANGED <<db, vendor, partner, ops, history>>

\* GetDetail and Cancel; a vendor may accept an id it no longer holds, never a partner's.
CancelResource(h, r) ==
    /\ At(h, "cancel") /\ r \in job[h].todo /\ job[h].rows[r] \in Ids /\ job[h].alive
    /\ Release(r.on, job[h].rows[r])
    /\ RecordDone(h, Step("reReserve", r.on, NoId), r)
    /\ UNCHANGED <<db, partner, faults, ops, history>>

\* CancelExternalResources rolls back and returns, and its caller rolls back again.
CancelResourceFails(h, r) ==
    /\ At(h, "cancel") /\ r \in job[h].todo
    /\ Rollback(h, 2)
    /\ \/ /\ ~job[h].alive \/ job[h].rows[r] \notin live[r.on]
          /\ UNCHANGED <<vendor, faults, history>>
       \/ job[h].alive /\ Fault(1) /\ UNCHANGED <<vendor, history>>
       \/ /\ job[h].alive /\ job[h].rows[r] \in live[r.on] /\ Fault(1)   \* done, answer lost
          /\ Release(r.on, job[h].rows[r])
          /\ Gap({"answerLost"}) /\ UNCHANGED lost
    /\ UNCHANGED <<db, partner, ops>>

CancelDone(h) ==
    /\ At(h, "cancel") /\ job[h].todo = {}
    /\ Goto(h, IF job[h].op = "Delete" THEN "deleteMaps" ELSE "reload")
    /\ UNCHANGED <<db, vendor, partner, faults, ops, history>>

-----------------------------------------------------------------------------
(* Cancel's last step: the mapping rows are read again and emptied. *)

Reload(h) ==
    /\ At(h, "reload")
    /\ job' = [job EXCEPT ![h].rows = mapping, ![h].pc = "clear"]
    /\ UNCHANGED <<db, vendor, partner, faults, ops, history>>

\* The error is logged and the rows keep their ids.
ReloadFails(h) ==
    /\ At(h, "reload") /\ Fault(1)
    /\ Answer(h, "ok")
    /\ Gap(IF \E r \in Rows : mapping[r] \notin {NoRow, NoId} THEN {"mappingNotCleared"} ELSE {})
    /\ UNCHANGED <<db, vendor, partner, ops, lost>>

Cleared(h) == [r \in Rows |-> NoId]

ClearMappings(h) ==
    /\ At(h, "clear")
    /\ mapping' = Saved(Loaded(h), Cleared(h))
    /\ Answer(h, "ok")
    /\ UNCHANGED <<status, vendor, partner, faults, ops, history>>

ClearMappingsFails(h) ==
    /\ At(h, "clear") /\ Fault(1)
    /\ \E done \in SUBSET Loaded(h) :
          /\ done # Loaded(h)
          /\ mapping' = Saved(done, Cleared(h))
          /\ Gap(IF mapping' = mapping THEN {} ELSE {"mappingTorn"})
    /\ Rollback(h, 1)
    /\ UNCHANGED <<status, vendor, partner, ops, lost>>

-----------------------------------------------------------------------------
(* Delete's last steps: first the mapping rows, then the reservation rows.   *)

\* Mutated: the mapping rows are left in the table.
DeleteMappings_Kept(h) ==
    /\ At(h, "deleteMaps")
    /\ Record(h, Step("insertMapping", NoOne, NoId), "deleteRows")
    /\ UNCHANGED <<db, vendor, partner, faults, ops, history>>

DeleteMappings(h) ==
    /\ At(h, "deleteMaps")
    /\ mapping' = [r \in Rows |-> NoRow]
    /\ Record(h, Step("insertMapping", NoOne, NoId), "deleteRows")
    /\ UNCHANGED <<status, vendor, partner, faults, ops, history>>

DeleteRows(h) ==
    /\ At(h, "deleteRows")
    /\ status' = [p \in Parents |-> "gone"]
    /\ Answer(h, "ok")
    /\ UNCHANGED <<mapping, vendor, partner, faults, ops, history>>

DeleteFails(h) ==
    /\ At(h, "deleteMaps") \/ At(h, "deleteRows")
    /\ Fault(1)
    /\ Rollback(h, 1)
    /\ UNCHANGED <<db, vendor, partner, ops, history>>

-----------------------------------------------------------------------------
(* Orchestrator.Rollback: the recorded steps from the last to the first, each *)
(* tried whether or not the one before it succeeded.                          *)

Undoing(h) == At(h, "undo") /\ job[h].left > 0
Current(h) == job[h].saga[job[h].left]
UndoKind(h, kind) == Undoing(h) /\ job[h].alive /\ Current(h).kind = kind
\* Mutated: the loop steps over every second step.
StepUndone_Skips(h) == job' = [job EXCEPT ![h].left = @ - 2]
StepUndone(h) == job' = [job EXCEPT ![h].left = @ - 1]

UndoReserve(h) ==
    /\ UndoKind(h, "cancelHandle")
    /\ Release(Current(h).on, Current(h).id)
    /\ StepUndone(h)
    /\ UNCHANGED <<db, partner, faults, ops, history>>

\* The vendor reserves again; the new id is thrown away.
UndoCancel(h) ==
    /\ UndoKind(h, "reReserve")
    /\ \E n \in 1..(MaxFaults + 1) :
          /\ Fault(n - 1) /\ Issue(Current(h).on, n)
          /\ lost' = lost \cup ({Current(h).on} \X Fresh(Current(h).on, n))
    /\ Gap({"reReserved"})
    /\ StepUndone(h)
    /\ UNCHANGED <<db, partner, ops>>

\* A confirmed partner is told to delete, not to go back to pending.
UndoPartnerConfirm(h) ==
    /\ UndoKind(h, "deletePartner") /\ partner[Current(h).on] # "gone"
    /\ partner' = [partner EXCEPT ![Current(h).on] = "gone"]
    /\ Gap({"partnerDeleted"}) /\ UNCHANGED lost
    /\ StepUndone(h)
    /\ UNCHANGED <<db, vendor, faults, ops>>

\* A cancelled partner is asked to confirm; its refusal is not looked at.
UndoPartnerCancel(h) ==
    /\ UndoKind(h, "reconfirmPartner")
    /\ LET e == Current(h).on IN
          /\ partner' = [partner EXCEPT ![e] = IF @ = "PENDING" THEN "RESERVED" ELSE @]
          /\ Gap(IF partner[e] = "PENDING" THEN {} ELSE {"partnerNotReconfirmed"})
    /\ StepUndone(h)
    /\ UNCHANGED <<db, vendor, faults, ops, lost>>

\* Mutated: the undo inserts the rows it does not find.
RestoreParents_Upsert(h) ==
    /\ UndoKind(h, "restoreStatus")
    /\ status' = IF Unseen(h) THEN status ELSE job[h].seen
    /\ StepUndone(h)
    /\ UNCHANGED <<mapping, vendor, partner, faults, ops, history>>

\* Mutated: a cancelled request always goes back to pending.
RestoreParents_Pending(h) ==
    /\ UndoKind(h, "restoreStatus") /\ ~NoRows
    /\ status' = [p \in Parents |-> "PENDING"]
    /\ StepUndone(h)
    /\ UNCHANGED <<mapping, vendor, partner, faults, ops, history>>

\* Cancel puts every parent back as it found it.
RestoreParents(h) ==
    /\ UndoKind(h, "restoreStatus") /\ (NoRows => Unseen(h))
    /\ status' = IF Unseen(h) THEN status ELSE job[h].seen
    /\ StepUndone(h)
    /\ UNCHANGED <<mapping, vendor, partner, faults, ops, history>>

\* Confirm puts back the primary parent only.
Unconfirm(h) ==
    /\ UndoKind(h, "unconfirm") /\ ~NoRows
    /\ status' = [status EXCEPT ![Primary] = "PENDING"]
    /\ Gap(IF Parents = {Primary} THEN {} ELSE {"parentsSplit"}) /\ UNCHANGED lost
    /\ StepUndone(h)
    /\ UNCHANGED <<mapping, vendor, partner, faults, ops>>

UndoDeleteMappings(h) ==
    /\ UndoKind(h, "insertMapping")
    /\ \A r \in Loaded(h) : mapping[r] = NoRow
    /\ mapping' = Saved(Loaded(h), job[h].rows)
    /\ StepUndone(h)
    /\ UNCHANGED <<status, vendor, partner, faults, ops, history>>

\* What a step meets when it fails without a fault of the network or the database.
Refused(h) ==
    LET s == Current(h) IN
    \/ ~job[h].alive                    \* WithBackoff does not even try
    \/ s.kind = "reReserve"
    \/ s.kind = "cancelHandle" /\ s.id \notin live[s.on]
    \/ s.kind = "deletePartner" /\ partner[s.on] = "gone"
    \/ s.kind = "restoreStatus" /\ NoRows /\ ~Unseen(h)
    \/ s.kind = "unconfirm" /\ NoRows
    \/ s.kind = "insertMapping" /\ \E r \in Loaded(h) : mapping[r] # NoRow

UndoFails(h) ==
    /\ Undoing(h)
    /\ \/ Refused(h) /\ UNCHANGED faults
       \/ Fault(1)
    /\ Gap({"undoFailed"})
    /\ lost' = lost \cup (IF Current(h).kind = "cancelHandle"
                          THEN {<<Current(h).on, Current(h).id>>} ELSE {})
    /\ StepUndone(h)
    /\ UNCHANGED <<db, vendor, partner, ops>>

\* Done, but the answer was lost and the retry refused: counted as failed.
UndoUnanswered(h) ==
    /\ Undoing(h) /\ job[h].alive
    /\ LET s == Current(h) IN
          \/ /\ s.kind = "cancelHandle" /\ Fault(1)
             /\ Release(s.on, s.id)
             /\ UNCHANGED <<partner, lost>>
          \/ /\ s.kind = "deletePartner" /\ partner[s.on] # "gone" /\ Fault(1)
             /\ partner' = [partner EXCEPT ![s.on] = "gone"]
             /\ UNCHANGED <<vendor, lost>>
          \/ /\ s.kind = "reReserve"
             /\ \E n \in 1..MaxFaults :
                   /\ Fault(n) /\ Issue(s.on, n)
                   /\ lost' = lost \cup ({s.on} \X Fresh(s.on, n))
             /\ UNCHANGED partner
    /\ Gap({"undoFailed"})
    /\ StepUndone(h)
    /\ UNCHANGED <<db, ops>>

\* Mutated: the passes are not counted down.
PassDone_Again(h) ==
    /\ At(h, "undo") /\ job[h].left = 0
    /\ job' = [job EXCEPT ![h].left = Len(job[h].saga)]
    /\ UNCHANGED <<db, vendor, partner, faults, ops, history>>

\* The steps are kept: a second Rollback runs all of them again.
PassDone(h) ==
    /\ At(h, "undo") /\ job[h].left = 0
    /\ IF job[h].passes = 2
       THEN job' = [job EXCEPT ![h].passes = 1, ![h].left = Len(job[h].saga)]
       ELSE Answer(h, "failed")
    /\ UNCHANGED <<db, vendor, partner, faults, ops, history>>

-----------------------------------------------------------------------------
(* The client leaves (the request's context is cancelled), the server stops. *)

Disconnect(h) ==
    /\ InUse(h) /\ job[h].alive /\ Fault(1)
    /\ job' = [job EXCEPT ![h].alive = FALSE]
    /\ UNCHANGED <<db, vendor, partner, ops, history>>

Crash ==
    /\ \E h \in Handlers : InUse(h)
    /\ Fault(1)
    /\ lost' = lost \cup UNION {Tracked(h) : h \in Handlers}
    /\ Gap(IF \A h \in Handlers : job[h].saga = <<>> THEN {} ELSE {"crashed"})
    /\ job' = [h \in Handlers |-> Unused(job[h].op, "none")]
    /\ UNCHANGED <<db, vendor, partner, ops>>

-----------------------------------------------------------------------------
Confirming(h) ==
    \/ Check(h) \/ CheckRefuses(h)
    \/ \E r \in Rows : Reserve(h, r) \/ ReserveFails(h, r)
    \/ ReserveDone(h)
    \/ SaveMappings(h) \/ SaveMappingsFails(h)

Cancelling(h) ==
    \/ LoadResources(h) \/ LoadResourcesFails(h)
    \/ \E r \in Rows : CancelResource(h, r) \/ CancelResourceFails(h, r)
    \/ CancelDone(h)
    \/ Reload(h) \/ ReloadFails(h)
    \/ ClearMappings(h) \/ ClearMappingsFails(h)
    \/ DeleteMappings(h) \/ DeleteRows(h) \/ DeleteFails(h)

Shared(h) ==
    \/ LoadMappings(h) \/ TurnAway(h)
    \/ \E e \in Partners : PartnerAgrees(h, e) \/ PartnerRefuses(h, e) \/ PartnerSkipped(h, e)
    \/ PartnersDone(h)
    \/ LoadParents(h) \/ LoadParentsFails(h)
    \/ Commit(h) \/ CommitFails(h)

Undo(h) ==
    \/ UndoReserve(h) \/ UndoCancel(h)
    \/ UndoPartnerConfirm(h) \/ UndoPartnerCancel(h)
    \/ RestoreParents(h) \/ Unconfirm(h) \/ UndoDeleteMappings(h)
    \/ UndoFails(h) \/ UndoUnanswered(h) \/ PassDone(h)

\* What the goroutine that serves the request does once it runs.
Progress(h) == Shared(h) \/ Confirming(h) \/ Cancelling(h) \/ Undo(h)

Idle == ops = MaxOps /\ (\A h \in Handlers : ~InUse(h)) /\ UNCHANGED vars

Next ==
    \/ \E h \in Handlers :
          \/ \E o \in Operations : Arrive(h, o)
          \/ Progress(h)
          \/ Disconnect(h)
    \/ Crash
    \/ Idle

\* The Go scheduler runs every goroutine and every call is bounded by a timeout.
Fairness == \A h \in Handlers : WF_vars(Progress(h))

Spec == Init /\ [][Next]_vars /\ Fairness

-----------------------------------------------------------------------------
(* Properties. *)

\* The parts of the type invariant, one per group of variables.
RowsOK     == status \in Snapshots /\ mapping \in Tables
VendorOK   == issued \in [Resources -> 0..MaxIds] /\ live \in [Resources -> SUBSET Ids]
PartnerOK  == partner \in [Partners -> Statuses \cup {"gone", "none"}]
JobOK      == /\ job \in [Handlers -> Jobs]
              /\ \A h \in Handlers : job[h].left <= Len(job[h].saga)
CounterOK  == faults \in 0..MaxFaults /\ ops \in 0..MaxOps
HistoryOK  == lost \subseteq Resources \X Ids /\ gaps \subseteq GapNames
\* Every column, record and set holds what the code can put there, and a Rollback never
\* looks beyond the steps that were recorded.
TypeOK     == RowsOK /\ VendorOK /\ PartnerOK /\ JobOK /\ CounterOK /\ HistoryOK

Quiet == \A h \in Handlers : ~InUse(h)

\* What the properties below are about.  A row is certain to be reserved when every row of
\* its key has our tag.  A resource can be given back when its rows pass the filter of
\* CancelExternalResources and each reservation of it is in a row: two times under one key
\* share the last handle.
Certain(r) == \A q \in Rows : SameKey(q, r) => q.tag = "ours"
RowsOf(x) == {r \in Rows : r.on = x}
Traceable(x) ==
    /\ (\A r \in RowsOf(x) : r.tag = "ours") \/ (\A r \in Rows : r.tag = "none")
    /\ \A q, r \in RowsOf(x) : SameKey(q, r) => SameSlot(q, r)

\* Whatever is interrupted or fails, what a vendor holds of a resource that can be given back
\* is known to the mapping table or to the undo record of a running handler, or was dropped
\* at one of the places that put it in lost.  The code drops all others without a fault.
NoSilentLeak ==
    \A x \in Resources : Traceable(x) => \A id \in live[x] :
        \/ \E r \in RowsOf(x) : mapping[r] = id
        \/ \E h \in Handlers : <<x, id>> \in Tracked(h)
        \/ <<x, id>> \in lost

\* What the four places of a request look like when they agree: no row is missing and each
\* certain one has a reservation, each reservation of a resource that can be given back has a
\* row, and no id is left when the request is not reserved.  Nobody tells the partners of a
\* deletion: they are left as they were, all alike.
Agreed(s) ==
    /\ \A p \in Parents : status[p] = s
    /\ CASE s = "RESERVED" ->
              /\ \A r \in Rows : mapping[r] # NoRow /\ (Certain(r) => mapping[r] \in live[r.on])
              /\ \A x \in Resources : Traceable(x) => live[x] \subseteq {mapping[r] : r \in RowsOf(x)}
              /\ \A e \in Involved : partner[e] = "RESERVED"
         [] s = "gone" ->
              /\ \A r \in Rows : mapping[r] = NoRow
              /\ \A x \in Resources : Traceable(x) => live[x] = {}
              /\ \A e, f \in Involved : partner[e] = partner[f]
         [] OTHER ->
              /\ \A r \in Rows : mapping[r] = NoId
              /\ \A x \in Resources : s = "PENDING" \/ Traceable(x) => live[x] = {}
              /\ \A e \in Involved : partner[e] = s

\* Between two operations the rows, the mapping table, the vendors and the partners
\* agree on one status, unless an operation was left half done at a named place.
AgreedUnlessGap ==
    Quiet /\ gaps = {} => \E s \in Statuses \cup {"gone"} : Agreed(s)

\* The parents of one request differ only as the undo of a Confirm leaves them, which
\* writes back the primary one alone: the others agree, and the primary is pending.
OnlyPrimaryStrays(s) ==
    /\ \A p, q \in Parents \ {Primary} : s[p] = s[q]
    /\ \A p \in Parents : s[p] = s[Primary] \/ s[Primary] = "PENDING"
ParentsSplitOneWay == OnlyPrimaryStrays(status)

\* A Confirm that answered ok has every partner it could find in hand, and for every row the
\* reservation that is in it.  Where partners take part, a row that is not certain may have
\* the id of a partner instead, and one of a port no reservation at all.
ConfirmedIsHeld ==
    \A h \in Handlers : Quiet /\ job[h].op = "Confirm" /\ job[h].answer = "ok" =>
        /\ \A p \in Parents : status[p] = "RESERVED"
        /\ "partnerSkipped" \in gaps \/ \A e \in Involved : partner[e] = "RESERVED"
        /\ \A r \in Rows : mapping[r] # NoRow =>
              \/ mapping[r] \in live[r.on]
              \/ ~Certain(r) /\ Involved # {} /\ (mapping[r] = Theirs \/ r.on \in Ports)

\* A Cancel or Rescind that answered ok leaves nothing of a resource that can be given back at
\* its vendor but what was lost before, and every parent, and every partner it could find, in
\* the target status.
CancelledIsFree ==
    \A h \in Handlers : Quiet /\ IsCancel(h) /\ job[h].answer = "ok" =>
        /\ \A p \in Parents : status[p] = Target(job[h].op)
        /\ "partnerSkipped" \in gaps \/ \A e \in Involved : partner[e] = Target(job[h].op)
        /\ \A x \in Resources : Traceable(x) => {x} \X live[x] \subseteq lost

\* A deleted request has no mapping row, and of a resource that can be given back nothing at
\* the vendor but lost reservations.
DeletedIsFree ==
    NoRows /\ Quiet =>
        /\ \A r \in Rows : mapping[r] = NoRow
        /\ \A x \in Resources : Traceable(x) => {x} \X live[x] \subseteq lost

\* doc/schema.yaml:382: a cancel takes back the reservation with its air ways, vehicles and
\* ports, so once one is answered no vendor holds anything for the request.
CancelFreesAll ==
    \A h \in Handlers : Quiet /\ job[h].op = "Cancel" /\ job[h].answer = "ok" =>
        \A x \in Resources : live[x] = {}

\* The primary parent's status as a client may count on it: what a handler wrote
\* and has not answered for yet is not counted.
Written(h) == \E i \in 1..Len(job[h].saga) : job[h].saga[i].kind \in {"unconfirm", "restoreStatus"}
Promised ==
    IF \E h \in Handlers : Written(h)
    THEN job[CHOOSE h \in Handlers : Written(h)].seen[Primary] ELSE status[Primary]

\* One handler at a time implements the client's view: an operation takes effect
\* when it answers ok and not at all when it fails, unless it is torn at a gap.
Lifecycle == INSTANCE RequestLifecycle WITH status <- Promised, torn <- gaps # {}
AtomicOrTorn == Lifecycle!Spec

\* Deleted rows stay deleted: every undo of a status is an UPDATE of existing rows,
\* whatever snapshot a concurrent handler kept.
DeletedStaysDeleted == [][NoRows => NoRows']_vars

\* What was given up comes back only by a handler with a stale copy of it.  A cancelled or
\* rescinded parent is opened again by the commit of a Confirm or the undo of a Cancel in
\* flight; a deleted mapping row is inserted again by a Confirm or a Cancel that saves the
\* rows it read before they were deleted, or by the undo of a Delete, as it had read it.
ReopenedByStaleRead ==
    [][/\ \A p \in Parents :
             status[p] \in {"CANCELED", "RESCINDED"} /\ status'[p] \in {"PENDING", "RESERVED"} =>
                \E h \in Handlers :
                   /\ InUse(h) /\ job'[h] # job[h]
                   /\ \/ job[h].op = "Confirm" /\ job[h].pc \in {"commit", "undo"}
                      \/ IsCancel(h) /\ At(h, "undo") /\ job[h].seen[p] = status'[p]
       /\ \A r \in Rows :
             mapping[r] = NoRow /\ mapping'[r] # NoRow =>
                \E h \in Handlers :
                   /\ InUse(h) /\ job'[h] # job[h] /\ job[h].rows[r] # NoRow
                   /\ \/ job[h].op = "Confirm" /\ At(h, "save")
                      \/ IsCancel(h) /\ At(h, "clear")
                      \/ At(h, "undo") /\ mapping'[r] = job[h].rows[r]]_vars

\* uasl_reservation.go:1062-1066: only a pending hold is confirmed ("reservation status
\* is not PENDING"), so a request whose cancellation was answered is not reserved.
OnlyPendingIsReserved ==
    [][\A h \in Handlers :
          At(h, "commit") /\ job[h].op = "Confirm" /\ job'[h].pc = "save" /\ status' # status =>
             status[Primary] = "PENDING"]_vars

\* A request that was started is answered, or its server crashed.
Answered == \A h \in Handlers : InUse(h) ~> ~InUse(h)

=============================================================================
