-------------------------------- MODULE Hold --------------------------------
(***************************************************************************)
(* How a booking request comes into being: TryHoldCompositeUasl, cut into    *)
(* one action per database call or outgoing call.  A hold first asks every    *)
(* other administrator on the route to hold its part, then looks for          *)
(* overlapping reservations of its own sections, then inserts its rows; what  *)
(* fails on the way is undone by the saga.                                    *)
(*                                                                         *)
(* The request id comes from the caller, and an administrator that asks us    *)
(* repeats it when it retries: several attempts may work on one request, at   *)
(* the same time, and an undo removes by request id.  Confirming and closing  *)
(* a request are single steps here (RequestLifecycle).                        *)
(***************************************************************************)
EXTENDS Integers, Sequences, FiniteSets

CONSTANTS
    Attempts,    \* calls of TryHoldCompositeUasl
    Requests,    \* request ids
    RequestOf,   \* RequestOf[a]: the request id attempt a carries
    Wants,       \* Wants[r]: the own sections of request r, with their times
    Needs,       \* Needs[r]: the other administrators on its route
    Partners,    \* other administrators
    Sections,    \* own sections
    Points,      \* points of the definitions
    PointIds,    \* PointIds[s]: the point_ids column of the definition of section s
    Hours,       \* instants that windows begin and end at
    MaxFaults,   \* bound: failed or unanswered calls, disconnects, crashes
    NoOne        \* what an undo step without a partner is on

Windows == [section : Sections, from : Hours, to : Hours]

ASSUME HoldAssumption ==
    /\ RequestOf \in [Attempts -> Requests]
    /\ Wants \in [Requests -> SUBSET Windows]
    /\ Needs \in [Requests -> SUBSET Partners]
    /\ PointIds \in [Sections -> SUBSET Points] /\ Points \cap Sections = {}
    /\ Hours \subseteq Int /\ MaxFaults \in Nat
    /\ \A r \in Requests : \A w \in Wants[r] : w.from < w.to
    /\ NoOne \notin Partners

VARIABLES
    parent,    \* parent[a]: status of the parent row attempt a inserted, or "none"
    children,  \* attempts whose child rows are in uasl_reservations
    maps,      \* attempts whose rows are in external_resource_reservations
    held,      \* <<e, r>>: administrator e has rows of request r
    job,       \* job[a]: what attempt a is doing
    faults,    \* faults met so far
    lost,      \* history: those of held that no row and no undo record here stands for
    gaps,      \* history: named places where attempt a left something half done
    blockers   \* history: reservations that conflict with a, since before a arrived

vars == <<parent, children, maps, held, job, faults, lost, gaps, blockers>>
db      == <<parent, children, maps>>
history == <<lost, gaps>>

Statuses == {"none", "PENDING", "RESERVED", "CANCELED"}
GapNames == {"answerLost", "unnamedHold", "orphanParent", "undoFailed", "sharedUndo", "crashed"}
Places   == {"new", "partners", "check", "price", "parent", "children", "mappings",
             "undo", "done"}
Answers  == {"none", "ok", "rejected", "conflict", "refused", "failed"}

Step(kind, on) == [kind |-> kind, on |-> on]
Steps == [kind : {"deletePartner"}, on : Partners] \cup [kind : {"deleteRows"}, on : {NoOne}]
Jobs  == [pc : Places, alive : BOOLEAN, todo : SUBSET Partners, saga : Seq(Steps),
          left : Nat, verdict : Answers]

Ended(a) == [pc |-> "done", alive |-> TRUE, todo |-> {}, saga |-> <<>>, left |-> 0,
             verdict |-> a]

Init ==
    /\ parent = [a \in Attempts |-> "none"]
    /\ children = {} /\ maps = {} /\ held = {}
    /\ job = [a \in Attempts |-> [Ended("none") EXCEPT !.pc = "new"]]
    /\ faults = 0 /\ lost = {}
    /\ gaps = [a \in Attempts |-> {}]
    /\ blockers = [a \in Attempts |-> {}]

-----------------------------------------------------------------------------
(* Vocabulary of the steps. *)

At(a, place) == job[a].pc = place
InUse(a) == job[a].pc \notin {"new", "done"}
Siblings(a) == {b \in Attempts \ {a} : RequestOf[b] = RequestOf[a]}
Copy(a, e) == <<e, RequestOf[a]>>
AnsweredOk(a) == At(a, "done") /\ job[a].verdict = "ok"

\* The steps a Rollback would still undo, and the partners among them.
Standing(j) == IF j.pc = "undo" THEN j.left ELSE Len(j.saga)
RecordOf(j) ==
    {e \in Partners : \E i \in 1..Standing(j) : j.saga[i] = Step("deletePartner", e)}
\* What partners hold that the undo record of a stands for.
Recorded(a) == {Copy(a, e) : e \in RecordOf(job[a])}

Fault(n) == faults + n <= MaxFaults /\ faults' = faults + n
Gap(a, names) == gaps' = [gaps EXCEPT ![a] = @ \cup names]

Goto(a, place) == job' = [job EXCEPT ![a].pc = place]
Answer(a, v) == job' = [job EXCEPT ![a] = Ended(v)]
Rollback(a, v) ==
    job' = [job EXCEPT ![a].pc = "undo", ![a].left = Len(job[a].saga), ![a].verdict = v]

-----------------------------------------------------------------------------
(* Two windows conflict when they are of one section, or of sections that    *)
(* share a point, and overlap in time (CheckConflictReservations).           *)

\* Mutated: sections that share a point are not looked at.
Overlaps_SameSection(v, w) == v.section = w.section /\ v.from < w.to /\ v.to > w.from
\* Mutated: windows that touch count as overlapping.
Overlaps_Touching(v, w) ==
    /\ v.section = w.section \/ PointIds[v.section] \cap PointIds[w.section] # {}
    /\ v.from <= w.to /\ v.to >= w.from
Overlaps(v, w) ==
    /\ v.section = w.section \/ PointIds[v.section] \cap PointIds[w.section] # {}
    /\ v.from < w.to /\ v.to > w.from

\* The attempts whose child rows the query finds: a hold that is pending is not among
\* them, and those of the request itself are.
Conflicting(r) ==
    {b \in children : /\ parent[b] = "RESERVED"
                      /\ \E v \in Wants[RequestOf[b]], w \in Wants[r] : Overlaps(v, w)}

-----------------------------------------------------------------------------
(* What it means that two requests collide, place by place and hour by hour: *)
(* the history variable and the properties use it, no action decides by it.  *)

\* A section is a place of its own, and so is each of its points; a window does not
\* occupy the instant it ends at.
Occupied(r) ==
    UNION {({w.section} \cup PointIds[w.section]) \X {h \in Hours : w.from <= h /\ h < w.to} :
              w \in Wants[r]}
Collide(a, b) == Occupied(RequestOf[a]) \cap Occupied(RequestOf[b]) # {}
Reserved(a) == a \in children /\ parent[a] = "RESERVED"

-----------------------------------------------------------------------------
(* Arrival: building the domain objects, validation, classification and      *)
(* resolution of administrators.  Nothing is recorded yet.                   *)

Arrive(a) ==
    /\ At(a, "new")
    /\ \/ job' = [job EXCEPT ![a].pc = "partners", ![a].todo = Needs[RequestOf[a]]]
       \/ Answer(a, "rejected")
    /\ blockers' = [blockers EXCEPT ![a] = {b \in Attempts : Reserved(b) /\ Collide(a, b)}]
    /\ UNCHANGED <<db, held, faults, history>>

-----------------------------------------------------------------------------
(* ReserveExternalUasl, for every other administrator: the call carries our   *)
(* request id, and is repeated when the connection breaks, so that the        *)
(* partner may have been asked before.                                        *)

\* Mutated: the partner's hold is not recorded.
PartnerHolds_Unrecorded(a, e) ==
    /\ At(a, "partners") /\ e \in job[a].todo /\ job[a].alive
    /\ held' = held \cup {Copy(a, e)}
    /\ lost' = lost \ {Copy(a, e)}
    /\ job' = [job EXCEPT ![a].todo = @ \ {e}]
    /\ UNCHANGED <<db, faults, gaps, blockers>>

PartnerHolds(a, e) ==
    /\ At(a, "partners") /\ e \in job[a].todo /\ job[a].alive
    /\ held' = held \cup {Copy(a, e)}
    /\ lost' = lost \ {Copy(a, e)}
    /\ job' = [job EXCEPT ![a].todo = @ \ {e},
                          ![a].saga = Append(@, Step("deletePartner", e))]
    /\ UNCHANGED <<db, faults, gaps, blockers>>

\* A success without a request id in it: nothing to undo is recorded.
PartnerUnnamed(a, e) ==
    /\ At(a, "partners") /\ e \in job[a].todo /\ job[a].alive /\ Fault(1)
    /\ \/ held' = held /\ lost' = lost
       \/ held' = held \cup {Copy(a, e)} /\ lost' = lost \cup {Copy(a, e)}
    /\ job' = [job EXCEPT ![a].todo = @ \ {e}]
    /\ Gap(a, {"unnamedHold"})
    /\ UNCHANGED <<db, blockers>>

\* A refusal, a failure, an answer that cannot be decoded or never comes.
PartnerFails(a, e) ==
    /\ At(a, "partners") /\ e \in job[a].todo
    /\ \/ UNCHANGED <<held, lost, gaps, faults>>
       \/ /\ job[a].alive /\ Fault(1)                    \* done, answer lost
          /\ held' = held \cup {Copy(a, e)}
          /\ lost' = lost \cup {Copy(a, e)}
          /\ Gap(a, {"answerLost"})
    /\ Rollback(a, "failed")
    /\ UNCHANGED <<db, blockers>>

PartnersDone(a) ==
    /\ At(a, "partners") /\ job[a].todo = {}
    /\ Goto(a, "check")
    /\ UNCHANGED <<db, held, faults, history, blockers>>

-----------------------------------------------------------------------------
(* The checks.  CheckUaslReservationConflict reads the rows once; before it   *)
(* the resources must be known, after it the flight plans, the vendors'       *)
(* calendars, the unresolved ports and the prices may refuse or fail.         *)

SectionsFree(a) ==
    /\ At(a, "check") /\ Conflicting(RequestOf[a]) = {}
    /\ Goto(a, "price")
    /\ UNCHANGED <<db, held, faults, history, blockers>>

SectionsTaken(a) ==
    /\ At(a, "check") /\ Conflicting(RequestOf[a]) # {}
    /\ Rollback(a, "conflict")
    /\ UNCHANGED <<db, held, faults, history, blockers>>

ChecksFail(a) ==
    /\ \/ (At(a, "check") \/ At(a, "price")) /\ Rollback(a, "failed")
       \/ At(a, "price") /\ Rollback(a, "refused")
    /\ UNCHANGED <<db, held, faults, history, blockers>>

Priced(a) ==
    /\ At(a, "price")
    /\ Goto(a, "parent")
    /\ UNCHANGED <<db, held, faults, history, blockers>>

-----------------------------------------------------------------------------
(* ReserveUasl inserts the parent and then the rest, each statement its own   *)
(* transaction, and records one undo step after both; then the mapping rows.  *)

InsertParent(a) ==
    /\ At(a, "parent")
    /\ parent' = [parent EXCEPT ![a] = "PENDING"]
    /\ Goto(a, "children")
    /\ UNCHANGED <<children, maps, held, faults, history, blockers>>

\* When the second insert fails the parent row stays: no step stands for it.  It fails
\* by the foreign key when another attempt's undo has deleted the parent.
InsertFails(a) ==
    /\ \/ (At(a, "parent") \/ At(a, "children")) /\ Fault(1)
       \/ At(a, "children") /\ parent[a] = "none" /\ UNCHANGED faults
    /\ Gap(a, IF parent[a] = "none" THEN {} ELSE {"orphanParent"})
    /\ Rollback(a, "failed")
    /\ UNCHANGED <<db, held, lost, blockers>>

InsertChildren(a) ==
    /\ At(a, "children") /\ parent[a] # "none"
    /\ children' = children \cup {a}
    /\ job' = [job EXCEPT ![a].pc = "mappings",
                          ![a].saga = Append(@, Step("deleteRows", NoOne))]
    /\ UNCHANGED <<parent, maps, held, faults, history, blockers>>

\* The rows may be gone by now, and the undo record goes with the answer.
InsertMappings(a) ==
    /\ At(a, "mappings")
    /\ maps' = maps \cup {a}
    /\ lost' = lost \cup (IF parent[a] = "none" THEN held \cap Recorded(a) ELSE {})
    /\ Answer(a, "ok")
    /\ UNCHANGED <<parent, children, held, faults, gaps, blockers>>

\* Mutated: the failure is logged, and the hold answers ok.
InsertMappingsFails_Logged(a) ==
    /\ At(a, "mappings") /\ Fault(1)
    /\ Answer(a, "ok")
    /\ UNCHANGED <<db, held, history, blockers>>
\* Mutated: the failure is returned without a Rollback.
InsertMappingsFails_NoRollback(a) ==
    /\ At(a, "mappings") /\ Fault(1)
    /\ Answer(a, "failed")
    /\ UNCHANGED <<db, held, history, blockers>>
InsertMappingsFails(a) ==
    /\ At(a, "mappings") /\ Fault(1)
    /\ Rollback(a, "failed")
    /\ UNCHANGED <<db, held, history, blockers>>

-----------------------------------------------------------------------------
(* Orchestrator.Rollback.  Both undo steps delete by request id, whatever     *)
(* attempt the rows belong to.                                                *)

Undoing(a) == At(a, "undo") /\ job[a].left > 0
Current(a) == job[a].saga[job[a].left]
UndoKind(a, kind) == Undoing(a) /\ Current(a).kind = kind
\* Mutated: the loop steps over every second step.
StepUndone_Skips(a) == job' = [job EXCEPT ![a].left = @ - 2]
StepUndone(a) == job' = [job EXCEPT ![a].left = @ - 1]

\* The other attempts on the request that lose what they hold with a.
Robbed(a) == {b \in Siblings(a) : parent[b] # "none" \/ job[b].saga # <<>>}
Note(a, names) ==
    gaps' = [b \in Attempts |-> gaps[b] \cup (IF b = a THEN names ELSE {})
                                        \cup (IF b \in Robbed(a) THEN {"sharedUndo"} ELSE {})]

\* The partner deletes the request, whether or not its answer arrives.
UndoPartner(a) ==
    /\ UndoKind(a, "deletePartner") /\ job[a].alive
    /\ Copy(a, Current(a).on) \in held
    /\ \/ UNCHANGED faults /\ Note(a, {})
       \/ Fault(1) /\ Note(a, {"undoFailed"})
    /\ held' = held \ {Copy(a, Current(a).on)}
    /\ lost' = lost \ {Copy(a, Current(a).on)}
    /\ StepUndone(a)
    /\ UNCHANGED <<db, blockers>>

\* What partners hold for rows of other attempts, and no undo record stands for.
Stray(a) ==
    {copy \in held : /\ copy[2] = RequestOf[a] /\ \E b \in Siblings(a) : parent[b] # "none"
                     /\ \A b \in Attempts : copy \notin Recorded(b)}

UndoRows(a) ==
    /\ UndoKind(a, "deleteRows") /\ job[a].alive
    /\ LET gone == {a} \cup Siblings(a) IN
          /\ parent' = [b \in Attempts |-> IF b \in gone THEN "none" ELSE parent[b]]
          /\ children' = children \ gone
          /\ blockers' = [b \in Attempts |-> blockers[b] \ gone]
    /\ lost' = lost \cup Stray(a)
    /\ Note(a, {})
    /\ StepUndone(a)
    /\ UNCHANGED <<maps, held, faults>>

\* Not tried because the client is gone, refused because the request is unknown there,
\* or failed.
UndoFails(a) ==
    /\ Undoing(a)
    /\ \/ ~job[a].alive /\ UNCHANGED faults
       \/ /\ UndoKind(a, "deletePartner") /\ Copy(a, Current(a).on) \notin held
          /\ UNCHANGED faults
       \/ Fault(1)
    /\ Gap(a, {"undoFailed"})
    /\ lost' = lost \cup (held \cap {Copy(a, Current(a).on)})
    /\ StepUndone(a)
    /\ UNCHANGED <<db, held, blockers>>

\* Mutated: the steps are run once more.
UndoDone_Again(a) ==
    /\ At(a, "undo") /\ job[a].left = 0
    /\ Rollback(a, job[a].verdict)
    /\ UNCHANGED <<db, held, faults, history, blockers>>

UndoDone(a) ==
    /\ At(a, "undo") /\ job[a].left = 0
    /\ Answer(a, job[a].verdict)
    /\ UNCHANGED <<db, held, faults, history, blockers>>

-----------------------------------------------------------------------------
(* The client leaves (the request's context is cancelled), the server stops,  *)
(* a request that was held is confirmed or closed.                            *)

Disconnect(a) ==
    /\ InUse(a) /\ job[a].alive /\ Fault(1)
    /\ job' = [job EXCEPT ![a].alive = FALSE]
    /\ UNCHANGED <<db, held, history, blockers>>

Crash ==
    /\ \E a \in Attempts : InUse(a)
    /\ Fault(1)
    /\ job' = [a \in Attempts |-> IF InUse(a) THEN Ended("none") ELSE job[a]]
    /\ lost' = lost \cup (held \cap UNION {Recorded(a) : a \in Attempts})
    /\ gaps' = [a \in Attempts |-> gaps[a] \cup (IF InUse(a) THEN {"crashed"} ELSE {})]
    /\ UNCHANGED <<db, held, blockers>>

RowsOf(r) == {a \in Attempts : RequestOf[a] = r /\ parent[a] # "none"}
SetStatus(r, s) == parent' = [a \in Attempts |-> IF a \in RowsOf(r) THEN s ELSE parent[a]]

\* The parent that is found is pending; all parents of the request are updated.
Confirm(r) ==
    /\ \E a \in RowsOf(r) : AnsweredOk(a) /\ parent[a] = "PENDING"
    /\ SetStatus(r, "RESERVED")
    /\ UNCHANGED <<children, maps, held, job, faults, history, blockers>>

Close(r) ==
    /\ \E a \in RowsOf(r) : AnsweredOk(a) /\ parent[a] \in {"PENDING", "RESERVED"}
    /\ SetStatus(r, "CANCELED")
    /\ blockers' = [a \in Attempts |-> blockers[a] \ RowsOf(r)]
    /\ UNCHANGED <<children, maps, held, job, faults, history>>

-----------------------------------------------------------------------------
Asking(a) ==
    \/ \E e \in Partners : PartnerHolds(a, e) \/ PartnerUnnamed(a, e) \/ PartnerFails(a, e)
    \/ PartnersDone(a)
Checking(a)  == SectionsFree(a) \/ SectionsTaken(a) \/ ChecksFail(a) \/ Priced(a)
Inserting(a) ==
    \/ InsertParent(a) \/ InsertChildren(a) \/ InsertFails(a)
    \/ InsertMappings(a) \/ InsertMappingsFails(a)
Undo(a) == UndoPartner(a) \/ UndoRows(a) \/ UndoFails(a) \/ UndoDone(a)

\* What the goroutine that serves the attempt does once it runs.
Progress(a) == Asking(a) \/ Checking(a) \/ Inserting(a) \/ Undo(a)

Idle == (\A a \in Attempts : At(a, "done")) /\ UNCHANGED vars

Next ==
    \/ \E a \in Attempts : Arrive(a) \/ Progress(a) \/ Disconnect(a)
    \/ \E r \in Requests : Confirm(r) \/ Close(r)
    \/ Crash
    \/ Idle

\* The Go scheduler runs every goroutine and every call is bounded by a timeout.
Fairness == \A a \in Attempts : WF_vars(Progress(a))

Spec == Init /\ [][Next]_vars /\ Fairness

-----------------------------------------------------------------------------
(* Properties. *)

\* The parts of the type invariant, one per group of variables.
RowsOK    == parent \in [Attempts -> Statuses] /\ children \subseteq Attempts
             /\ maps \subseteq Attempts
PartnerOK == held \subseteq Partners \X Requests
JobOK     == job \in [Attempts -> Jobs] /\ \A a \in Attempts : job[a].left <= Len(job[a].saga)
HistoryOK == /\ faults \in 0..MaxFaults /\ lost \subseteq held
             /\ gaps \in [Attempts -> SUBSET GapNames]
             /\ blockers \in [Attempts -> SUBSET Attempts]
\* Every table, record and set holds what the code can put there, and a Rollback never
\* looks beyond the steps that were recorded.
TypeOK    == RowsOK /\ PartnerOK /\ JobOK /\ HistoryOK

\* Whatever fails or is interrupted, a request another administrator holds for us is
\* known here by its rows or by the undo record of a running attempt, or it was dropped
\* at one of the places that put it in lost.
NoSilentPartnerHold ==
    \A copy \in held :
        \/ copy \in lost
        \/ \E a \in Attempts : copy \in Recorded(a)
        \/ \E a \in RowsOf(copy[2]) : copy[1] \in Needs[copy[2]]

\* A hold that answered ok and was not closed has its rows, its mapping rows and every
\* partner's hold, for as long as no other attempt on the same request id is undone.
HeldStaysHeld ==
    \A a \in Attempts :
        AnsweredOk(a) /\ "sharedUndo" \notin gaps[a] =>
            /\ parent[a] # "none" /\ a \in children /\ a \in maps
            /\ "unnamedHold" \in gaps[a] \/ \A e \in Needs[RequestOf[a]] : Copy(a, e) \in held

\* A hold that did not answer ok left no mapping row, no parent without a named gap,
\* and no children unless its undo failed.
FailedLeavesNothing ==
    \A a \in Attempts : At(a, "done") /\ job[a].verdict \in {"conflict", "refused", "failed"} =>
        /\ a \notin maps
        /\ parent[a] # "none" => gaps[a] \cap {"orphanParent", "undoFailed"} # {}
        /\ a \in children => "undoFailed" \in gaps[a]

\* An attempt answers ok only if nothing it collides with was reserved from before its
\* arrival until its check: a hold never overlooks what was confirmed before it came.
SeesConfirmed ==
    \A a \in Attempts : AnsweredOk(a) => blockers[a] = {}

\* A hold turned away for its sections really shares a place and an hour with rows that
\* are reserved at that moment: windows that only touch do not count.
ConflictIsReal ==
    [][\A a \in Attempts :
          At(a, "check") /\ job'[a].verdict = "conflict" =>
             \E b \in Attempts : Reserved(b) /\ Collide(a, b)]_vars

\* An attempt that was started is answered, or its server crashed.
HoldAnswered == \A a \in Attempts : InUse(a) ~> ~InUse(a)

\* doc/schema.yaml:102-103: a booking whose air space or route overlaps another one
\* fails with a conflict, so two requests that overlap are never both reserved.
NoDoubleBooking ==
    \A a, b \in Attempts :
        Reserved(a) /\ Reserved(b) /\ RequestOf[a] # RequestOf[b] => ~Collide(a, b)

=============================================================================
