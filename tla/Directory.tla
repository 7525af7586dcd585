----------------------------- MODULE Directory -----------------------------
(***************************************************************************)
(* What the server knows of air ways and administrators.  The table            *)
(* uasl_administrators says who runs which air way (external_services) and      *)
(* whether an administrator is our own; external_uasl_definitions has the        *)
(* sections, external_uasl_resources the aircraft and ports.  Nobody keeps       *)
(* these tables by hand: a GetAvailability request ingests what it names from    *)
(* our own design service and the vendors, and whoever needs the administrator   *)
(* of an air way resolves it, through the L4 discovery service or the design     *)
(* service.  Both read a row, merge, and write the whole row, in no transaction. *)
(*                                                                         *)
(* Every hold, confirm, cancel, list and notification decides by these rows      *)
(* which sections are our own (ClassifyInternalExternalUaslIDs).                 *)
(***************************************************************************)
EXTENDS Naturals, FiniteSets

CONSTANTS
    Procs,      \* goroutines that serve a request
    Admins,     \* administrators
    Own,        \* those that run this server
    Uasls,      \* air ways
    AdminOf,    \* AdminOf[u]: the administrator of u
    Vehicles, Ports,   \* aircraft and ports the vendors know
    Asks,       \* what a request names: air ways, aircraft, ports
    MaxOps, MaxFaults

Resources == Vehicles \cup Ports

ASSUME DirectoryAssumption ==
    /\ Own \subseteq Admins /\ AdminOf \in [Uasls -> Admins]
    /\ Vehicles \cap Ports = {}
    /\ \A k \in Asks : k.uasls \subseteq Uasls /\ k.items \subseteq Resources
    /\ MaxOps \in Nat /\ MaxFaults \in Nat

\* Our design service lists our own air ways: ingestion marks whoever it names internal.
OwnUasls == {u \in Uasls : AdminOf[u] \in Own}

VARIABLES
    admin,      \* rows of uasl_administrators
    defs,       \* air ways with rows in external_uasl_definitions
    stock,      \* rows of external_uasl_resources
    job,        \* job[p]: the request p serves
    ops, faults,
    dropped,    \* entries a write left out because it did not know them
    unguarded   \* our own administrators written by somebody who did not know them

vars == <<admin, defs, stock, job, ops, faults, dropped, unguarded>>

Row(there, internal, uasls) == [there |-> there, internal |-> internal, uasls |-> uasls]
Rows == [there : BOOLEAN, internal : BOOLEAN, uasls : SUBSET Uasls]
NoRow == Row(FALSE, FALSE, {})

Kinds == {"none", "availability", "request", "notify"}
Places == {"idle", "any", "missing", "fetch", "items", "merge", "write", "define", "store",
           "classify", "known", "guard", "discover", "remerge", "rewrite"}

\* read is the copy of the rows a merge starts from, got what was fetched.
Jobs == [kind : Kinds, pc : Places, uasls : SUBSET Uasls, items : SUBSET Resources,
         full : BOOLEAN, got : SUBSET Uasls, found : SUBSET Resources,
         read : [Admins -> Rows], ours : SUBSET Uasls, known : SUBSET Admins,
         failed : BOOLEAN]

Nothing == [a \in Admins |-> NoRow]
Idle(k) ==
    [kind |-> k, pc |-> "idle", uasls |-> {}, items |-> {}, full |-> FALSE, got |-> {},
     found |-> {}, read |-> Nothing, ours |-> {}, known |-> {}, failed |-> FALSE]

Init ==
    /\ admin = Nothing /\ defs = {} /\ stock = {}
    /\ job = [p \in Procs |-> Idle("none")]
    /\ ops = 0 /\ faults = 0 /\ dropped = {} /\ unguarded = {}

-----------------------------------------------------------------------------
tables  == <<admin, defs, stock>>
history == <<dropped, unguarded>>

At(p, place) == job[p].pc = place
Set(p, j) == job' = [job EXCEPT ![p] = j]
Goto(p, place) == Set(p, [job[p] EXCEPT !.pc = place])
End(p) == Set(p, Idle("none"))
Fault == faults < MaxFaults /\ faults' = faults + 1
\* The ingestion meets a failure, logs it and goes on.
Log(p, j) == Fault /\ Set(p, [j EXCEPT !.failed = TRUE])

AdminsOf(us) == {AdminOf[u] : u \in us}
Listed == UNION {admin[a].uasls : a \in Admins}
Internals == {a \in Admins : admin[a].internal}

-----------------------------------------------------------------------------
(* A request arrives.  Only GetAvailability ingests; a notification takes all   *)
(* its air ways for other administrators'.                                      *)

Arrive(p, k, ask) ==
    /\ At(p, "idle") /\ ops < MaxOps /\ ops' = ops + 1
    /\ Set(p, [Idle(k) EXCEPT !.pc = IF k = "availability" THEN "any" ELSE "classify",
                              !.uasls = ask.uasls, !.items = ask.items])
    /\ UNCHANGED <<tables, faults, history>>

-----------------------------------------------------------------------------
(* IngestForGetAvailability: what is missing is fetched, everything when the     *)
(* table is empty or cannot be read.                                            *)

HasAnyExternalDefinitions(p) ==
    /\ At(p, "any")
    /\ \/ /\ Set(p, [job[p] EXCEPT !.full = (defs = {}),
                                   !.pc = IF defs = {} THEN "fetch" ELSE "missing"])
          /\ UNCHANGED faults
       \/ Log(p, [job[p] EXCEPT !.full = TRUE, !.pc = "fetch"])
    /\ UNCHANGED <<tables, ops, history>>

\* Mutated: an air way that is there already keeps the others from being fetched.
Missing_None(p) == IF job[p].uasls \cap defs = {} THEN job[p].uasls ELSE {}
Missing(p) == job[p].uasls \ defs

FindExistingExUaslIDs(p) ==
    /\ At(p, "missing")
    /\ \/ /\ Set(p, [job[p] EXCEPT !.got = Missing(p) \cap OwnUasls,
                                   !.pc = IF Missing(p) = {} THEN "items" ELSE "fetch"])
          /\ UNCHANGED faults
       \/ Log(p, [job[p] EXCEPT !.full = TRUE, !.pc = "fetch"])
    /\ UNCHANGED <<tables, ops, history>>

\* FetchUaslList, or FetchUaslByID for one after the other: an air way that cannot be
\* fetched is left out, and one that is not ours is answered with nothing.
Fetch(p) ==
    LET all == IF job[p].full THEN OwnUasls ELSE job[p].got IN
    /\ At(p, "fetch")
    /\ \/ Set(p, [job[p] EXCEPT !.got = all, !.pc = "items"]) /\ UNCHANGED faults
       \/ \E some \in IF job[p].full THEN {{}} ELSE SUBSET all :
             Log(p, [job[p] EXCEPT !.got = some, !.pc = "items"])
    /\ UNCHANGED <<tables, ops, history>>

\* Of each kind everything when the table is empty, else what was asked for and is not
\* there; a failed look into the table fetches everything, or nothing.
ToCollect(p, kind) ==
    IF stock = {} THEN kind
    ELSE (job[p].items \ stock) \cap kind
CollectItems(p) ==
    /\ At(p, "items")
    /\ \E v \in {ToCollect(p, Vehicles), Vehicles, {}}, d \in {ToCollect(p, Ports), Ports, {}} :
          LET next == [job[p] EXCEPT !.found = v \cup d,
                                     !.pc = IF job[p].got = {} THEN "store" ELSE "merge"]
          IN IF v = ToCollect(p, Vehicles) /\ d = ToCollect(p, Ports)
             THEN Set(p, next) /\ UNCHANGED faults
             ELSE Log(p, next)
    /\ UNCHANGED <<tables, ops, history>>

-----------------------------------------------------------------------------
(* upsertCollectedData: administrators, definitions, resources; each failure is  *)
(* logged.                                                                       *)

\* What was read now.  When it cannot be read nothing is merged.
ReadForMerge(p) ==
    /\ At(p, "merge")
    /\ \/ /\ Set(p, [job[p] EXCEPT !.read = admin, !.pc = "write"]) /\ UNCHANGED faults
       \/ Log(p, [job[p] EXCEPT !.read = Nothing, !.pc = "write"])
    /\ UNCHANGED <<tables, ops, history>>

Listing(a, got) == {u \in got : AdminOf[u] = a}
\* Mutated: an UPDATE, which inserts nothing.
Upserted_UpdateOnly(as, internal, got, read) ==
    [a \in Admins |->
        IF a \in as THEN [admin[a] EXCEPT !.internal = internal,
                                         !.uasls = Listing(a, got) \cup read[a].uasls]
        ELSE admin[a]]
\* Mutated: ON CONFLICT DO NOTHING.
Upserted_DoNothing(as, internal, got, read) ==
    [a \in Admins |->
        IF a \in as /\ ~admin[a].there THEN Row(TRUE, internal, Listing(a, got)) ELSE admin[a]]
\* Mutated: the entries that were there are not carried over.
Upserted_Fresh(as, internal, got, read) ==
    [a \in Admins |-> IF a \in as THEN Row(TRUE, internal, Listing(a, got)) ELSE admin[a]]
\* ON CONFLICT the whole row is replaced.
Upserted(as, internal, got, read) ==
    [a \in Admins |->
        IF a \in as THEN Row(TRUE, internal, Listing(a, got) \cup read[a].uasls)
        ELSE admin[a]]
\* Entries that came or went between the read and the write, and those never read.
Unseen(as, read) == UNION {admin[a].uasls \ read[a].uasls : a \in as}
Written(p, as, internal) ==
    /\ admin' = Upserted(as, internal, job[p].got, job[p].read)
    /\ dropped' = (dropped \cup Unseen(as, job[p].read)) \ UNION {admin'[a].uasls : a \in as}

UpsertAdmins(p) ==
    /\ At(p, "write")
    /\ \/ /\ Written(p, AdminsOf(job[p].got), TRUE)
          /\ unguarded' = unguarded \ AdminsOf(job[p].got)
          /\ Goto(p, "define")
          /\ UNCHANGED faults
       \/ \* the write fails: the definitions follow all the same
          /\ Log(p, [job[p] EXCEPT !.pc = "define"])
          /\ dropped' = dropped \cup (job[p].got \ Listed)
          /\ UNCHANGED <<admin, unguarded>>
    /\ UNCHANGED <<defs, stock, ops>>

\* A chunk fails by itself; a definition without an administrator's row is refused.
UpsertDefinitions(p) ==
    /\ At(p, "define")
    /\ \/ /\ \A u \in job[p].got : admin[AdminOf[u]].there
          /\ defs' = defs \cup job[p].got
          /\ Goto(p, "store") /\ UNCHANGED faults
       \/ /\ \E some \in SUBSET {u \in job[p].got : admin[AdminOf[u]].there} :
                defs' = defs \cup some
          /\ Log(p, [job[p] EXCEPT !.pc = "store"])
       \/ /\ \E u \in job[p].got : ~admin[AdminOf[u]].there
          /\ Set(p, [job[p] EXCEPT !.pc = "store", !.failed = TRUE])
          /\ UNCHANGED <<defs, faults>>
    /\ UNCHANGED <<admin, stock, ops, history>>

UpsertResources(p) ==
    /\ At(p, "store")
    /\ \/ stock' = stock \cup job[p].found /\ Goto(p, "classify") /\ UNCHANGED faults
       \/ /\ \E some \in SUBSET job[p].found : stock' = stock \cup some
          /\ Log(p, [job[p] EXCEPT !.pc = "classify"])
    /\ UNCHANGED <<admin, defs, ops, history>>

-----------------------------------------------------------------------------
(* ClassifyInternalExternalUaslIDs, then ResolveAdministratorsForAvailability.   *)

OurUasls == UNION {admin[a].uasls : a \in Internals}
External(p) == IF job[p].kind = "notify" THEN job[p].uasls ELSE job[p].uasls \ job[p].ours

\* The request fails when the internal administrators cannot be read; a notification does
\* without them.
Classify(p) ==
    /\ At(p, "classify")
    /\ \/ /\ IF job[p].kind = "notify" \/ ~(job[p].uasls \subseteq OurUasls)
             THEN Set(p, [job[p] EXCEPT !.ours = IF job[p].kind = "notify" THEN OurUasls
                                                 ELSE OurUasls \cap job[p].uasls,
                                        !.pc = "known"])
             ELSE End(p)
          /\ UNCHANGED faults
       \/ /\ Fault
          /\ IF job[p].kind = "notify" THEN Goto(p, "known") ELSE End(p)
    /\ UNCHANGED <<tables, ops, history>>

\* Whatever is in no administrator's row is looked for.
FindByExUaslIDs(p) ==
    /\ At(p, "known")
    /\ \E seen \in {Listed, {}} :
          /\ IF seen = Listed THEN UNCHANGED faults ELSE Fault
          /\ LET need == External(p) \ seen IN
             IF need = {} THEN End(p)
             ELSE Set(p, [job[p] EXCEPT !.got = need, !.pc = "guard"])
    /\ UNCHANGED <<tables, ops, history>>

\* The rows of internal administrators shall not be touched; nobody is known for one when
\* they cannot be read.
FindInternalAdministrators(p) ==
    /\ At(p, "guard")
    /\ \/ /\ Set(p, [job[p] EXCEPT !.known = Internals, !.pc = "discover"]) /\ UNCHANGED faults
       \/ /\ Set(p, [job[p] EXCEPT !.known = {}, !.pc = "discover"]) /\ Fault
    /\ UNCHANGED <<tables, ops, history>>

\* Mutated: nobody is left alone.
Discovered_All(p, as) == as
Discovered(p, as) == as \ job[p].known

\* resolveAdminsByL4: what the administrators near our own sections list now, ourselves
\* perhaps among them.  resolveAdminsByFetchUaslByID, when no section is our own: the
\* design service is asked for each air way.
Discover(p) ==
    /\ At(p, "discover")
    /\ \E us \in SUBSET IF job[p].ours # {} THEN Uasls ELSE job[p].got \cap OwnUasls :
          LET got == {u \in us : AdminOf[u] \in Discovered(p, AdminsOf(us))} IN
          IF got = {} THEN End(p)
          ELSE Set(p, [job[p] EXCEPT !.got = got, !.pc = "remerge"])
    /\ UNCHANGED <<tables, ops, faults, history>>

\* Here a read that fails keeps the rows from being written.
ReadForRemerge(p) ==
    /\ At(p, "remerge")
    /\ \/ Set(p, [job[p] EXCEPT !.read = admin, !.pc = "rewrite"]) /\ UNCHANGED faults
       \/ End(p) /\ Fault
    /\ UNCHANGED <<tables, ops, history>>

UpsertResolved(p) ==
    /\ At(p, "rewrite")
    /\ \/ /\ Written(p, AdminsOf(job[p].got), FALSE)
          /\ unguarded' = unguarded \cup ((AdminsOf(job[p].got) \cap Own) \ job[p].known)
          /\ UNCHANGED faults
       \/ Fault /\ UNCHANGED <<admin, history>>
    /\ End(p)
    /\ UNCHANGED <<defs, stock, ops>>

-----------------------------------------------------------------------------
\* The process dies; what a request had read is gone.
Crash ==
    /\ \E p \in Procs : ~At(p, "idle")
    /\ Fault
    /\ job' = [p \in Procs |-> Idle("none")]
    /\ UNCHANGED <<tables, ops, history>>

Ingest(p) ==
    \/ HasAnyExternalDefinitions(p) \/ FindExistingExUaslIDs(p) \/ Fetch(p) \/ CollectItems(p)
    \/ ReadForMerge(p) \/ UpsertAdmins(p) \/ UpsertDefinitions(p) \/ UpsertResources(p)
Resolve(p) ==
    \/ Classify(p) \/ FindByExUaslIDs(p) \/ FindInternalAdministrators(p) \/ Discover(p)
    \/ ReadForRemerge(p) \/ UpsertResolved(p)

Quiet == ops = MaxOps /\ (\A p \in Procs : At(p, "idle")) /\ UNCHANGED vars

Next ==
    \/ \E p \in Procs :
          \/ \E k \in Kinds \ {"none"}, ask \in Asks : Arrive(p, k, ask)
          \/ Ingest(p) \/ Resolve(p)
    \/ Crash
    \/ Quiet

Spec == Init /\ [][Next]_vars

-----------------------------------------------------------------------------
(* Properties. *)

\* Every record holds what the code can put there; our own air ways are the only ones
\* with definitions, and rows that are not there are empty.
TypeOK ==
    /\ admin \in [Admins -> Rows] /\ defs \subseteq OwnUasls /\ stock \subseteq Resources
    /\ job \in [Procs -> Jobs]
    /\ ops \in 0..MaxOps /\ faults \in 0..MaxFaults
    /\ dropped \subseteq Uasls /\ unguarded \subseteq Own
    /\ \A a \in Admins : ~admin[a].there => admin[a] = NoRow

\* An own air way with definitions is never ingested again, so its administrator's row
\* must say that we run it, unless its entry was overwritten by a write that had not read
\* it, or never written.
OwnRoutable ==
    \A u \in defs : u \in admin[AdminOf[u]].uasls \cup dropped

\* The administrator of an air way with definitions is taken for our own, unless a
\* resolver wrote its row that had not found it among the internal ones.
OwnStaysOwn ==
    \A u \in defs : admin[AdminOf[u]].internal \/ AdminOf[u] \in unguarded

\* What ingestion and resolution have learnt of an administrator is lost only to a write
\* that could not know it.
NothingForgotten ==
    [][\A a \in Admins : admin[a].uasls \subseteq admin'[a].uasls \cup dropped']_vars

\* A GetAvailability request that met no failure finds all it named in the tables.
AskedIsStored ==
    \A p \in Procs :
        At(p, "classify") /\ job[p].kind = "availability" /\ ~job[p].failed =>
            /\ job[p].uasls \cap OwnUasls \subseteq defs \cap (Listed \cup dropped)
            /\ job[p].items \subseteq stock
=============================================================================
