-------------------------- MODULE DirectoryProofs --------------------------
(* Proofs about Directory, for every number of requests, administrators, air  *)
(* ways, resources and faults: type correctness, that our own air ways stay   *)
(* known and stay our own but for the writes that could not know better, and  *)
(* that nothing else is ever forgotten.                                       *)
EXTENDS Directory, TLAPS

\* The places of an ingestion: what a request has got there are our own air ways.
Ingesting == {"any", "missing", "fetch", "items", "merge", "write", "define"}
Ways(a) == {u \in Uasls : AdminOf[u] = a}

\* What is known of a record in a request's hands, whatever the tables say.
Good(j) ==
    /\ j \in Jobs
    /\ j.pc \in Ingesting => j.got \subseteq OwnUasls
    /\ j.pc \in {"remerge", "rewrite"} => AdminsOf(j.got) \cap j.known = {}
    /\ \A a \in Admins : j.read[a].uasls \subseteq Ways(a)

\* Nobody comes to the place before the write of the definitions.
DefineKept ==
    \A q \in Procs : job'[q].pc = "define" => At(q, "define") /\ job'[q].got = job[q].got
\* A record that a request may go on with.
Leads(j) == Good(j) /\ j.pc # "define"

JobsGood == DOMAIN job = Procs /\ (\A p \in Procs : Good(job[p])) /\ job \in [Procs -> Jobs]

\* An administrator's row names his own air ways only.
RowsGood ==
    /\ admin \in [Admins -> Rows]
    /\ \A a \in Admins : admin[a].uasls \subseteq Ways(a) /\ (~admin[a].there => admin[a] = NoRow)

Inv ==
    /\ JobsGood /\ RowsGood
    /\ defs \subseteq OwnUasls /\ stock \subseteq Resources
    /\ ops \in 0..MaxOps /\ faults \in 0..MaxFaults
    /\ dropped \subseteq Uasls /\ unguarded \subseteq Own

-----------------------------------------------------------------------------
(* Records. *)

\* A request without anything in its hands.
LEMMA IdleGood ==
    ASSUME NEW k \in Kinds
    PROVE  Good(Idle(k))
  <1>1. Nothing \in [Admins -> Rows] /\ \A a \in Admins : Nothing[a].uasls = {}
    BY DEF Nothing, NoRow, Row, Rows
  <1>2. Idle(k) \in Jobs
    BY <1>1 DEF Idle, Jobs, Places
  <1> QED
    BY <1>1, <1>2 DEF Good, Idle, Ingesting, AdminsOf

\* A step of request p exchanges its record only.
LEMMA JobReplaced ==
    ASSUME JobsGood, NEW p \in Procs, NEW j, Good(j), Set(p, j)
    PROVE  JobsGood' /\ (j.pc # "define" => DefineKept)
  <1>1. \A q \in Procs : job'[q] = IF q = p THEN j ELSE job[q]
    BY DEF JobsGood, Set
  <1>2. j \in Jobs
    BY DEF Good
  <1>3. DOMAIN job' = Procs /\ job' \in [Procs -> Jobs]
    BY <1>2 DEF JobsGood, Set
  <1>4. \A q \in Procs : Good(job'[q])
    BY <1>1 DEF JobsGood
  <1>5. j.pc # "define" => DefineKept
    BY <1>1 DEF DefineKept, At
  <1> QED
    BY <1>3, <1>4, <1>5 DEF JobsGood

\* A call that fails is counted against the faults there may be.
LEMMA Counted ==
    ASSUME Inv, Fault \/ faults' = faults
    PROVE  faults' \in 0..MaxFaults
  BY DirectoryAssumption DEF Inv, Fault

\* A step that leaves the tables alone.
LEMMA TablesKept ==
    ASSUME Inv, JobsGood', UNCHANGED <<tables, history>>,
           ops' \in 0..MaxOps, faults' \in 0..MaxFaults
    PROVE  Inv'
  <1>1. RowsGood'
    BY DEF Inv, RowsGood, tables
  <1> QED
    BY <1>1 DEF Inv, tables, history

\* Of a record with a failure logged, what is known of the record is known.
LEMMA LoggedGood ==
    ASSUME NEW j, Good(j)
    PROVE  Good([j EXCEPT !.failed = TRUE])
  <1>1. [j EXCEPT !.failed = TRUE] \in Jobs
    BY DEF Good, Jobs
  <1>2. j \in Jobs
    BY DEF Good
  <1> QED
    BY <1>1, <1>2 DEF Good, Jobs

\* The two ways a step of request p may end that leaves the tables alone: with the record
\* j, or with a failure and k.
LEMMA Stepped ==
    ASSUME Inv, NEW p \in Procs, NEW j, NEW k, Leads(j), Leads(k),
           (Set(p, j) /\ UNCHANGED faults) \/ Log(p, k) \/ (Set(p, k) /\ Fault),
           UNCHANGED <<tables, ops, history>>
    PROVE  Inv' /\ DefineKept
  <1>1. Good(j) /\ Good(k) /\ j.pc # "define" /\ k.pc # "define"
    BY DEF Leads
  <1>0. Good([k EXCEPT !.failed = TRUE]) /\ [k EXCEPT !.failed = TRUE].pc # "define"
    BY <1>1, LoggedGood DEF Good, Jobs
  <1>2. JobsGood
    BY DEF Inv
  <1>3. JobsGood' /\ DefineKept
    <2>1. CASE Set(p, j)
      BY <1>1, <1>2, <2>1, JobReplaced
    <2>2. CASE Set(p, k)
      BY <1>1, <1>2, <2>2, JobReplaced
    <2>3. CASE Log(p, k)
      BY <1>0, <1>2, <2>3, JobReplaced DEF Log
    <2> QED
      BY <2>1, <2>2, <2>3
  <1>4. faults' \in 0..MaxFaults
    <2>1. Fault \/ faults' = faults
      BY DEF Log
    <2> QED
      BY <2>1, Counted
  <1>5. ops' \in 0..MaxOps
    BY DEF Inv
  <1> QED
    BY <1>3, <1>4, <1>5, TablesKept

\* The request in a process's hands.
LEMMA JobGood ==
    ASSUME Inv, NEW p \in Procs
    PROVE  Good(job[p]) /\ job[p] \in Jobs
  BY DEF Inv, JobsGood, Good

-----------------------------------------------------------------------------
(* Steps that leave the tables alone. *)

LEMMA ArriveKeeps ==
    ASSUME Inv, NEW p \in Procs, NEW k \in Kinds, NEW ask \in Asks, Arrive(p, k, ask)
    PROVE  Inv' /\ DefineKept
  <1> DEFINE j == [Idle(k) EXCEPT !.pc = IF k = "availability" THEN "any" ELSE "classify",
                                  !.uasls = ask.uasls, !.items = ask.items]
  <1>1. Good(Idle(k)) /\ Idle(k) \in Jobs /\ Idle(k).got = {}
    BY IdleGood DEF Good, Idle
  <1>2. ask.uasls \subseteq Uasls /\ ask.items \subseteq Resources
    BY DirectoryAssumption
  <1>3. j \in Jobs
    BY <1>1, <1>2 DEF Jobs, Places
  <1>4. Good(j) /\ j.pc # "define"
    BY <1>1, <1>3 DEF Good, Jobs
  <1>5. Set(p, j)
    BY DEF Arrive
  <1> HIDE DEF j
  <1>6. JobsGood' /\ DefineKept
    BY <1>4, <1>5, JobReplaced DEF Inv
  <1>7. ops' \in 0..MaxOps /\ faults' \in 0..MaxFaults
    BY DirectoryAssumption DEF Arrive, Inv
  <1> QED
    BY <1>6, <1>7, TablesKept DEF Arrive

LEMMA HasAnyKeeps ==
    ASSUME Inv, NEW p \in Procs, HasAnyExternalDefinitions(p)
    PROVE  Inv' /\ DefineKept
  <1> DEFINE j == [job[p] EXCEPT !.full = (defs = {}),
                                 !.pc = IF defs = {} THEN "fetch" ELSE "missing"]
             k == [job[p] EXCEPT !.full = TRUE, !.pc = "fetch"]
  <1>1. Good(job[p]) /\ job[p] \in Jobs /\ job[p].pc = "any"
    BY JobGood DEF HasAnyExternalDefinitions, At
  <1>2. j \in Jobs /\ k \in Jobs
    BY <1>1 DEF Jobs, Places
  <1>3. Leads(j) /\ Leads(k)
    BY <1>1, <1>2 DEF Leads, Idle, Good, Jobs, Ingesting
  <1>4. (Set(p, j) /\ UNCHANGED faults) \/ Log(p, k)
    BY DEF HasAnyExternalDefinitions
  <1> HIDE DEF j, k
  <1> QED
    BY <1>3, <1>4, Stepped DEF HasAnyExternalDefinitions

LEMMA FindExistingKeeps ==
    ASSUME Inv, NEW p \in Procs, FindExistingExUaslIDs(p)
    PROVE  Inv' /\ DefineKept
  <1> DEFINE j == [job[p] EXCEPT !.got = Missing(p) \cap OwnUasls,
                                 !.pc = IF Missing(p) = {} THEN "items" ELSE "fetch"]
             k == [job[p] EXCEPT !.full = TRUE, !.pc = "fetch"]
  <1>1. Good(job[p]) /\ job[p] \in Jobs /\ job[p].pc = "missing"
    BY JobGood DEF FindExistingExUaslIDs, At
  <1>2. Missing(p) \cap OwnUasls \in SUBSET Uasls
    BY DEF OwnUasls
  <1>3. j \in Jobs /\ k \in Jobs
    BY <1>1, <1>2 DEF Jobs, Places
  <1>4. Leads(j) /\ Leads(k)
    BY <1>1, <1>3 DEF Leads, Idle, Good, Jobs, Ingesting
  <1>5. (Set(p, j) /\ UNCHANGED faults) \/ Log(p, k)
    BY DEF FindExistingExUaslIDs
  <1> HIDE DEF j, k
  <1> QED
    BY <1>4, <1>5, Stepped DEF FindExistingExUaslIDs

LEMMA FetchKeeps ==
    ASSUME Inv, NEW p \in Procs, Fetch(p)
    PROVE  Inv' /\ DefineKept
  <1> DEFINE all == IF job[p].full THEN OwnUasls ELSE job[p].got
             j(us) == [job[p] EXCEPT !.got = us, !.pc = "items"]
  <1>1. Good(job[p]) /\ job[p] \in Jobs /\ job[p].pc = "fetch"
    BY JobGood DEF Fetch, At
  <1>2. all \subseteq OwnUasls
    BY <1>1 DEF Leads, Idle, Good, Ingesting
  <1>3. ASSUME NEW us \in SUBSET OwnUasls PROVE Leads(j(us))
    <2>1. us \in SUBSET Uasls
      BY DEF OwnUasls
    <2>2. j(us) \in Jobs
      BY <1>1, <2>1 DEF Jobs, Places
    <2> QED
      BY <1>1, <2>2 DEF Leads, Idle, Good, Jobs, Ingesting
  <1>4. PICK some \in SUBSET OwnUasls :
           (Set(p, j(all)) /\ UNCHANGED faults) \/ Log(p, j(some))
    BY <1>2 DEF Fetch
  <1>5. Leads(j(all)) /\ Leads(j(some))
    BY <1>2, <1>3
  <1> HIDE DEF j, all
  <1> QED
    BY <1>4, <1>5, Stepped DEF Fetch

LEMMA CollectKeeps ==
    ASSUME Inv, NEW p \in Procs, CollectItems(p)
    PROVE  Inv' /\ DefineKept
  <1> DEFINE j(is) == [job[p] EXCEPT !.found = is,
                          !.pc = IF job[p].got = {} THEN "store" ELSE "merge"]
  <1>1. Good(job[p]) /\ job[p] \in Jobs /\ job[p].pc = "items"
    BY JobGood DEF CollectItems, At
  <1>2. \A kind \in {Vehicles, Ports} : ToCollect(p, kind) \subseteq Resources
    BY DEF ToCollect, Resources
  <1>3. PICK v \in {ToCollect(p, Vehicles), Vehicles, {}}, d \in {ToCollect(p, Ports), Ports, {}} :
           (Set(p, j(v \cup d)) /\ UNCHANGED faults) \/ Log(p, j(v \cup d))
    BY DEF CollectItems
  <1>4. v \cup d \in SUBSET Resources
    BY <1>2 DEF Resources
  <1>5. j(v \cup d) \in Jobs
    BY <1>1, <1>4 DEF Jobs, Places
  <1>6. Leads(j(v \cup d))
    BY <1>1, <1>5 DEF Leads, Idle, Good, Jobs, Ingesting
  <1> HIDE DEF j
  <1> QED
    BY <1>3, <1>6, Stepped DEF CollectItems

\* What the rows list are air ways.
LEMMA ListedAreUasls ==
    ASSUME Inv
    PROVE  Listed \subseteq Uasls /\ OurUasls \subseteq Uasls /\ Internals \subseteq Admins
  BY DEF Inv, RowsGood, Listed, OurUasls, Internals, Ways

LEMMA ReadKeeps ==
    ASSUME Inv, NEW p \in Procs, ReadForMerge(p)
    PROVE  Inv' /\ DefineKept
  <1> DEFINE j(r) == [job[p] EXCEPT !.read = r, !.pc = "write"]
  <1>1. Good(job[p]) /\ job[p] \in Jobs /\ job[p].pc = "merge"
    BY JobGood DEF ReadForMerge, At
  <1>2. ASSUME NEW r \in {admin, Nothing} PROVE Leads(j(r))
    <2>1. r \in [Admins -> Rows] /\ \A a \in Admins : r[a].uasls \subseteq Ways(a)
      <3>1. Nothing \in [Admins -> Rows] /\ \A a \in Admins : Nothing[a].uasls = {}
        BY DEF Nothing, NoRow, Row, Rows
      <3>2. admin \in [Admins -> Rows] /\ \A a \in Admins : admin[a].uasls \subseteq Ways(a)
        BY DEF Inv, RowsGood
      <3> QED
        BY <3>1, <3>2
    <2>2. j(r) \in Jobs
      BY <1>1, <2>1 DEF Jobs, Places
    <2> QED
      BY <1>1, <2>1, <2>2 DEF Leads, Idle, Good, Jobs, Ingesting
  <1>3. (Set(p, j(admin)) /\ UNCHANGED faults) \/ Log(p, j(Nothing))
    BY DEF ReadForMerge
  <1>4. Leads(j(admin)) /\ Leads(j(Nothing))
    BY <1>2
  <1> HIDE DEF j
  <1> QED
    BY <1>3, <1>4, Stepped DEF ReadForMerge

LEMMA ClassifyKeeps ==
    ASSUME Inv, NEW p \in Procs, Classify(p)
    PROVE  Inv' /\ DefineKept
  <1> DEFINE j == [job[p] EXCEPT !.ours = IF job[p].kind = "notify" THEN OurUasls
                                          ELSE OurUasls \cap job[p].uasls,
                                 !.pc = "known"]
             k == [job[p] EXCEPT !.pc = "known"]
  <1>1. Good(job[p]) /\ job[p] \in Jobs
    BY JobGood
  <1>2. j \in Jobs /\ k \in Jobs
    BY <1>1, ListedAreUasls DEF Jobs, Places
  <1>3. Leads(j) /\ Leads(k) /\ Leads(Idle("none"))
    BY <1>1, <1>2, IdleGood DEF Leads, Idle, Good, Jobs, Ingesting, Kinds
  <1>4. \/ (Set(p, j) \/ Set(p, Idle("none"))) /\ UNCHANGED faults
        \/ (Set(p, k) \/ Set(p, Idle("none"))) /\ Fault
    BY DEF Classify, Goto, End
  <1> HIDE DEF j, k
  <1> QED
    BY <1>3, <1>4, Stepped DEF Classify

LEMMA FindByKeeps ==
    ASSUME Inv, NEW p \in Procs, FindByExUaslIDs(p)
    PROVE  Inv' /\ DefineKept
  <1> DEFINE j(us) == [job[p] EXCEPT !.got = us, !.pc = "guard"]
  <1>1. Good(job[p]) /\ job[p] \in Jobs
    BY JobGood
  <1>2. PICK need \in SUBSET Uasls :
           (Set(p, Idle("none")) \/ Set(p, j(need))) /\ (Fault \/ UNCHANGED faults)
    <2>1. External(p) \subseteq Uasls
      BY <1>1 DEF External, Jobs
    <2> QED
      BY <2>1 DEF FindByExUaslIDs, End
  <1>3. j(need) \in Jobs
    BY <1>1 DEF Jobs, Places
  <1>4. Leads(j(need)) /\ Leads(Idle("none"))
    BY <1>1, <1>3, IdleGood DEF Leads, Idle, Good, Jobs, Ingesting, Kinds
  <1> HIDE DEF j
  <1> QED
    BY <1>2, <1>4, Stepped DEF FindByExUaslIDs

LEMMA FindInternalKeeps ==
    ASSUME Inv, NEW p \in Procs, FindInternalAdministrators(p)
    PROVE  Inv' /\ DefineKept
  <1> DEFINE j(as) == [job[p] EXCEPT !.known = as, !.pc = "discover"]
  <1>1. Good(job[p]) /\ job[p] \in Jobs
    BY JobGood
  <1>2. j(Internals) \in Jobs /\ j({}) \in Jobs
    BY <1>1, ListedAreUasls DEF Jobs, Places
  <1>3. Leads(j(Internals)) /\ Leads(j({}))
    BY <1>1, <1>2 DEF Leads, Idle, Good, Jobs, Ingesting
  <1>4. (Set(p, j(Internals)) /\ UNCHANGED faults) \/ (Set(p, j({})) /\ Fault)
    BY DEF FindInternalAdministrators
  <1> HIDE DEF j
  <1> QED
    BY <1>3, <1>4, Stepped DEF FindInternalAdministrators

\* Discovery leaves the administrators out that it knows to be internal.
LEMMA DiscoverKeeps ==
    ASSUME Inv, NEW p \in Procs, Discover(p)
    PROVE  Inv' /\ DefineKept
  <1> DEFINE j(us) == [job[p] EXCEPT !.got = us, !.pc = "remerge"]
  <1>1. Good(job[p]) /\ job[p] \in Jobs
    BY JobGood
  <1>2. job[p].got \cap OwnUasls \subseteq Uasls
    BY DEF OwnUasls
  <1>3. PICK us \in SUBSET Uasls :
           \/ Set(p, Idle("none"))
           \/ Set(p, j({u \in us : AdminOf[u] \in Discovered(p, AdminsOf(us))}))
    BY <1>2 DEF Discover, End
  <1> DEFINE got == {u \in us : AdminOf[u] \in Discovered(p, AdminsOf(us))}
  <1>4. AdminsOf(got) \cap job[p].known = {}
    BY DEF AdminsOf, Discovered
  <1>5. got \in SUBSET Uasls
    OBVIOUS
  <1> HIDE DEF got
  <1>6. j(got) \in Jobs
    BY <1>1, <1>5 DEF Jobs, Places
  <1>7. Leads(j(got)) /\ Leads(Idle("none"))
    BY <1>1, <1>4, <1>6, IdleGood DEF Leads, Idle, Good, Jobs, Ingesting, Kinds
  <1>8. (Set(p, Idle("none")) \/ Set(p, j(got))) /\ UNCHANGED faults
    BY <1>3 DEF got, Discover
  <1> HIDE DEF j
  <1> QED
    BY <1>7, <1>8, Stepped DEF Discover

LEMMA RereadKeeps ==
    ASSUME Inv, NEW p \in Procs, ReadForRemerge(p)
    PROVE  Inv' /\ DefineKept
  <1> DEFINE j == [job[p] EXCEPT !.read = admin, !.pc = "rewrite"]
  <1>1. Good(job[p]) /\ job[p] \in Jobs /\ job[p].pc = "remerge"
    BY JobGood DEF ReadForRemerge, At
  <1>2. admin \in [Admins -> Rows] /\ \A a \in Admins : admin[a].uasls \subseteq Ways(a)
    BY DEF Inv, RowsGood
  <1>3. j \in Jobs
    BY <1>1, <1>2 DEF Jobs, Places
  <1>4. Leads(j) /\ Leads(Idle("none"))
    BY <1>1, <1>2, <1>3, IdleGood DEF Leads, Idle, Good, Jobs, Ingesting, Kinds
  <1>5. (Set(p, j) /\ UNCHANGED faults) \/ (Set(p, Idle("none")) /\ Fault)
    BY DEF ReadForRemerge, End
  <1> HIDE DEF j
  <1> QED
    BY <1>4, <1>5, Stepped DEF ReadForRemerge

LEMMA CrashKeeps ==
    ASSUME Inv, Crash
    PROVE  Inv' /\ DefineKept
  <1>1. Good(Idle("none")) /\ Idle("none").pc # "define"
    BY IdleGood DEF Kinds, Idle
  <1>2. JobsGood' /\ DefineKept
    BY <1>1 DEF Crash, JobsGood, Good, DefineKept
  <1>3. faults' \in 0..MaxFaults
    BY Counted DEF Crash
  <1>4. ops' \in 0..MaxOps
    BY DEF Crash, Inv
  <1> QED
    BY <1>2, <1>3, <1>4, TablesKept DEF Crash

-----------------------------------------------------------------------------
(* Writes. *)

\* A write of the rows of some administrators keeps them well formed.
LEMMA WrittenRows ==
    ASSUME Inv, NEW p \in Procs, NEW internal \in BOOLEAN,
           Written(p, AdminsOf(job[p].got), internal)
    PROVE  /\ RowsGood' /\ dropped' \subseteq Uasls
           /\ \A a \in Admins : admin'[a] = IF a \in AdminsOf(job[p].got)
                 THEN Row(TRUE, internal, Listing(a, job[p].got) \cup job[p].read[a].uasls)
                 ELSE admin[a]
  <1> DEFINE as == AdminsOf(job[p].got)
  <1>1. Good(job[p]) /\ job[p] \in Jobs
    BY JobGood
  <1>2. job[p].got \subseteq Uasls /\ \A a \in Admins : job[p].read[a].uasls \subseteq Ways(a)
    BY <1>1 DEF Good, Jobs
  <1>3. \A a \in Admins : admin'[a] = IF a \in as
           THEN Row(TRUE, internal, Listing(a, job[p].got) \cup job[p].read[a].uasls)
           ELSE admin[a]
    BY DEF Written, Upserted
  <1>4. \A a \in Admins : Listing(a, job[p].got) \cup job[p].read[a].uasls \subseteq Ways(a)
    BY <1>2 DEF Listing, Ways
  <1>5. \A a \in Admins :
           /\ admin'[a] \in Rows /\ admin'[a].uasls \subseteq Ways(a)
           /\ ~admin'[a].there => admin'[a] = NoRow
    <2> TAKE a \in Admins
    <2>1. CASE a \in as
      <3> DEFINE us == Listing(a, job[p].got) \cup job[p].read[a].uasls
      <3>1. us \in SUBSET Uasls /\ us \subseteq Ways(a)
        BY <1>4 DEF Ways
      <3>2. admin'[a] = Row(TRUE, internal, us)
        BY <1>3, <2>1
      <3> HIDE DEF us
      <3>3. Row(TRUE, internal, us) \in Rows /\ Row(TRUE, internal, us).there
            /\ Row(TRUE, internal, us).uasls = us
        BY <3>1 DEF Row, Rows
      <3> QED
        BY <3>1, <3>2, <3>3
    <2>2. CASE a \notin as
      BY <1>3, <2>2 DEF Inv, RowsGood
    <2> QED
      BY <2>1, <2>2
  <1>6. admin' = [a \in Admins |-> admin'[a]]
    BY DEF Written, Upserted
  <1>7. RowsGood'
    BY <1>5, <1>6 DEF RowsGood, Ways
  <1>8. as \subseteq Admins
    BY <1>2, DirectoryAssumption DEF AdminsOf
  <1>9. dropped' \subseteq Uasls
    BY <1>8 DEF Written, Unseen, Inv, RowsGood, Ways
  <1> QED
    BY <1>3, <1>7, <1>9

LEMMA UpsertAdminsKeeps ==
    ASSUME Inv, NEW p \in Procs, UpsertAdmins(p)
    PROVE  Inv'
  <1> DEFINE j == [job[p] EXCEPT !.pc = "define"]
  <1>1. Good(job[p]) /\ job[p] \in Jobs /\ job[p].pc = "write"
    BY JobGood DEF UpsertAdmins, At
  <1>2. j \in Jobs
    BY <1>1 DEF Jobs, Places
  <1>3. Good(j) /\ job[p].got \subseteq OwnUasls
    BY <1>1, <1>2 DEF Good, Jobs, Ingesting
  <1>4. Good([j EXCEPT !.failed = TRUE])
    BY <1>3, LoggedGood
  <1>5. Set(p, j) \/ Set(p, [j EXCEPT !.failed = TRUE])
    BY DEF UpsertAdmins, Goto, Log
  <1> HIDE DEF j
  <1>6. JobsGood'
    BY <1>3, <1>4, <1>5, JobReplaced DEF Inv
  <1>7. faults' \in 0..MaxFaults
    <2>1. Fault \/ faults' = faults
      BY DEF UpsertAdmins, Log
    <2> QED
      BY <2>1, Counted
  <1>8. RowsGood' /\ dropped' \subseteq Uasls /\ unguarded' \subseteq Own
    <2>1. CASE Written(p, AdminsOf(job[p].got), TRUE)
               /\ unguarded' = unguarded \ AdminsOf(job[p].got)
      BY <2>1, WrittenRows DEF Inv
    <2>2. CASE /\ dropped' = dropped \cup (job[p].got \ Listed)
               /\ UNCHANGED <<admin, unguarded>>
      BY <1>3, <2>2 DEF Inv, RowsGood, OwnUasls, Ways
    <2> QED
      BY <2>1, <2>2 DEF UpsertAdmins
  <1> QED
    BY <1>6, <1>7, <1>8 DEF Inv, UpsertAdmins

LEMMA UpsertDefinitionsKeeps ==
    ASSUME Inv, NEW p \in Procs, UpsertDefinitions(p)
    PROVE  Inv' /\ DefineKept
  <1> DEFINE j == [job[p] EXCEPT !.pc = "store"]
             k == [job[p] EXCEPT !.pc = "store", !.failed = TRUE]
  <1>1. Good(job[p]) /\ job[p] \in Jobs /\ job[p].pc = "define"
    BY JobGood DEF UpsertDefinitions, At
  <1>2. j \in Jobs /\ k \in Jobs
    BY <1>1 DEF Jobs, Places
  <1>3. Good(j) /\ Good(k) /\ j.pc # "define" /\ k.pc # "define" /\ job[p].got \subseteq OwnUasls
    BY <1>1, <1>2 DEF Good, Jobs, Ingesting
  <1>4. Good([j EXCEPT !.failed = TRUE]) /\ [j EXCEPT !.failed = TRUE].pc # "define"
    BY <1>3, LoggedGood DEF Good, Jobs
  <1>5. Set(p, j) \/ Set(p, k) \/ Set(p, [j EXCEPT !.failed = TRUE])
    BY DEF UpsertDefinitions, Goto, Log
  <1> HIDE DEF j, k
  <1>6. JobsGood' /\ DefineKept
    BY <1>3, <1>4, <1>5, JobReplaced DEF Inv
  <1>7. faults' \in 0..MaxFaults
    <2>1. Fault \/ faults' = faults
      BY DEF UpsertDefinitions, Log
    <2> QED
      BY <2>1, Counted
  <1>8. defs' \subseteq OwnUasls
    BY <1>3 DEF UpsertDefinitions, Inv
  <1>9. RowsGood'
    BY DEF UpsertDefinitions, Inv, RowsGood
  <1> QED
    BY <1>6, <1>7, <1>8, <1>9 DEF Inv, UpsertDefinitions, history

LEMMA UpsertResourcesKeeps ==
    ASSUME Inv, NEW p \in Procs, UpsertResources(p)
    PROVE  Inv' /\ DefineKept
  <1> DEFINE j == [job[p] EXCEPT !.pc = "classify"]
  <1>1. Good(job[p]) /\ job[p] \in Jobs
    BY JobGood
  <1>2. j \in Jobs
    BY <1>1 DEF Jobs, Places
  <1>3. Good(j) /\ j.pc # "define" /\ job[p].found \subseteq Resources
    BY <1>1, <1>2 DEF Good, Jobs, Ingesting
  <1>4. Good([j EXCEPT !.failed = TRUE]) /\ [j EXCEPT !.failed = TRUE].pc # "define"
    BY <1>3, LoggedGood DEF Good, Jobs
  <1>5. Set(p, j) \/ Set(p, [j EXCEPT !.failed = TRUE])
    BY DEF UpsertResources, Goto, Log
  <1> HIDE DEF j
  <1>6. JobsGood' /\ DefineKept
    BY <1>3, <1>4, <1>5, JobReplaced DEF Inv
  <1>7. faults' \in 0..MaxFaults
    <2>1. Fault \/ faults' = faults
      BY DEF UpsertResources, Log
    <2> QED
      BY <2>1, Counted
  <1>8. stock' \subseteq Resources
    BY <1>3 DEF UpsertResources, Inv
  <1>9. RowsGood'
    BY DEF UpsertResources, Inv, RowsGood
  <1> QED
    BY <1>6, <1>7, <1>8, <1>9 DEF Inv, UpsertResources, history

LEMMA UpsertResolvedKeeps ==
    ASSUME Inv, NEW p \in Procs, UpsertResolved(p)
    PROVE  Inv' /\ DefineKept
  <1>1. Good(Idle("none")) /\ Idle("none").pc # "define"
    BY IdleGood DEF Kinds, Idle
  <1>2. JobsGood' /\ DefineKept
    BY <1>1, JobReplaced DEF Inv, UpsertResolved, End
  <1>3. faults' \in 0..MaxFaults
    <2>1. Fault \/ faults' = faults
      BY DEF UpsertResolved
    <2> QED
      BY <2>1, Counted
  <1>4. RowsGood' /\ dropped' \subseteq Uasls /\ unguarded' \subseteq Own
    <2>1. CASE /\ Written(p, AdminsOf(job[p].got), FALSE)
               /\ unguarded' = unguarded \cup ((AdminsOf(job[p].got) \cap Own) \ job[p].known)
      BY <2>1, WrittenRows DEF Inv
    <2>2. CASE UNCHANGED <<admin, history>>
      BY <2>2 DEF Inv, RowsGood, history
    <2> QED
      BY <2>1, <2>2 DEF UpsertResolved
  <1> QED
    BY <1>2, <1>3, <1>4 DEF Inv, UpsertResolved

-----------------------------------------------------------------------------
(* Type correctness. *)

LEMMA InitInv ==
    ASSUME Init
    PROVE  Inv
  <1>1. Good(Idle("none"))
    BY IdleGood DEF Kinds
  <1>2. JobsGood
    BY <1>1 DEF Init, JobsGood, Good
  <1>3. RowsGood
    BY DEF Init, RowsGood, Nothing, NoRow, Row, Rows
  <1> QED
    BY <1>2, <1>3, DirectoryAssumption DEF Init, Inv

LEMMA StepInv ==
    ASSUME Inv, [Next]_vars
    PROVE  /\ Inv'
           /\ DefineKept \/ \E p \in Procs : UpsertAdmins(p)
  <1>1. ASSUME NEW p \in Procs, Ingest(p) PROVE Inv' /\ (DefineKept \/ UpsertAdmins(p))
    BY <1>1, HasAnyKeeps, FindExistingKeeps, FetchKeeps, CollectKeeps, ReadKeeps,
       UpsertAdminsKeeps, UpsertDefinitionsKeeps, UpsertResourcesKeeps DEF Ingest
  <1>2. ASSUME NEW p \in Procs, Resolve(p) PROVE Inv' /\ DefineKept
    BY <1>2, ClassifyKeeps, FindByKeeps, FindInternalKeeps, DiscoverKeeps, RereadKeeps,
       UpsertResolvedKeeps DEF Resolve
  <1>3. ASSUME NEW p \in Procs, NEW k \in Kinds \ {"none"}, NEW ask \in Asks, Arrive(p, k, ask)
        PROVE  Inv' /\ DefineKept
    BY <1>3, ArriveKeeps
  <1>4. CASE Crash
    BY <1>4, CrashKeeps
  <1>5. CASE UNCHANGED vars
    BY <1>5 DEF vars, Inv, JobsGood, RowsGood, DefineKept, At
  <1> QED
    BY <1>1, <1>2, <1>3, <1>4, <1>5 DEF Next, Quiet

\* The invariant of the tables and of the records, for later use.
THEOREM Invariant == Spec => []Inv
  <1>1. Init => Inv
    BY InitInv
  <1>2. Inv /\ [Next]_vars => Inv'
    BY StepInv
  <1> QED
    BY <1>1, <1>2, PTL DEF Spec

\* Type correctness: the tables and every request's record hold what the code can put
\* there, our own air ways are the only ones with definitions, and a row of
\* uasl_administrators that is not there lists nothing.
THEOREM TypeCorrect == Spec => []TypeOK
  <1>1. Inv => TypeOK
    BY DEF Inv, JobsGood, RowsGood, TypeOK
  <1> QED
    BY <1>1, Invariant, PTL

-----------------------------------------------------------------------------
(* Nothing is forgotten but by a write that could not know it. *)

\* A write keeps what was listed, or names it among the dropped.
LEMMA WriteForgetsKnowingly ==
    ASSUME Inv, NEW p \in Procs, NEW internal \in BOOLEAN,
           Written(p, AdminsOf(job[p].got), internal), NEW a \in Admins
    PROVE  /\ admin[a].uasls \subseteq admin'[a].uasls \cup dropped'
           /\ \A u \in Ways(a) : u \in dropped => u \in admin'[a].uasls \cup dropped'
  <1> DEFINE as == AdminsOf(job[p].got)
             read == job[p].read
  <1>1. /\ RowsGood'
        /\ \A b \in Admins : admin'[b] = IF b \in as
              THEN Row(TRUE, internal, Listing(b, job[p].got) \cup read[b].uasls)
              ELSE admin[b]
    BY Zenon, WrittenRows
  <1>2. job[p].got \subseteq Uasls
    BY JobGood DEF Jobs
  <1>3. as \subseteq Admins
    BY <1>2, DirectoryAssumption DEF AdminsOf
  <1>4. dropped' = (dropped \cup UNION {admin[b].uasls \ read[b].uasls : b \in as})
                   \ UNION {admin'[b].uasls : b \in as}
    BY DEF Written, Unseen
  <1>5. \A b \in as : admin'[b].uasls \subseteq Ways(b)
    BY <1>1, <1>3 DEF RowsGood
  <1> HIDE DEF as, read
  <1>6. ASSUME NEW u \in Ways(a), u \in dropped \/ u \in admin[a].uasls
        PROVE  u \in admin'[a].uasls \cup dropped'
    <2>1. \A b \in as : u \in admin'[b].uasls => b = a
      BY <1>5, <1>6 DEF Ways
    <2>2. CASE u \in dropped
      BY <1>4, <2>1, <2>2
    <2>3. CASE u \in admin[a].uasls /\ a \notin as
      BY <1>1, <2>3
    <2>4. CASE u \in admin[a].uasls /\ a \in as
      <3>1. admin'[a].uasls = Listing(a, job[p].got) \cup read[a].uasls
        <4>1. admin'[a] = Row(TRUE, internal, Listing(a, job[p].got) \cup read[a].uasls)
          BY <1>1, <2>4
        <4> DEFINE us == Listing(a, job[p].got) \cup read[a].uasls
        <4>2. admin'[a] = Row(TRUE, internal, us)
          BY <4>1
        <4> HIDE DEF us
        <4>3. admin'[a].uasls = us
          BY <4>2 DEF Row
        <4> QED
          BY <4>3 DEF us
      <3>2. CASE u \in read[a].uasls
        BY <3>1, <3>2
      <3>3. CASE u \notin read[a].uasls
        <4>0. u \in admin[a].uasls \ read[a].uasls /\ a \in as
          BY <2>4, <3>3
        <4>1. u \in UNION {admin[b].uasls \ read[b].uasls : b \in as}
          BY Zenon, <4>0
        <4> QED
          BY <1>4, <2>1, <4>1
      <3> QED
        BY <3>2, <3>3
    <2> QED
      BY <1>6, <2>2, <2>3, <2>4
  <1>7. admin[a].uasls \subseteq Ways(a)
    BY DEF Inv, RowsGood
  <1> QED
    BY <1>6, <1>7

\* What is listed or known to be dropped stays so, in every step.
LEMMA StepForgetsKnowingly ==
    ASSUME Inv, [Next]_vars, NEW a \in Admins
    PROVE  /\ admin[a].uasls \subseteq admin'[a].uasls \cup dropped'
           /\ \A u \in Ways(a) : u \in dropped => u \in admin'[a].uasls \cup dropped'
  <1> DEFINE Fine == /\ admin[a].uasls \subseteq admin'[a].uasls \cup dropped'
                     /\ \A u \in Ways(a) : u \in dropped => u \in admin'[a].uasls \cup dropped'
  <1>1. ASSUME NEW p \in Procs, UpsertAdmins(p) PROVE Fine
    <2>1. CASE Written(p, AdminsOf(job[p].got), TRUE)
      BY <2>1, WriteForgetsKnowingly
    <2>2. CASE /\ dropped' = dropped \cup (job[p].got \ Listed)
               /\ UNCHANGED <<admin, unguarded>>
      BY <2>2
    <2> QED
      BY <1>1, <2>1, <2>2 DEF UpsertAdmins
  <1>2. ASSUME NEW p \in Procs, UpsertResolved(p) PROVE Fine
    <2>1. CASE Written(p, AdminsOf(job[p].got), FALSE)
      BY <2>1, WriteForgetsKnowingly
    <2>2. CASE UNCHANGED <<admin, history>>
      BY <2>2 DEF history
    <2> QED
      BY <1>2, <2>1, <2>2 DEF UpsertResolved
  <1>3. ASSUME UNCHANGED <<admin, dropped>> PROVE Fine
    BY <1>3
  <1>4. \/ \E p \in Procs : UpsertAdmins(p) \/ UpsertResolved(p)
        \/ UNCHANGED <<admin, dropped>>
    BY DEF Next, Ingest, Resolve, Quiet, vars, tables, history, Arrive,
       HasAnyExternalDefinitions, FindExistingExUaslIDs, Fetch, CollectItems, ReadForMerge,
       UpsertDefinitions, UpsertResources, Classify, FindByExUaslIDs,
       FindInternalAdministrators, Discover, ReadForRemerge, Crash
  <1> HIDE DEF Fine
  <1>5. Fine
    BY Zenon, <1>1, <1>2, <1>3, <1>4
  <1> QED
    BY <1>5 DEF Fine

\* What ingestion and resolution have learnt of an administrator is lost only to a write
\* that had not read it, for any number of requests, failures and administrators.
THEOREM NothingIsForgotten == Spec => NothingForgotten
  <1>1. Inv /\ [Next]_vars =>
           [\A a \in Admins : admin[a].uasls \subseteq admin'[a].uasls \cup dropped']_vars
    BY StepForgetsKnowingly
  <1> QED
    BY <1>1, Invariant, PTL DEF Spec, NothingForgotten

-----------------------------------------------------------------------------
(* Our own air ways stay known. *)

Routed(us) == \A u \in us : u \in admin[AdminOf[u]].uasls \cup dropped

\* Between the write of the administrators' rows and that of the definitions the air ways
\* must be listed already: definitions are written for those only.
RouteInv ==
    /\ Inv /\ Routed(defs)
    /\ \A p \in Procs : At(p, "define") => Routed(job[p].got)

\* What is routed stays routed.
LEMMA RoutedStays ==
    ASSUME Inv, [Next]_vars, NEW us, us \subseteq Uasls, Routed(us)
    PROVE  \A u \in us : u \in admin'[AdminOf[u]].uasls \cup dropped'
  <1> SUFFICES ASSUME NEW u \in us
               PROVE  u \in admin'[AdminOf[u]].uasls \cup dropped'
    OBVIOUS
  <1>1. u \in Uasls /\ AdminOf[u] \in Admins /\ u \in Ways(AdminOf[u])
    BY DirectoryAssumption DEF Ways
  <1> QED
    BY <1>1, StepForgetsKnowingly DEF Routed

\* What a request writes is routed from then on: it is in the rows, or the write failed and
\* it counts as dropped.
LEMMA WriterRoutes ==
    ASSUME Inv, Inv', NEW p \in Procs, UpsertAdmins(p)
    PROVE  /\ \A u \in job[p].got : u \in admin'[AdminOf[u]].uasls \cup dropped'
           /\ job'[p].got = job[p].got
           /\ \A q \in Procs : q # p => job'[q] = job[q]
  <1>1. Good(job[p]) /\ job[p] \in Jobs /\ job \in [Procs -> Jobs]
    BY JobGood DEF Inv, JobsGood
  <1>2. job[p].got \subseteq Uasls
    BY <1>1 DEF Jobs
  <1>3. \A u \in job[p].got : u \in admin'[AdminOf[u]].uasls \cup dropped'
    <2> TAKE u \in job[p].got
    <2> DEFINE a == AdminOf[u]
    <2>1. u \in Uasls /\ a \in Admins /\ a \in AdminsOf(job[p].got)
      BY <1>2, DirectoryAssumption DEF AdminsOf
    <2>2. CASE Written(p, AdminsOf(job[p].got), TRUE)
      <3> DEFINE us == Listing(a, job[p].got) \cup job[p].read[a].uasls
      <3>1. admin'[a] = Row(TRUE, TRUE, us)
        BY <2>1, <2>2, WrittenRows
      <3>2. u \in us
        BY DEF Listing
      <3> HIDE DEF us
      <3> QED
        BY <3>1, <3>2 DEF Row
    <2>3. CASE /\ dropped' = dropped \cup (job[p].got \ Listed)
               /\ UNCHANGED <<admin, unguarded>>
      <3>1. CASE u \notin Listed
        BY <2>3, <3>1
      <3>2. CASE u \in Listed
        <4>1. PICK b \in Admins : u \in admin[b].uasls
          BY <3>2 DEF Listed
        <4>2. b = a
          BY <4>1 DEF Inv, RowsGood, Ways
        <4> QED
          BY <2>3, <4>1, <4>2
      <3> QED
        BY <3>1, <3>2
    <2> QED
      BY <2>2, <2>3 DEF UpsertAdmins
  <1>4. job'[p].got = job[p].got /\ \A q \in Procs : q # p => job'[q] = job[q]
    <2> DEFINE j == [job[p] EXCEPT !.pc = "define"]
               k == [j EXCEPT !.failed = TRUE]
    <2>1. j.got = job[p].got /\ k.got = job[p].got
      BY <1>1 DEF Jobs
    <2>2. Set(p, j) \/ Set(p, k)
      BY DEF UpsertAdmins, Goto, Log
    <2> HIDE DEF j, k
    <2> QED
      BY <1>1, <2>1, <2>2 DEF Set
  <1> QED
    BY <1>3, <1>4

LEMMA RouteStep ==
    ASSUME RouteInv, [Next]_vars
    PROVE  RouteInv'
  <1>1. Inv /\ Routed(defs) /\ \A p \in Procs : At(p, "define") => Routed(job[p].got)
    BY DEF RouteInv
  <1>2. Inv' /\ (DefineKept \/ \E p \in Procs : UpsertAdmins(p))
    BY <1>1, StepInv
  <1>3. \A p \in Procs : job[p].got \subseteq Uasls
    BY <1>1, JobGood DEF Jobs
  <1>4. \A p \in Procs : At(p, "define") =>
           \A u \in job[p].got : u \in admin'[AdminOf[u]].uasls \cup dropped'
    BY <1>1, <1>3, RoutedStays
  <1>5. \A u \in defs : u \in admin'[AdminOf[u]].uasls \cup dropped'
    <2>1. defs \subseteq Uasls
      BY <1>1 DEF Inv, OwnUasls
    <2> QED
      BY <1>1, <2>1, RoutedStays
  <1>6. \A u \in defs' : u \in defs \/ \E p \in Procs : At(p, "define") /\ u \in job[p].got
    BY DEF Next, Ingest, Resolve, Quiet, vars, tables, Arrive,
       HasAnyExternalDefinitions, FindExistingExUaslIDs, Fetch, CollectItems, ReadForMerge,
       UpsertAdmins, UpsertDefinitions, UpsertResources, Classify, FindByExUaslIDs,
       FindInternalAdministrators, Discover, ReadForRemerge, UpsertResolved, Crash
  <1>7. Routed(defs)'
    BY <1>4, <1>5, <1>6 DEF Routed
  <1>8. ASSUME NEW q \in Procs, job'[q].pc = "define"
        PROVE  \A u \in job'[q].got : u \in admin'[AdminOf[u]].uasls \cup dropped'
    <2>1. CASE DefineKept
      BY <1>4, <1>8, <2>1 DEF DefineKept
    <2>2. ASSUME NEW p \in Procs, UpsertAdmins(p)
          PROVE  \A u \in job'[q].got : u \in admin'[AdminOf[u]].uasls \cup dropped'
      <3>1. /\ \A u \in job[p].got : u \in admin'[AdminOf[u]].uasls \cup dropped'
            /\ job'[p].got = job[p].got
            /\ \A r \in Procs : r # p => job'[r] = job[r]
        BY <1>1, <1>2, <2>2, WriterRoutes
      <3>2. CASE q = p
        BY <3>1, <3>2
      <3>3. CASE q # p
        BY <1>4, <1>8, <3>1, <3>3 DEF At
      <3> QED
        BY <3>2, <3>3
    <2> QED
      BY <1>2, <2>1, <2>2
  <1>9. (\A p \in Procs : At(p, "define") => Routed(job[p].got))'
    BY <1>8 DEF At, Routed
  <1> QED
    BY <1>2, <1>7, <1>9 DEF RouteInv

\* An own air way with definitions, which is never ingested again, is in its administrator's
\* row, unless a write that had not read its entry took it away, or the write failed.
THEOREM OwnRoutes == Spec => []OwnRoutable
  <1>1. Init => RouteInv
    BY InitInv DEF Init, RouteInv, Routed, At, Idle
  <1>2. RouteInv /\ [Next]_vars => RouteInv'
    BY RouteStep
  <1>3. RouteInv => OwnRoutable
    BY DEF RouteInv, Routed, OwnRoutable
  <1> QED
    BY <1>1, <1>2, <1>3, PTL DEF Spec

-----------------------------------------------------------------------------
(* Our own administrators stay our own. *)

\* Definitions are written for administrators that have a row, and an own administrator's
\* row is internal from its first write on, but for a resolver that did not know him.
StayInv ==
    /\ Inv
    /\ \A u \in defs : admin[AdminOf[u]].there
    /\ \A a \in Own : admin[a].there => admin[a].internal \/ a \in unguarded

LEMMA StayStep ==
    ASSUME StayInv, [Next]_vars
    PROVE  StayInv'
  <1>1. /\ Inv /\ Inv'
        /\ \A u \in defs : admin[AdminOf[u]].there
        /\ \A a \in Own : admin[a].there => admin[a].internal \/ a \in unguarded
    BY StepInv DEF StayInv
  <1> DEFINE Stays == /\ \A a \in Admins : admin[a].there => admin'[a].there
                      /\ \A a \in Own : admin'[a].there => admin'[a].internal \/ a \in unguarded'
  <1>2. ASSUME UNCHANGED <<admin, unguarded>> PROVE Stays
    BY <1>1, <1>2
  <1>3. ASSUME NEW p \in Procs, NEW internal \in BOOLEAN, NEW a \in Admins,
               Written(p, AdminsOf(job[p].got), internal)
        PROVE  IF a \in AdminsOf(job[p].got) THEN admin'[a].there /\ admin'[a].internal = internal
                                            ELSE admin'[a] = admin[a]
    <2> DEFINE us == Listing(a, job[p].got) \cup job[p].read[a].uasls
    <2>1. admin'[a] = IF a \in AdminsOf(job[p].got) THEN Row(TRUE, internal, us) ELSE admin[a]
      BY Zenon, <1>1, <1>3, WrittenRows
    <2> HIDE DEF us
    <2>2. Row(TRUE, internal, us).there /\ Row(TRUE, internal, us).internal = internal
      BY DEF Row
    <2> QED
      BY <2>1, <2>2
  <1>4. Own \subseteq Admins
    BY DirectoryAssumption
  <1>5. ASSUME NEW p \in Procs, UpsertAdmins(p) PROVE Stays
    <2>1. CASE UNCHANGED <<admin, unguarded>>
      BY <1>2, <2>1
    <2>2. CASE /\ Written(p, AdminsOf(job[p].got), TRUE)
               /\ unguarded' = unguarded \ AdminsOf(job[p].got)
      <3>1. \A a \in Admins :
               IF a \in AdminsOf(job[p].got) THEN admin'[a].there /\ admin'[a].internal = TRUE
                                             ELSE admin'[a] = admin[a]
        BY <1>3, <2>2
      <3> QED
        BY <1>1, <1>4, <2>2, <3>1
    <2> QED
      BY <1>5, <2>1, <2>2 DEF UpsertAdmins
  <1>6. ASSUME NEW p \in Procs, UpsertResolved(p) PROVE Stays
    <2>1. CASE UNCHANGED <<admin, history>>
      BY <1>2, <2>1 DEF history
    <2>2. CASE /\ Written(p, AdminsOf(job[p].got), FALSE)
               /\ unguarded' = unguarded \cup ((AdminsOf(job[p].got) \cap Own) \ job[p].known)
      <3>1. AdminsOf(job[p].got) \cap job[p].known = {}
        BY <1>1, <1>6, JobGood DEF Good, UpsertResolved, At
      <3>2. \A a \in Admins :
               IF a \in AdminsOf(job[p].got) THEN admin'[a].there /\ admin'[a].internal = FALSE
                                             ELSE admin'[a] = admin[a]
        BY <1>3, <2>2
      <3> QED
        BY <1>1, <1>4, <2>2, <3>1, <3>2
    <2> QED
      BY <1>6, <2>1, <2>2 DEF UpsertResolved
  <1>7. \/ \E p \in Procs : UpsertAdmins(p) \/ UpsertResolved(p)
        \/ UNCHANGED <<admin, unguarded>>
    BY DEF Next, Ingest, Resolve, Quiet, vars, tables, history, Arrive,
       HasAnyExternalDefinitions, FindExistingExUaslIDs, Fetch, CollectItems, ReadForMerge,
       UpsertDefinitions, UpsertResources, Classify, FindByExUaslIDs,
       FindInternalAdministrators, Discover, ReadForRemerge, Crash
  <1>8. \A u \in defs' : u \in defs \/ admin[AdminOf[u]].there
    BY DEF Next, Ingest, Resolve, Quiet, vars, tables, Arrive,
       HasAnyExternalDefinitions, FindExistingExUaslIDs, Fetch, CollectItems, ReadForMerge,
       UpsertAdmins, UpsertDefinitions, UpsertResources, Classify, FindByExUaslIDs,
       FindInternalAdministrators, Discover, ReadForRemerge, UpsertResolved, Crash
  <1>9. \A u \in defs' : AdminOf[u] \in Admins
    BY <1>1, DirectoryAssumption DEF Inv, OwnUasls
  <1> HIDE DEF Stays
  <1>10. Stays
    BY Zenon, <1>5, <1>6, <1>7, <1>2
  <1>11. /\ \A a \in Admins : admin[a].there => admin'[a].there
         /\ \A a \in Own : admin'[a].there => admin'[a].internal \/ a \in unguarded'
    BY <1>10 DEF Stays
  <1> QED
    BY <1>1, <1>8, <1>9, <1>11 DEF StayInv

\* The administrator of an air way with definitions is taken for our own, unless a resolver
\* wrote its row that had not found it among the internal ones.
THEOREM OwnStays == Spec => []OwnStaysOwn
  <1>1. Init => StayInv
    <2> SUFFICES ASSUME Init PROVE StayInv
      OBVIOUS
    <2>1. Inv /\ defs = {} /\ admin = Nothing
      BY InitInv DEF Init
    <2>2. \A a \in Own : ~admin[a].there
      BY <2>1, DirectoryAssumption DEF Nothing, NoRow, Row
    <2> QED
      BY <2>1, <2>2 DEF StayInv
  <1>2. StayInv /\ [Next]_vars => StayInv'
    BY StayStep
  <1>3. StayInv => OwnStaysOwn
    BY DEF StayInv, OwnStaysOwn, Inv, OwnUasls
  <1> QED
    BY <1>1, <1>2, <1>3, PTL DEF Spec

-----------------------------------------------------------------------------
(* A GetAvailability request that met no failure finds all it named. *)

AfterFetch == {"items", "merge", "write", "define"}
AfterItems == {"merge", "write", "define", "store"}

\* What is still missing is in the request's hands, or is fetched with everything else.
Collected(j) ==
    j.kind = "availability" /\ ~j.failed =>
        /\ j.pc \in {"any", "missing"} => ~j.full
        /\ j.pc \in AfterFetch \/ (j.pc = "fetch" /\ ~j.full) =>
              j.uasls \cap OwnUasls \subseteq defs \cup j.got
        /\ j.pc \in {"store", "classify"} => j.uasls \cap OwnUasls \subseteq defs
        /\ j.pc \in AfterItems => j.items \subseteq stock \cup j.found
        /\ j.pc = "classify" => j.items \subseteq stock

\* No definition and no resource is taken from its table.
LEMMA TablesGrow ==
    ASSUME [Next]_vars
    PROVE  defs \subseteq defs' /\ stock \subseteq stock'
  <1>1. ASSUME NEW p \in Procs, UpsertDefinitions(p) \/ UpsertResources(p)
        PROVE  defs \subseteq defs' /\ stock \subseteq stock'
    BY <1>1 DEF UpsertDefinitions, UpsertResources
  <1>2. ASSUME NEW p \in Procs, Ingest(p), ~UpsertDefinitions(p), ~UpsertResources(p)
        PROVE  UNCHANGED <<defs, stock>>
    BY <1>2 DEF Ingest, HasAnyExternalDefinitions, FindExistingExUaslIDs, Fetch, CollectItems,
       ReadForMerge, UpsertAdmins, tables
  <1>3. ASSUME NEW p \in Procs, Resolve(p)
        PROVE  UNCHANGED <<defs, stock>>
    BY <1>3 DEF Resolve, Classify, FindByExUaslIDs, FindInternalAdministrators, Discover,
       ReadForRemerge, UpsertResolved, tables
  <1>4. ASSUME NEW p \in Procs, NEW k \in Kinds, NEW ask \in Asks, Arrive(p, k, ask)
        PROVE  UNCHANGED <<defs, stock>>
    BY <1>4 DEF Arrive, tables
  <1>5. CASE Crash
    BY <1>5 DEF Crash, tables
  <1>6. CASE UNCHANGED vars
    BY <1>6 DEF vars
  <1> QED
    BY <1>1, <1>2, <1>3, <1>4, <1>5, <1>6 DEF Next, Quiet

LEMMA CollectedStays ==
    ASSUME NEW p \in Procs, Collected(job[p]), job'[p] = job[p],
           defs \subseteq defs', stock \subseteq stock'
    PROVE  Collected(job[p])'
  BY DEF Collected

LEMMA LoggedCollects ==
    ASSUME NEW p \in Procs, job \in [Procs -> Jobs], NEW j \in Jobs, Log(p, j)
    PROVE  Collected(job[p])'
  <1>1. job'[p] = [j EXCEPT !.failed = TRUE]
    BY DEF Log, Set
  <1>2. job'[p].failed = TRUE
    BY <1>1 DEF Jobs
  <1> QED
    BY <1>2 DEF Collected

LEMMA LooksCollect ==
    ASSUME Inv, NEW p \in Procs, Collected(job[p]),
           HasAnyExternalDefinitions(p) \/ FindExistingExUaslIDs(p)
    PROVE  Collected(job[p])'
  <1>0. job[p] \in Jobs /\ job \in [Procs -> Jobs] /\ UNCHANGED defs
    BY JobGood DEF Inv, JobsGood, HasAnyExternalDefinitions, FindExistingExUaslIDs, tables
  <1> DEFINE k == [job[p] EXCEPT !.full = TRUE, !.pc = "fetch"]
  <1>1. k \in Jobs
    BY <1>0 DEF Jobs, Places
  <1>2. CASE Log(p, k)
    BY <1>0, <1>1, <1>2, LoggedCollects
  <1>3. CASE HasAnyExternalDefinitions(p) /\ ~Log(p, k)
    <2> DEFINE place == IF defs = {} THEN "fetch" ELSE "missing"
               all   == defs = {}
    <2>1. job'[p] = [job[p] EXCEPT !.full = all, !.pc = place]
      BY <1>0, <1>3 DEF HasAnyExternalDefinitions, Set
    <2>2. job'[p].full = all /\ job'[p].pc = place
      BY <1>0, <2>1 DEF Jobs
    <2> QED
      BY <2>2 DEF Collected, AfterFetch, AfterItems
  <1>4. CASE FindExistingExUaslIDs(p) /\ ~Log(p, k)
    <2> DEFINE place == IF Missing(p) = {} THEN "items" ELSE "fetch"
               got   == Missing(p) \cap OwnUasls
    <2>1. job'[p] = [job[p] EXCEPT !.got = got, !.pc = place]
      BY <1>0, <1>4 DEF FindExistingExUaslIDs, Set
    <2>2. /\ job'[p].got = got /\ job'[p].pc = place /\ job'[p].uasls = job[p].uasls
      BY <1>0, <2>1 DEF Jobs
    <2>3. job'[p].uasls \cap OwnUasls \subseteq defs \cup job'[p].got
      BY <2>2 DEF Missing
    <2> QED
      BY <1>0, <2>2, <2>3 DEF Collected, AfterItems
  <1> QED
    BY <1>2, <1>3, <1>4

LEMMA FetchCollects ==
    ASSUME Inv, NEW p \in Procs, Collected(job[p]), Fetch(p)
    PROVE  Collected(job[p])'
  <1>0. job[p] \in Jobs /\ job \in [Procs -> Jobs] /\ UNCHANGED defs /\ job[p].pc = "fetch"
        /\ job[p].got \subseteq OwnUasls
    BY JobGood DEF Inv, JobsGood, Good, Ingesting, Fetch, tables, At
  <1> DEFINE all == IF job[p].full THEN OwnUasls ELSE job[p].got
  <1>1. CASE Set(p, [job[p] EXCEPT !.got = all, !.pc = "items"])
    <2>1. job'[p] = [job[p] EXCEPT !.got = all, !.pc = "items"]
      BY <1>0, <1>1 DEF Set
    <2>2. /\ job'[p].got = all /\ job'[p].pc = "items" /\ job'[p].uasls = job[p].uasls
          /\ job'[p].kind = job[p].kind /\ job'[p].failed = job[p].failed
      BY <1>0, <2>1 DEF Jobs
    <2> QED
      BY <1>0, <2>2 DEF Collected, AfterFetch, AfterItems
  <1>2. ASSUME NEW some, some \subseteq all, Log(p, [job[p] EXCEPT !.got = some, !.pc = "items"])
        PROVE  Collected(job[p])'
    <2>1. [job[p] EXCEPT !.got = some, !.pc = "items"] \in Jobs
      BY <1>0, <1>2 DEF Jobs, Places, OwnUasls
    <2> QED
      BY <1>0, <1>2, <2>1, LoggedCollects
  <1>3. \/ Set(p, [job[p] EXCEPT !.got = all, !.pc = "items"])
        \/ \E some \in SUBSET all : Log(p, [job[p] EXCEPT !.got = some, !.pc = "items"])
    <2>1. IF job[p].full THEN {} \in SUBSET all ELSE TRUE
      OBVIOUS
    <2> QED
      BY <2>1 DEF Fetch
  <1> HIDE DEF all
  <1> QED
    BY <1>1, <1>2, <1>3

LEMMA ItemsCollect ==
    ASSUME Inv, NEW p \in Procs, Collected(job[p]), CollectItems(p)
    PROVE  Collected(job[p])'
  <1>0. job[p] \in Jobs /\ job \in [Procs -> Jobs] /\ UNCHANGED <<defs, stock>> /\ job[p].pc = "items"
    BY JobGood DEF Inv, JobsGood, CollectItems, tables, At
  <1> DEFINE place == IF job[p].got = {} THEN "store" ELSE "merge"
             J(found) == [job[p] EXCEPT !.found = found, !.pc = place]
  <1>1. PICK v \in SUBSET Vehicles, d \in SUBSET Ports :
           IF v = ToCollect(p, Vehicles) /\ d = ToCollect(p, Ports)
           THEN Set(p, J(v \cup d)) ELSE Log(p, J(v \cup d))
    <2>1. /\ ToCollect(p, Vehicles) \subseteq Vehicles /\ ToCollect(p, Ports) \subseteq Ports
      BY DEF ToCollect
    <2>2. \E v \in {ToCollect(p, Vehicles), Vehicles, {}}, d \in {ToCollect(p, Ports), Ports, {}} :
             IF v = ToCollect(p, Vehicles) /\ d = ToCollect(p, Ports)
             THEN Set(p, J(v \cup d)) ELSE Log(p, J(v \cup d))
      BY DEF CollectItems
    <2> HIDE DEF J
    <2> QED
      BY <2>1, <2>2
  <1> DEFINE found == v \cup d
  <1>2. found \subseteq Resources /\ J(found) \in Jobs
    BY <1>0 DEF Jobs, Places, Resources
  <1>3. CASE Set(p, J(found)) /\ v = ToCollect(p, Vehicles) /\ d = ToCollect(p, Ports)
    <2>1. job'[p] = J(found)
      BY <1>0, <1>3 DEF Set
    <2>2. /\ job'[p].found = found /\ job'[p].pc = place /\ job'[p].uasls = job[p].uasls
          /\ job'[p].kind = job[p].kind /\ job'[p].failed = job[p].failed
          /\ job'[p].got = job[p].got /\ job'[p].items = job[p].items
      BY <1>0, <2>1 DEF Jobs
    <2>3. job[p].items \subseteq stock \cup found
      BY <1>0, <1>3 DEF Jobs, ToCollect, Resources
    <2> HIDE DEF found
    <2> QED
      BY <1>0, <2>2, <2>3 DEF Collected, AfterFetch, AfterItems
  <1>4. CASE Log(p, J(found))
    BY <1>0, <1>2, <1>4, LoggedCollects
  <1> QED
    BY <1>1, <1>3, <1>4

LEMMA WritesCollect ==
    ASSUME Inv, NEW p \in Procs, Collected(job[p]), ReadForMerge(p) \/ UpsertAdmins(p)
    PROVE  Collected(job[p])'
  <1>0. /\ job[p] \in Jobs /\ job \in [Procs -> Jobs] /\ UNCHANGED <<defs, stock>>
        /\ job[p].pc \in {"merge", "write"} /\ admin \in [Admins -> Rows]
    BY JobGood DEF Inv, JobsGood, RowsGood, ReadForMerge, UpsertAdmins, tables, At
  <1>1. CASE ReadForMerge(p)
    <2>1. CASE Set(p, [job[p] EXCEPT !.read = admin, !.pc = "write"])
      <3>1. job'[p] = [job[p] EXCEPT !.read = admin, !.pc = "write"]
        BY <1>0, <2>1 DEF Set
      <3>2. /\ job'[p].found = job[p].found /\ job'[p].pc = "write" /\ job'[p].uasls = job[p].uasls
            /\ job'[p].kind = job[p].kind /\ job'[p].failed = job[p].failed
            /\ job'[p].got = job[p].got /\ job'[p].items = job[p].items
        BY <1>0, <3>1 DEF Jobs
      <3> QED
        BY <1>0, <3>2 DEF Collected, AfterFetch, AfterItems
    <2>2. CASE Log(p, [job[p] EXCEPT !.read = Nothing, !.pc = "write"])
      <3>1. [job[p] EXCEPT !.read = Nothing, !.pc = "write"] \in Jobs
        BY <1>0 DEF Jobs, Places, Nothing, NoRow, Row, Rows
      <3> QED
        BY <1>0, <2>2, <3>1, LoggedCollects
    <2> QED
      BY <1>1, <2>1, <2>2 DEF ReadForMerge
  <1>2. CASE UpsertAdmins(p)
    <2>1. CASE Goto(p, "define")
      <3>1. job'[p] = [job[p] EXCEPT !.pc = "define"]
        BY <1>0, <2>1 DEF Goto, Set
      <3>2. /\ job'[p].found = job[p].found /\ job'[p].pc = "define" /\ job'[p].uasls = job[p].uasls
            /\ job'[p].kind = job[p].kind /\ job'[p].failed = job[p].failed
            /\ job'[p].got = job[p].got /\ job'[p].items = job[p].items
        BY <1>0, <3>1 DEF Jobs
      <3> QED
        BY <1>0, <3>2 DEF Collected, AfterFetch, AfterItems
    <2>2. CASE Log(p, [job[p] EXCEPT !.pc = "define"])
      <3>1. [job[p] EXCEPT !.pc = "define"] \in Jobs
        BY <1>0 DEF Jobs, Places
      <3> QED
        BY <1>0, <2>2, <3>1, LoggedCollects
    <2> QED
      BY <1>2, <2>1, <2>2 DEF UpsertAdmins
  <1> QED
    BY <1>1, <1>2

LEMMA StoresCollect ==
    ASSUME Inv, NEW p \in Procs, Collected(job[p]), UpsertDefinitions(p) \/ UpsertResources(p)
    PROVE  Collected(job[p])'
  <1>0. job[p] \in Jobs /\ job \in [Procs -> Jobs]
    BY JobGood DEF Inv, JobsGood
  <1>1. CASE UpsertDefinitions(p)
    <2>0. job[p].pc = "define" /\ UNCHANGED stock
      BY <1>1 DEF UpsertDefinitions, At
    <2>1. CASE Goto(p, "store") /\ defs' = defs \cup job[p].got
      <3>1. job'[p] = [job[p] EXCEPT !.pc = "store"]
        BY <1>0, <2>1 DEF Goto, Set
      <3>2. /\ job'[p].found = job[p].found /\ job'[p].pc = "store" /\ job'[p].uasls = job[p].uasls
            /\ job'[p].kind = job[p].kind /\ job'[p].failed = job[p].failed
            /\ job'[p].items = job[p].items
        BY <1>0, <3>1 DEF Jobs
      <3> QED
        BY <2>0, <2>1, <3>2 DEF Collected, AfterFetch, AfterItems
    <2>2. CASE Log(p, [job[p] EXCEPT !.pc = "store"])
      <3>1. [job[p] EXCEPT !.pc = "store"] \in Jobs
        BY <1>0 DEF Jobs, Places
      <3> QED
        BY <1>0, <2>2, <3>1, LoggedCollects
    <2>3. CASE Set(p, [job[p] EXCEPT !.pc = "store", !.failed = TRUE])
      <3>1. job'[p] = [job[p] EXCEPT !.pc = "store", !.failed = TRUE]
        BY <1>0, <2>3 DEF Set
      <3>2. job'[p].failed = TRUE
        BY <1>0, <3>1 DEF Jobs
      <3> QED
        BY <3>2 DEF Collected
    <2> QED
      BY <1>1, <2>1, <2>2, <2>3 DEF UpsertDefinitions
  <1>2. CASE UpsertResources(p)
    <2>0. job[p].pc = "store" /\ UNCHANGED defs
      BY <1>2 DEF UpsertResources, At
    <2>1. CASE Goto(p, "classify") /\ stock' = stock \cup job[p].found
      <3>1. job'[p] = [job[p] EXCEPT !.pc = "classify"]
        BY <1>0, <2>1 DEF Goto, Set
      <3>2. /\ job'[p].pc = "classify" /\ job'[p].uasls = job[p].uasls
            /\ job'[p].kind = job[p].kind /\ job'[p].failed = job[p].failed
            /\ job'[p].items = job[p].items
        BY <1>0, <3>1 DEF Jobs
      <3> QED
        BY <2>0, <2>1, <3>2 DEF Collected, AfterFetch, AfterItems
    <2>2. CASE Log(p, [job[p] EXCEPT !.pc = "classify"])
      <3>1. [job[p] EXCEPT !.pc = "classify"] \in Jobs
        BY <1>0 DEF Jobs, Places
      <3> QED
        BY <1>0, <2>2, <3>1, LoggedCollects
    <2> QED
      BY <1>2, <2>1, <2>2 DEF UpsertResources
  <1> QED
    BY <1>1, <1>2

\* The steps that are not the ingestion's: the request is at its start, or past it.
LEMMA OthersCollect ==
    ASSUME Inv, NEW p \in Procs,
           Resolve(p) \/ (\E k \in Kinds, ask \in Asks : Arrive(p, k, ask)) \/ Crash
    PROVE  Collected(job[p])'
  <1>0. job[p] \in Jobs /\ job \in [Procs -> Jobs]
    BY JobGood DEF Inv, JobsGood
  <1>1. /\ Idle("none").pc = "idle"
        /\ \A k : Idle(k).kind = k /\ ~Idle(k).full
    BY DEF Idle
  <1>2. CASE Resolve(p)
    <2>1. job'[p].pc \in {"idle", "known", "guard", "discover", "remerge", "rewrite"}
      <3>0. ASSUME End(p)
            PROVE  job'[p].pc = "idle"
        BY <1>0, <1>1, <3>0 DEF End, Set
      <3>1. CASE Classify(p)
        <4>1. ASSUME Goto(p, "known") PROVE job'[p].pc = "known"
          BY <1>0, <4>1 DEF Goto, Set, Jobs
        <4>2. ASSUME NEW us, Set(p, [job[p] EXCEPT !.ours = us, !.pc = "known"])
              PROVE  job'[p].pc = "known"
          BY <1>0, <4>2 DEF Set, Jobs
        <4> QED
          BY <3>0, <3>1, <4>1, <4>2 DEF Classify
      <3>2. CASE FindByExUaslIDs(p)
        <4>1. ASSUME NEW us, Set(p, [job[p] EXCEPT !.got = us, !.pc = "guard"])
              PROVE  job'[p].pc = "guard"
          BY <1>0, <4>1 DEF Set, Jobs
        <4> QED
          BY <3>0, <3>2, <4>1 DEF FindByExUaslIDs
      <3>3. CASE FindInternalAdministrators(p)
        <4>1. ASSUME NEW as, Set(p, [job[p] EXCEPT !.known = as, !.pc = "discover"])
              PROVE  job'[p].pc = "discover"
          BY <1>0, <4>1 DEF Set, Jobs
        <4> QED
          BY <3>3, <4>1 DEF FindInternalAdministrators
      <3>4. CASE Discover(p)
        <4>1. ASSUME NEW us, Set(p, [job[p] EXCEPT !.got = us, !.pc = "remerge"])
              PROVE  job'[p].pc = "remerge"
          BY <1>0, <4>1 DEF Set, Jobs
        <4> QED
          BY <3>0, <3>4, <4>1 DEF Discover
      <3>5. CASE ReadForRemerge(p)
        <4>1. ASSUME Set(p, [job[p] EXCEPT !.read = admin, !.pc = "rewrite"])
              PROVE  job'[p].pc = "rewrite"
          BY <1>0, <4>1 DEF Set, Jobs
        <4> QED
          BY <3>0, <3>5, <4>1 DEF ReadForRemerge
      <3>6. CASE UpsertResolved(p)
        BY <3>0, <3>6 DEF UpsertResolved
      <3> QED
        BY <1>2, <3>1, <3>2, <3>3, <3>4, <3>5, <3>6 DEF Resolve
    <2> QED
      BY <2>1 DEF Collected, AfterFetch, AfterItems
  <1>3. ASSUME NEW k \in Kinds, NEW ask \in Asks, Arrive(p, k, ask)
        PROVE  Collected(job[p])'
    <2> DEFINE place == IF k = "availability" THEN "any" ELSE "classify"
               us    == ask.uasls
               items == ask.items
    <2>1. job'[p] = [Idle(k) EXCEPT !.pc = place, !.uasls = us, !.items = items]
      BY <1>0, <1>3 DEF Arrive, Set
    <2>2. job'[p].pc = place /\ job'[p].kind = k /\ ~job'[p].full
      BY <2>1 DEF Idle
    <2> QED
      BY <2>2 DEF Collected, AfterFetch, AfterItems
  <1>4. CASE Crash
    BY <1>1, <1>4 DEF Crash, Collected, AfterFetch, AfterItems
  <1> QED
    BY <1>2, <1>3, <1>4

CollectInv == Inv /\ \A p \in Procs : Collected(job[p])

LEMMA CollectStep ==
    ASSUME CollectInv, [Next]_vars
    PROVE  CollectInv'
  <1>1. Inv /\ Inv' /\ \A p \in Procs : Collected(job[p])
    BY StepInv DEF CollectInv
  <1>2. defs \subseteq defs' /\ stock \subseteq stock'
    BY TablesGrow
  <1>3. job \in [Procs -> Jobs]
    BY <1>1 DEF Inv, JobsGood
  <1>4. ASSUME NEW p \in Procs
        PROVE  Collected(job[p])'
    <2>1. CASE job'[p] = job[p]
      BY <1>1, <1>2, <2>1, CollectedStays
    <2>2. CASE job'[p] # job[p]
      <3>1. \/ Ingest(p) \/ Resolve(p) \/ Crash
            \/ \E k \in Kinds, ask \in Asks : Arrive(p, k, ask)
        <4>1. ASSUME NEW q \in Procs, NEW j, Set(q, j) PROVE q = p
          BY <1>3, <2>2, <4>1 DEF Set
        <4>2. ASSUME NEW q \in Procs, NEW j, Log(q, j) PROVE q = p
          BY <4>1, <4>2 DEF Log
        <4>3. ASSUME NEW q \in Procs, NEW place, Goto(q, place) PROVE q = p
          BY <4>1, <4>3 DEF Goto
        <4>4. ASSUME NEW q \in Procs, End(q) PROVE q = p
          BY <4>1, <4>4 DEF End
        <4>5. ASSUME NEW q \in Procs, Ingest(q) PROVE q = p
          <5>1. CASE HasAnyExternalDefinitions(q) \/ FindExistingExUaslIDs(q)
            BY <4>1, <4>2, <5>1 DEF HasAnyExternalDefinitions, FindExistingExUaslIDs
          <5>2. CASE Fetch(q) \/ ReadForMerge(q)
            BY <4>1, <4>2, <5>2 DEF Fetch, ReadForMerge
          <5>3. CASE CollectItems(q)
            BY <4>1, <4>2, <5>3 DEF CollectItems
          <5>4. CASE UpsertAdmins(q) \/ UpsertDefinitions(q) \/ UpsertResources(q)
            BY <4>1, <4>2, <4>3, <5>4 DEF UpsertAdmins, UpsertDefinitions, UpsertResources
          <5> QED
            BY <4>5, <5>1, <5>2, <5>3, <5>4 DEF Ingest
        <4>6. ASSUME NEW q \in Procs, Resolve(q) PROVE q = p
          <5>1. CASE Classify(q) \/ FindByExUaslIDs(q)
            BY <4>1, <4>3, <4>4, <5>1 DEF Classify, FindByExUaslIDs
          <5>2. CASE FindInternalAdministrators(q) \/ ReadForRemerge(q) \/ UpsertResolved(q)
            BY <4>1, <4>4, <5>2 DEF FindInternalAdministrators, ReadForRemerge, UpsertResolved
          <5>3. CASE Discover(q)
            BY <4>1, <4>4, <5>3 DEF Discover
          <5> QED
            BY <4>6, <5>1, <5>2, <5>3 DEF Resolve
        <4>7. ASSUME NEW q \in Procs, NEW k \in Kinds, NEW ask \in Asks, Arrive(q, k, ask)
              PROVE  q = p
          BY <4>1, <4>7 DEF Arrive
        <4> QED
          BY <2>2, <4>5, <4>6, <4>7 DEF Next, Quiet, vars
      <3>2. CASE Ingest(p)
        BY <1>1, <3>2, LooksCollect, FetchCollects, ItemsCollect, WritesCollect, StoresCollect
        DEF Ingest
      <3> QED
        BY <1>1, <3>1, <3>2, OthersCollect
    <2> QED
      BY <2>1, <2>2
  <1> QED
    BY <1>1, <1>4 DEF CollectInv

\* Whatever is in the tables and whoever else writes them: a GetAvailability request that
\* met no failure finds every own air way and every resource it named in the tables, and
\* its air ways in an administrator's row or among those another write took from one.
THEOREM AskedAreStored == Spec => []AskedIsStored
  <1>1. Init => CollectInv
    BY InitInv DEF Init, CollectInv, Collected, Idle
  <1>2. CollectInv /\ [Next]_vars => CollectInv'
    BY CollectStep
  <1>3. CollectInv /\ OwnRoutable => AskedIsStored
    <2> SUFFICES ASSUME CollectInv, OwnRoutable, NEW p \in Procs, At(p, "classify"),
                        job[p].kind = "availability", ~job[p].failed
                 PROVE  /\ job[p].uasls \cap OwnUasls \subseteq defs \cap (Listed \cup dropped)
                        /\ job[p].items \subseteq stock
      BY DEF AskedIsStored
    <2>1. job[p].uasls \cap OwnUasls \subseteq defs /\ job[p].items \subseteq stock
      BY DEF CollectInv, Collected, At
    <2>2. \A u \in OwnUasls : AdminOf[u] \in Admins
      BY DirectoryAssumption DEF OwnUasls
    <2> QED
      BY <2>1, <2>2 DEF OwnRoutable, Listed
  <1> QED
    BY <1>1, <1>2, <1>3, OwnRoutes, PTL DEF Spec
=============================================================================
