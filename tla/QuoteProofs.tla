----------------------------- MODULE QuoteProofs ------------------------------
(* Proofs about Quote, for every order, price list and number of attempts: no    *)
(* request is accepted with a window nobody asked about, the reason a request is *)
(* refused for is one that was found, and what is billed is the bill by the      *)
(* minute, rounded up piece by piece and never dearer than child by child.       *)
EXTENDS Quote, SetLemmas

-----------------------------------------------------------------------------
(* The invariant: what the goroutines of the check and of the prices are at.     *)

Asking == {"ready", "detail", "list"}
Bad == {"taken", "failed", "timeout", "stopped"}

Kept ==
    /\ order \in Orders /\ phase \in Phases /\ gone \in BOOLEAN /\ outcome \in Outcomes
    /\ task \in [Uses -> Tasks] /\ reported \in Seq(Uses)

\* Who has found something is in the channel; who has not been asked, or stopped, was
\* stopped by a finding or by the client.
Voices ==
    /\ \A i \in Uses : task[i].seen \in Bad <=> i \in Range(reported)
    /\ \A i \in Uses : task[i].at \in Asking => task[i].seen = "unasked"
    /\ \A i \in Uses : task[i].at \notin Asking /\ task[i].seen = "unasked" => Stopped
    /\ (\E i \in Uses : task[i].seen = "stopped") =>
          gone \/ \E k \in Uses : task[k].seen \in Bad \ {"stopped"}

\* Whatever a hold asks about ends after it starts.
AllForward == \A i \in Uses : Forward(Use(i))

\* The prices are fetched only when nothing was reported, and when a window was not asked
\* about not one fetch begins.
Course ==
    /\ phase = "new" => \A i \in Uses : task[i].at = "ready"
    /\ phase = "check" => \A i \in Uses : task[i].at \in Asking \cup {"end"}
    /\ phase \in {"price", "sections"} =>
          /\ \A i \in Uses : task[i].at \in {"call", "flight", "paid", "broken", "spare"}
          /\ reported = <<>>
          /\ (\E i \in Uses : task[i].seen = "unasked") =>
                \A i \in Uses : task[i].at \in {"call", "broken", "spare"}
    /\ phase = "sections" => \A i \in Uses : task[i].at \in {"paid", "spare"}
    /\ phase = "answered" => \A i \in Uses : task[i].at \notin {"detail", "list", "call", "flight"}
    /\ \A i \in Uses : task[i].at = "spare" => Spare(i)
    /\ phase # "answered" => outcome = "none"
    /\ phase \in {"check", "price", "sections"} \/ outcome = "accepted" => AllForward

\* A call to the price service is made while an attempt is left.
Tried ==
    /\ \A i \in Uses : task[i].at \in Asking \cup {"end"} => task[i].tries = 0
    /\ \A i \in Uses : task[i].at = "call" => task[i].tries < MaxAttempts

QuoteInv == Kept /\ Tried /\ Voices /\ Course /\ PassMeansAsked /\ CauseReported

-----------------------------------------------------------------------------
(* Lemmas. *)

\* What a request asks for: a list of windows of known aircraft and ports, with the times
\* that are given.
LEMMA OrderOK ==
    ASSUME Kept
    PROVE  /\ IsList(order.uses) /\ Uses = 1..Len(order.uses) /\ Len(order.uses) \in Nat
           /\ IsFiniteSet(Uses) /\ Uses \subseteq Nat
           /\ \A i \in Uses : /\ Use(i).what \in DOMAIN Tariffs
                              /\ {Use(i).from, Use(i).to} \subseteq Nat \cup {Ever}
                              /\ Timed(Use(i)) => Use(i).from \in Nat /\ Use(i).to \in Nat
  <1>1. IsList(order.uses) /\ \A w \in Range(order.uses) :
          w.what \in DOMAIN Tariffs /\ {w.from, w.to} \subseteq Nat \cup {Ever}
    BY QuoteAssumption DEF Kept
  <1>2. \A i \in Uses : Use(i) \in Range(order.uses)
    BY DEF Uses, Use, Range
  <1>3. IsFiniteSet(1..Len(order.uses))
    BY <1>1, FS_Interval DEF IsList
  <1> QED
    BY <1>1, <1>2, <1>3 DEF IsList, Uses, Timed

\* What a request asks for stays the same.
LEMMA ForwardSame == UNCHANGED order => AllForward' = AllForward
  BY DEF AllForward, Uses, Use

\* A goroutine that goes on changes its own record only, and only where it is at.
LEMMA StepEffect ==
    ASSUME Kept, NEW i \in Uses, NEW at \in Waits \cup Ends, Step(i, at)
    PROVE  /\ task' \in [Uses -> Tasks]
           /\ task'[i].at = at /\ task'[i].seen = task[i].seen /\ task'[i].tries = task[i].tries
           /\ \A k \in Uses : k # i => task'[k] = task[k]
  BY DEF Kept, Step, Tasks

\* A goroutine that ends says what it has seen, and no other's record changes.
LEMMA EndEffect ==
    ASSUME Kept, NEW i \in Uses, NEW seen \in Findings, End(i, seen)
    PROVE  /\ task' \in [Uses -> Tasks]
           /\ task'[i].at = "end" /\ task'[i].seen = seen /\ task'[i].tries = task[i].tries
           /\ \A k \in Uses : k # i => task'[k] = task[k]
  BY DEF Kept, End, Tasks, Ends

\* One finding more is in the channel.
LEMMA ReportEffect ==
    ASSUME Kept, NEW i \in Uses, reported' = Append(reported, i)
    PROVE  /\ reported' \in Seq(Uses) /\ reported' # <<>>
           /\ Range(reported') = Range(reported) \cup {i}
  <1>1. /\ Len(reported') = Len(reported) + 1 /\ Len(reported) \in Nat
        /\ DOMAIN reported = 1..Len(reported) /\ DOMAIN reported' = 1..Len(reported')
        /\ \A n \in DOMAIN reported : reported'[n] = reported[n]
        /\ reported'[Len(reported')] = i
    BY DEF Kept
  <1>2. \A n \in DOMAIN reported' : n \in DOMAIN reported \/ n = Len(reported')
    BY <1>1
  <1>3. Range(reported') = Range(reported) \cup {i}
    <2>1. \A x \in Range(reported') : x \in Range(reported) \cup {i}
      BY <1>1, <1>2 DEF Range
    <2>2. \A x \in Range(reported) \cup {i} : x \in Range(reported')
      BY <1>1 DEF Range
    <2> QED
      BY <2>1, <2>2
  <1> QED
    BY <1>1, <1>3 DEF Kept

\* The channel is empty exactly when nobody is in it.
LEMMA NothingReported ==
    ASSUME Kept
    PROVE  reported = <<>> <=> Range(reported) = {}
  <1>1. /\ Len(reported) \in Nat /\ DOMAIN reported = 1..Len(reported)
        /\ reported # <<>> => 1 \in DOMAIN reported
    BY DEF Kept
  <1>2. reported # <<>> => reported[1] \in Range(reported)
    BY <1>1 DEF Range
  <1>3. reported = <<>> => Range(reported) = {}
    BY <1>1 DEF Range
  <1> QED
    BY <1>2, <1>3

\* The invariant holds at first, and every action keeps it: one lemma for each.
LEMMA InvInit == QuoteInit => QuoteInv
  <1> SUFFICES ASSUME QuoteInit PROVE QuoteInv
    OBVIOUS
  <1>1. Kept
    <2>1. order \in Orders /\ phase \in Phases /\ gone \in BOOLEAN /\ outcome \in Outcomes
      BY DEF QuoteInit, Phases, Outcomes
    <2>2. [at |-> "ready", seen |-> "unasked", tries |-> 0] \in Tasks
      BY QuoteAssumption DEF Tasks, Waits, Findings
    <2>3. task \in [Uses -> Tasks]
      BY <2>2 DEF QuoteInit, Uses
    <2>4. reported \in Seq(Uses)
      BY DEF QuoteInit
    <2> QED
      BY <2>1, <2>3, <2>4 DEF Kept
  <1>2. \A i \in Uses : task[i].at = "ready" /\ task[i].seen = "unasked"
    BY DEF QuoteInit, Uses
  <1>3. Range(reported) = {}
    BY <1>1, NothingReported DEF QuoteInit
  <1>6. Tried
    BY DEF QuoteInit, Tried, Uses, Asking
  <1>4. Voices
    BY <1>2, <1>3 DEF Voices, Bad, Asking
  <1>5. Course /\ PassMeansAsked /\ CauseReported
    BY <1>2 DEF QuoteInit, Course, PassMeansAsked, CauseReported
  <1> QED
    BY <1>1, <1>4, <1>5, <1>6 DEF QuoteInv

\* The client goes: more may be stopped now, nobody else is.
LEMMA InvLeave == QuoteInv /\ Leave => QuoteInv'
  <1> SUFFICES ASSUME QuoteInv, Leave PROVE QuoteInv'
    OBVIOUS
  <1> USE DEF QuoteInv, Leave
  <1>1. Kept'
    BY DEF Kept, Uses
  <1>2. Voices'
    BY DEF Voices, Stopped, Uses
  <1>3. Course'
    BY ForwardSame DEF Course, Uses, Spare, Use
  <1>5. Tried'
    BY DEF Tried, Uses
  <1>4. PassMeansAsked' /\ CauseReported'
    BY DEF PassMeansAsked, CauseReported, Uses
  <1> QED
    BY <1>1, <1>2, <1>3, <1>4, <1>5

\* The check begins.
LEMMA InvHold == QuoteInv /\ Hold => QuoteInv'
  <1> SUFFICES ASSUME QuoteInv, Hold PROVE QuoteInv'
    OBVIOUS
  <1> USE DEF QuoteInv, Hold
  <1>1. Kept'
    BY DEF Kept, Uses, Phases
  <1>2. Voices'
    BY DEF Voices, Stopped, Uses
  <1>3. Course'
    BY ForwardSame DEF Course, Uses, Spare, Use, Asking, AllForward
  <1>5. Tried'
    BY DEF Tried, Uses
  <1>4. PassMeansAsked' /\ CauseReported'
    BY DEF PassMeansAsked, CauseReported, Uses, Course
  <1> QED
    BY <1>1, <1>2, <1>3, <1>4, <1>5

\* A goroutine of the check goes on, or ends without a finding.
LEMMA InvQuiet ==
    ASSUME QuoteInv, NEW i \in Uses, phase = "check", task[i].at \in Asking,
           task' \in [Uses -> Tasks], \A k \in Uses : k # i => task'[k] = task[k],
           task'[i].tries = task[i].tries,
           \/ task'[i].at \in Asking /\ task'[i].seen = task[i].seen
           \/ task'[i].at = "end" /\ task'[i].seen \in {"free", "unknown"}
           \/ task'[i].at = "end" /\ task'[i].seen = "unasked" /\ Stopped,
           UNCHANGED <<order, phase, gone, reported, bill, fees, outcome>>
    PROVE  QuoteInv'
  <1> USE DEF QuoteInv
  <1>1. Kept'
    BY DEF Kept, Uses
  <1>2. Uses' = Uses /\ Stopped' = Stopped
    BY DEF Uses, Stopped
  <1>3. task[i].seen = "unasked"
    BY DEF Voices
  <1>4. Voices'
    <2>1. \A k \in Uses : task'[k].seen \in Bad <=> k \in Range(reported)
      BY <1>3 DEF Voices, Bad
    <2>2. \A k \in Uses : task'[k].at \in Asking => task'[k].seen = "unasked"
      BY <1>3 DEF Voices, Asking
    <2>3. \A k \in Uses : task'[k].at \notin Asking /\ task'[k].seen = "unasked" => Stopped
      BY <1>3 DEF Voices, Asking
    <2>4. (\E k \in Uses : task'[k].seen = "stopped") =>
             gone \/ \E k \in Uses : task'[k].seen \in Bad \ {"stopped"}
      BY <1>3 DEF Voices, Bad
    <2> QED
      BY <2>1, <2>2, <2>3, <2>4, <1>2 DEF Voices
  <1>5. Course'
    BY <1>2, ForwardSame DEF Course, Asking, Spare, Use
  <1>6. PassMeansAsked' /\ CauseReported'
    BY <1>2 DEF PassMeansAsked, CauseReported, Course
  <1>7. Tried'
    BY <1>2 DEF Tried, Asking
  <1> QED
    BY <1>1, <1>4, <1>5, <1>6, <1>7

\* A goroutine of the check puts a finding in the channel.
LEMMA InvReports ==
    ASSUME QuoteInv, NEW i \in Uses, phase = "check", task[i].at \in Asking,
           NEW seen \in Troubles \cup {"taken"}, Reports(i, seen),
           UNCHANGED <<order, phase, gone, bill, fees, outcome>>
    PROVE  QuoteInv'
  <1> USE DEF QuoteInv
  <1>1. seen \in Bad /\ (seen = "stopped" => Stopped)
    BY DEF Troubles, Bad
  <1>2. /\ task' \in [Uses -> Tasks] /\ task'[i].at = "end" /\ task'[i].seen = seen
        /\ task'[i].tries = task[i].tries /\ \A k \in Uses : k # i => task'[k] = task[k]
    BY <1>1, EndEffect DEF Reports, Bad, Findings
  <1>3. /\ reported' \in Seq(Uses) /\ reported' # <<>>
        /\ Range(reported') = Range(reported) \cup {i}
    BY ReportEffect DEF Reports
  <1>4. Uses' = Uses
    BY DEF Uses
  <1>5. Kept'
    BY <1>2, <1>3, <1>4 DEF Kept
  <1>6. task[i].seen = "unasked"
    BY DEF Voices
  <1>7. Voices'
    <2>1. \A k \in Uses : task'[k].seen \in Bad <=> k \in Range(reported')
      BY <1>1, <1>2, <1>3 DEF Voices
    <2>2. \A k \in Uses : task'[k].at \in Asking => task'[k].seen = "unasked"
      BY <1>2 DEF Voices, Asking
    <2>3. Stopped'
      BY <1>3 DEF Stopped
    <2>4. (\E k \in Uses : task'[k].seen = "stopped") =>
             gone \/ \E k \in Uses : task'[k].seen \in Bad \ {"stopped"}
      <3> SUFFICES ASSUME NEW k \in Uses, task'[k].seen = "stopped", ~gone
                   PROVE  \E l \in Uses : task'[l].seen \in Bad \ {"stopped"}
        OBVIOUS
      <3>1. \A l \in Uses : task[l].seen \in Bad => task'[l].seen = task[l].seen
        BY <1>2, <1>6 DEF Bad
      <3>2. CASE \E l \in Uses : task[l].seen \in Bad
        <4>1. PICK l \in Uses : task[l].seen \in Bad
          BY <3>2
        <4>2. \E m \in Uses : task[m].seen \in Bad \ {"stopped"}
          BY <4>1 DEF Voices, Bad
        <4> QED
          BY <4>2, <3>1
      <3>3. CASE ~\E l \in Uses : task[l].seen \in Bad
        <4>1. Range(reported) = {}
          <5>1. \A l \in Range(reported) : l \in Uses
            BY DEF Kept, Range
          <5> QED
            BY <3>3, <5>1 DEF Voices
        <4>2. ~Stopped
          BY <4>1, NothingReported DEF Stopped
        <4>3. task'[i].seen \in Bad \ {"stopped"}
          BY <1>1, <1>2, <4>2
        <4> QED
          BY <4>3
      <3> QED
        BY <3>2, <3>3
    <2> QED
      BY <2>1, <2>2, <2>3, <2>4, <1>4 DEF Voices
  <1>8. Course'
    BY ForwardSame, <1>2, <1>4 DEF Course, Asking, Spare, Use
  <1>9. PassMeansAsked' /\ CauseReported'
    BY <1>4 DEF PassMeansAsked, CauseReported, Course
  <1>10. Tried'
    BY <1>2, <1>4 DEF Tried, Asking
  <1> QED
    BY <1>5, <1>7, <1>8, <1>9, <1>10

\* A goroutine of the check asks, finds something or ends.
LEMMA InvAsking ==
    ASSUME QuoteInv, NEW i \in Uses, StartCheck(i) \/ GetDronePortInfoDetail(i) \/ ListReservations(i)
    PROVE  QuoteInv'
  <1> USE DEF QuoteInv
  <1>1. task[i].at \in Asking /\ phase = "check"
    BY DEF StartCheck, GetDronePortInfoDetail, ListReservations, Asking, Course, Kept, Phases
  <1>2. CASE StartCheck(i)
    <2>1. CASE Stopped
      BY <1>1, <1>2, <2>1, EndEffect, InvQuiet DEF StartCheck, Findings
    <2>2. CASE ~Stopped
      <3> DEFINE at == IF Use(i).what \in Docks THEN "detail" ELSE "list"
      <3>1. at \in Asking /\ at \in Waits
        BY DEF Asking, Waits
      <3>2. Step(i, at)
        BY <1>2, <2>2 DEF StartCheck
      <3> HIDE DEF at
      <3> QED
        BY <1>1, <1>2, <3>1, <3>2, StepEffect, InvQuiet DEF StartCheck
    <2> QED
      BY <2>1, <2>2
  <1>3. CASE GetDronePortInfoDetail(i)
    <2>1. CASE Step(i, "list") /\ UNCHANGED reported
      BY <1>1, <1>3, <2>1, StepEffect, InvQuiet DEF GetDronePortInfoDetail, Waits, Asking
    <2>2. CASE End(i, "unknown") /\ UNCHANGED reported
      BY <1>1, <1>3, <2>2, EndEffect, InvQuiet DEF GetDronePortInfoDetail, Findings
    <2>3. CASE \E t \in Troubles : Reports(i, t)
      BY <1>1, <1>3, <2>3, InvReports DEF GetDronePortInfoDetail
    <2> QED
      BY <1>3, <2>1, <2>2, <2>3 DEF GetDronePortInfoDetail
  <1>4. CASE ListReservations(i)
    <2>1. CASE End(i, "free") /\ UNCHANGED reported
      BY <1>1, <1>4, <2>1, EndEffect, InvQuiet DEF ListReservations, Findings
    <2>2. CASE End(i, "unknown") /\ UNCHANGED reported
      BY <1>1, <1>4, <2>2, EndEffect, InvQuiet DEF ListReservations, Findings
    <2>3. CASE \E t \in Troubles \cup {"taken"} : Reports(i, t)
      BY <1>1, <1>4, <2>3, InvReports DEF ListReservations
    <2> QED
      BY <1>4, <2>1, <2>2, <2>3 DEF ListReservations
  <1> QED
    BY <1>2, <1>3, <1>4

\* The verdict: who found something is in the channel, so it is the reason.
LEMMA InvConclude == QuoteInv /\ Conclude => QuoteInv'
  <1> SUFFICES ASSUME QuoteInv, Conclude PROVE QuoteInv'
    OBVIOUS
  <1> USE DEF QuoteInv
  <1>1. Uses' = Uses /\ Stopped' = Stopped
    BY DEF Conclude, Uses, Stopped
  <1>2. \A i \in Uses : task[i].at = "end"
    BY DEF Conclude
  <1>3. \A i \in Uses : task[i].seen \in Bad <=> i \in Range(reported)
    BY DEF Voices
  <1>4. \A i \in Range(reported) : i \in Uses
    BY DEF Kept, Range
  <1>5. CASE Verdict # "none"
    <2>1. task' = task /\ phase' = "answered" /\ outcome' = Verdict
      BY <1>5 DEF Conclude
    <2>2. Kept'
      BY <1>1, <2>1 DEF Kept, Conclude, Phases, Outcomes, Verdict
    <2>3. Voices'
      BY <1>1, <2>1 DEF Voices, Conclude
    <2>4. Course'
      BY ForwardSame, <1>1, <1>2, <2>1 DEF Course, Spare, Use, Conclude
    <2>5. PassMeansAsked'
      BY <2>1 DEF PassMeansAsked, Verdict
    <2>6. outcome' = "conflict" <=> \E i \in Uses : task[i].seen = "taken"
      BY <2>1, <1>3, <1>4 DEF Verdict, Reported, Bad
    <2>7. outcome' = "late" => /\ ~\E i \in Uses : task[i].seen = "failed"
                               /\ gone \/ \E i \in Uses : task[i].seen = "timeout"
      <3> SUFFICES ASSUME outcome' = "late"
                   PROVE  /\ ~\E i \in Uses : task[i].seen = "failed"
                          /\ gone \/ \E i \in Uses : task[i].seen = "timeout"
        OBVIOUS
      <3>1. ~Reported({"taken"}) /\ ~Reported({"failed"}) /\ Reported({"timeout", "stopped"})
        BY <2>1 DEF Verdict
      <3>2. \A i \in Uses : task[i].seen \notin {"taken", "failed"}
        BY <3>1, <1>3 DEF Reported, Bad
      <3>3. PICK i \in Uses : task[i].seen \in {"timeout", "stopped"}
        BY <3>1, <1>4 DEF Reported
      <3>4. task[i].seen = "stopped" => gone \/ \E k \in Uses : task[k].seen \in Bad \ {"stopped"}
        BY DEF Voices
      <3> QED
        BY <3>2, <3>3, <3>4 DEF Bad
    <2>8. CauseReported'
      BY <1>1, <2>1, <2>6, <2>7 DEF CauseReported, Conclude
    <2>9. Tried'
      BY <1>1, <2>1 DEF Tried
    <2> QED
      BY <2>2, <2>3, <2>4, <2>5, <2>8, <2>9
  <1>6. CASE Verdict = "none"
    <2>1. \A i \in Uses : task[i].seen \notin Bad
      BY <1>3, <1>6 DEF Verdict, Reported, Bad
    <2>2. reported = <<>>
      BY <2>1, <1>3, <1>4, NothingReported
    <2>3. /\ phase' = "price" /\ outcome' = "none" /\ UNCHANGED <<order, gone, reported, bill, fees>>
          /\ task' = [i \in Uses |-> [task[i] EXCEPT !.at = IF Spare(i) THEN "spare" ELSE "call"]]
      BY <1>6 DEF Conclude
    <2>4. \A i \in Uses : /\ task'[i] \in Tasks /\ task'[i].seen = task[i].seen /\ task'[i].tries = task[i].tries
                          /\ task'[i].at = IF Spare(i) THEN "spare" ELSE "call"
      BY <2>3 DEF Kept, Tasks, Waits, Ends
    <2>5. task' \in [Uses -> Tasks]
      BY <2>3, <2>4
    <2>6. Kept'
      BY <1>1, <2>3, <2>5 DEF Kept, Phases, Outcomes
    <2>7. Voices'
      <3>1. \A i \in Uses : task'[i].seen \notin Bad
        BY <2>1, <2>4
      <3>2. \A i \in Uses : task'[i].at \notin Asking
        BY <2>4 DEF Asking
      <3>3. \A i \in Uses : task'[i].seen = "unasked" => Stopped
        BY <1>2, <2>4 DEF Voices, Asking
      <3> QED
        BY <1>1, <1>3, <2>1, <2>3, <3>1, <3>2, <3>3 DEF Voices, Bad
    <2>8. Course'
      <3>1. AllForward'
        BY <2>3, ForwardSame DEF Conclude, Course
      <3> QED
        BY <1>1, <2>2, <2>3, <2>4, <3>1 DEF Course, Spare, Use
    <2>9. PassMeansAsked' /\ CauseReported'
      BY <1>1, <2>1, <2>3, <2>4 DEF PassMeansAsked, CauseReported, Bad
    <2>10. Tried'
      BY <1>1, <1>2, <2>4, QuoteAssumption DEF Tried, Asking
    <2> QED
      BY <2>6, <2>7, <2>8, <2>9, <2>10
  <1> QED
    BY <1>5, <1>6

\* A fetch begins, ends or is tried again.
LEMMA InvFetching ==
    ASSUME QuoteInv, NEW i \in Uses, phase = "price", task[i].at \in {"call", "flight"},
           task' \in [Uses -> Tasks], \A k \in Uses : k # i => task'[k] = task[k],
           task'[i].seen = task[i].seen, task'[i].at \in {"call", "flight", "paid", "broken"},
           task[i].at = "call" /\ gone => task'[i].at = "broken",
           task'[i].at = "call" => task'[i].tries < MaxAttempts,
           UNCHANGED <<order, phase, gone, reported, outcome>>
    PROVE  QuoteInv'
  <1> USE DEF QuoteInv
  <1>1. Uses' = Uses /\ Stopped' = Stopped
    BY DEF Uses, Stopped
  <1>2. Kept'
    BY <1>1 DEF Kept
  <1>3. \A k \in Uses : task'[k].seen = task[k].seen
    OBVIOUS
  <1>4. \A k \in Uses : task[k].at \notin Asking /\ task'[k].at \notin Asking
    BY DEF Course, Asking
  <1>5. Voices'
    BY <1>1, <1>3, <1>4 DEF Voices
  <1>6. (\E k \in Uses : task[k].seen = "unasked") => gone
    BY <1>4 DEF Voices, Course, Stopped
  <1>7. Course'
    <2>1. \A k \in Uses : task'[k].at \in {"call", "flight", "paid", "broken", "spare"}
      BY DEF Course
    <2>2. (\E k \in Uses : task'[k].seen = "unasked") =>
             \A k \in Uses : task'[k].at \in {"call", "broken", "spare"}
      BY <1>3, <1>6 DEF Course
    <2>3. \A k \in Uses : task'[k].at = "spare" => Spare(k) /\ Spare(k)'
      BY <1>1 DEF Course, Spare, Use
    <2> QED
      BY ForwardSame, <1>1, <2>1, <2>2, <2>3 DEF Course
  <1>8. PassMeansAsked' /\ CauseReported'
    BY <1>1, <1>3 DEF PassMeansAsked, CauseReported, Course
  <1>9. Tried'
    BY <1>1 DEF Tried, Asking
  <1> QED
    BY <1>2, <1>5, <1>7, <1>8, <1>9

\* A price is asked for, comes, or does not.
LEMMA InvAttempt ==
    ASSUME QuoteInv, NEW i \in Uses, Attempt(i) \/ Receive(i)
    PROVE  QuoteInv'
  <1> USE DEF QuoteInv
  <1>1. task[i].at \in {"call", "flight"} /\ phase = "price"
    BY DEF Attempt, Receive, Course, Kept, Phases, Asking
  <1>2. CASE Attempt(i)
    <2>1. CASE Halted(i)
      BY <1>1, <1>2, <2>1, StepEffect, InvFetching DEF Attempt, Ends
    <2>2. CASE ~Halted(i)
      <3>1. task' = [task EXCEPT ![i].at = "flight", ![i].tries = @ + 1] /\ ~gone
        BY <1>2, <2>2 DEF Attempt, Halted
      <3>2. task[i].at = "call" /\ task[i] \in Tasks
        BY <1>2 DEF Attempt, Kept
      <3>3. task[i].tries + 1 \in 0..MaxAttempts
        BY <3>2, QuoteAssumption DEF Tried, Tasks
      <3>4. /\ task' \in [Uses -> Tasks] /\ task'[i].at = "flight" /\ task'[i].seen = task[i].seen
            /\ \A k \in Uses : k # i => task'[k] = task[k]
        BY <3>1, <3>3 DEF Kept, Tasks, Waits
      <3> QED
        BY <1>1, <1>2, <3>1, <3>4, InvFetching DEF Attempt
    <2> QED
      BY <2>1, <2>2
  <1>3. CASE Receive(i)
    <2>1. CASE Step(i, "paid")
      BY <1>1, <1>3, <2>1, StepEffect, InvFetching DEF Receive, Ends
    <2>2. CASE Step(i, "broken")
      BY <1>1, <1>3, <2>2, StepEffect, InvFetching DEF Receive, Ends
    <2>3. CASE Again(i) /\ Step(i, "call")
      BY <1>1, <1>3, <2>3, StepEffect, InvFetching DEF Receive, Waits, Again
    <2> QED
      BY <1>3, <2>1, <2>2, <2>3 DEF Receive
  <1> QED
    BY <1>2, <1>3

\* The first window of all is no repetition of another one.
LEMMA FirstIsAsked ==
    ASSUME Kept, NEW i \in Uses
    PROVE  1 \in Uses /\ ~Spare(1)
  BY OrderOK DEF Spare

\* The prices are all there, or one is not.
LEMMA InvPriced == QuoteInv /\ CalculateResourcePrices => QuoteInv'
  <1> SUFFICES ASSUME QuoteInv, CalculateResourcePrices PROVE QuoteInv'
    OBVIOUS
  <1> USE DEF QuoteInv, CalculateResourcePrices
  <1>1. Uses' = Uses /\ Stopped' = Stopped
    BY DEF Uses, Stopped
  <1>2. Kept'
    BY <1>1 DEF Kept, Phases, Outcomes
  <1>3. Voices' /\ Tried'
    BY <1>1 DEF Voices, Tried
  <1>4. Course'
    <2>1. \A i \in Uses : task[i].at \in {"paid", "broken", "spare"}
      BY DEF Course, Fetching
    <2>2. \A i \in Uses : task[i].at = "spare" => Spare(i) /\ Spare(i)'
      BY <1>1 DEF Course, Spare, Use
    <2>3. CASE \E i \in Uses : Broken(i)
      BY <1>1, <2>1, <2>2, <2>3 DEF Course
    <2>4. CASE ~\E i \in Uses : Broken(i)
      BY ForwardSame, <1>1, <2>1, <2>2, <2>4 DEF Course, Broken
    <2> QED
      BY <2>3, <2>4
  <1>5. PassMeansAsked' /\ CauseReported'
    BY <1>1 DEF PassMeansAsked, CauseReported, Course
  <1> QED
    BY <1>2, <1>3, <1>4, <1>5

\* The sections are priced, or that fails.
LEMMA InvSections == QuoteInv /\ CalculateInternalSectionPrices => QuoteInv'
  <1> SUFFICES ASSUME QuoteInv, CalculateInternalSectionPrices PROVE QuoteInv'
    OBVIOUS
  <1> USE DEF QuoteInv, CalculateInternalSectionPrices
  <1>1. Uses' = Uses /\ Stopped' = Stopped
    BY DEF Uses, Stopped
  <1>2. Kept'
    BY <1>1 DEF Kept, Phases, Outcomes
  <1>3. Voices' /\ Tried'
    BY <1>1 DEF Voices, Tried
  <1>4. \A i \in Uses : task[i].at \in {"paid", "spare"}
    BY DEF Course
  <1>5. Course'
    <2>1. \A i \in Uses : task[i].at = "spare" => Spare(i) /\ Spare(i)'
      BY <1>1 DEF Course, Spare, Use
    <2> QED
      BY ForwardSame, <1>1, <1>4, <2>1 DEF Course
  <1>6. \A i \in Uses : task[i].seen \in {"free", "unknown"}
    <2> SUFFICES ASSUME NEW i \in Uses PROVE task[i].seen \in {"free", "unknown"}
      OBVIOUS
    <2>1. 1 \in Uses /\ ~Spare(1)
      BY FirstIsAsked
    <2>2. task[1].at = "paid"
      BY <2>1, <1>4 DEF Course
    <2>3. task[i].seen # "unasked"
      BY <2>1, <2>2 DEF Course
    <2>4. task[i].seen \notin Bad
      BY NothingReported DEF Voices, Course
    <2>5. task[i].seen \in Findings
      BY DEF Kept, Tasks
    <2> QED
      BY <2>3, <2>4, <2>5 DEF Findings, Bad
  <1>7. PassMeansAsked' /\ CauseReported'
    BY <1>1, <1>6 DEF PassMeansAsked, CauseReported
  <1> QED
    BY <1>2, <1>3, <1>5, <1>7

\* An estimate asks nobody.
LEMMA InvEstimate == QuoteInv /\ EstimateUaslReservation => QuoteInv'
  <1> SUFFICES ASSUME QuoteInv, EstimateUaslReservation PROVE QuoteInv'
    OBVIOUS
  <1> USE DEF QuoteInv, EstimateUaslReservation
  <1>1. Uses' = Uses /\ Stopped' = Stopped
    BY DEF Uses, Stopped
  <1>2. Kept'
    BY <1>1 DEF Kept, Phases, Outcomes
  <1>3. Voices' /\ Tried'
    BY <1>1 DEF Voices, Tried
  <1>4. \A i \in Uses : task[i].at = "ready" /\ task[i].seen = "unasked"
    BY DEF Course, Voices, Asking
  <1>5. Course'
    BY <1>1, <1>4 DEF Course
  <1>6. outcome' \in {"estimated", "failed"}
    OBVIOUS
  <1>7. PassMeansAsked' /\ CauseReported'
    BY <1>1, <1>4, <1>6 DEF PassMeansAsked, CauseReported
  <1> QED
    BY <1>2, <1>3, <1>5, <1>7

\* Every step keeps the invariant.
LEMMA InvStep == QuoteInv /\ [QuoteNext]_quoteVars => QuoteInv'
  <1>1. QuoteInv /\ UNCHANGED quoteVars => QuoteInv'
    BY DEF QuoteInv, quoteVars, Kept, Tried, Voices, Course, PassMeansAsked, CauseReported,
           Uses, Stopped, Spare, Use, AllForward
  <1>2. QuoteInv /\ QuoteNext => QuoteInv'
    BY <1>1, InvLeave, InvHold, InvAsking, InvConclude, InvAttempt, InvPriced, InvSections,
       InvEstimate DEF QuoteNext, Answered
  <1> QED
    BY <1>1, <1>2

\* The invariant of the check and of the prices, always.
LEMMA QuoteInvAlways == QuoteSpec => []QuoteInv
  BY InvInit, InvStep, PTL DEF QuoteSpec

\* No request is accepted with a window nobody looked at, however its goroutines, the
\* client and the vendors interleave.
THEOREM NobodyUnasked == QuoteSpec => []PassMeansAsked
  BY QuoteInvAlways, PTL DEF QuoteInv

\* A request is refused for what was found, never for a goroutine that was stopped by
\* another one's finding.
THEOREM CauseIsReported == QuoteSpec => []CauseReported
  BY QuoteInvAlways, PTL DEF QuoteInv

-----------------------------------------------------------------------------
(* What is billed is the price of a window that was asked for. *)

PriceOf(i) == ResourcePrice(Tariffs[Use(i).what], Use(i).from, Use(i).to)

BillInv ==
    /\ \A x \in DOMAIN bill : \E i \in TimedUses(x) : bill[x] = PriceOf(i)
    /\ \A i \in Uses : task[i].at = "paid" => Use(i).what \in DOMAIN bill
    /\ outcome = "accepted" => DOMAIN bill = AskedFor
    /\ outcome = "estimated" => DOMAIN bill = OwnTimed
    /\ outcome \in {"accepted", "estimated"} => fees = InternalSectionPrices
    /\ fees \in {NoFees, InternalSectionPrices}

\* Nothing is on the bill at first.
LEMMA BillInit == QuoteInit => BillInv
  BY DEF QuoteInit, BillInv, Uses

\* Nothing is added to the bill, and nobody has paid who had not.
LEMMA BillSame ==
    ASSUME BillInv, UNCHANGED <<order, bill, fees>>,
           \A i \in Uses : task'[i].at = "paid" => task[i].at = "paid",
           outcome' \in {"accepted", "estimated"} => outcome = outcome'
    PROVE  BillInv'
  <1>1. /\ Uses' = Uses /\ AskedFor' = AskedFor /\ InternalSectionPrices' = InternalSectionPrices
        /\ \A i : Use(i)' = Use(i) /\ PriceOf(i)' = PriceOf(i)
        /\ OwnTimed' = OwnTimed /\ \A x : TimedUses(x)' = TimedUses(x)
    BY DEF Uses, Use, AskedFor, OwnTimed, TimedUses, InternalSectionPrices, PriceOf, Flown, WindowsOf, SectionTotal, Merged, Opens
  <1> QED
    BY <1>1 DEF BillInv

\* An amount that arrives is the price of the window it was asked for.
LEMMA BillReceive ==
    ASSUME QuoteInv, BillInv, NEW i \in Uses, Receive(i)
    PROVE  BillInv'
  <1>1. /\ Uses' = Uses /\ AskedFor' = AskedFor /\ InternalSectionPrices' = InternalSectionPrices
        /\ \A k : Use(k)' = Use(k) /\ PriceOf(k)' = PriceOf(k)
        /\ OwnTimed' = OwnTimed /\ \A x : TimedUses(x)' = TimedUses(x)
    BY DEF Uses, Use, AskedFor, OwnTimed, TimedUses, InternalSectionPrices, PriceOf, Flown, WindowsOf, SectionTotal, Merged, Opens, Receive
  <1>2. Kept
    BY DEF QuoteInv
  <1>3. CASE /\ bill' = [x \in DOMAIN bill \cup {Use(i).what} |->
                            IF x = Use(i).what THEN ResourcePrice(Tariffs[x], Use(i).from, Use(i).to)
                            ELSE bill[x]]
             /\ Step(i, "paid")
    <2>1. /\ DOMAIN bill' = DOMAIN bill \cup {Use(i).what}
          /\ bill'[Use(i).what] = PriceOf(i)
          /\ \A x \in DOMAIN bill : x # Use(i).what => bill'[x] = bill[x]
      BY <1>3 DEF PriceOf
    <2>2. \A k \in Uses : k # i => task'[k] = task[k]
      BY <1>2, <1>3, StepEffect DEF Ends
    <2>3. outcome' = "none" /\ fees' = fees /\ AllForward
      BY DEF Receive, QuoteInv, Course, Kept, Asking, Phases
    <2>4. i \in TimedUses(Use(i).what)
      BY <2>3 DEF TimedUses, AllForward, Forward
    <2> QED
      BY <1>1, <2>1, <2>2, <2>3, <2>4 DEF BillInv
  <1>4. CASE Step(i, "broken") /\ UNCHANGED bill
    BY <1>2, <1>4, StepEffect, BillSame DEF Receive, Ends
  <1>5. CASE Step(i, "call") /\ UNCHANGED bill
    BY <1>2, <1>5, StepEffect, BillSame DEF Receive, Waits
  <1> QED
    BY <1>3, <1>4, <1>5 DEF Receive

\* When all have paid or repeat one another, everything asked for is on the bill: the
\* first of equal windows repeats none.
LEMMA AllOnTheBill ==
    ASSUME Kept, Course, BillInv, phase = "sections"
    PROVE  DOMAIN bill = AskedFor
  <1>1. \A x \in DOMAIN bill : x \in AskedFor
    BY DEF BillInv, AskedFor, TimedUses
  <1>2. ASSUME NEW i \in Uses
        PROVE  Use(i).what \in DOMAIN bill
    <2> DEFINE same == {k \in Uses : Use(k) = Use(i)}
    <2>1. IsFiniteSet(same) /\ same \subseteq Int /\ same # {}
      BY OrderOK, FS_Subset
    <2>2. PICK k \in same : \A l \in same : k <= l
      <3> HIDE DEF same
      <3> QED
        BY <2>1, MinOfFinite
    <2>3. ~Spare(k)
      BY <2>2, OrderOK DEF Spare
    <2>4. task[k].at = "paid"
      BY <2>2, <2>3 DEF Course
    <2> QED
      BY <2>2, <2>4 DEF BillInv
  <1>3. \A x \in AskedFor : x \in DOMAIN bill
    BY <1>2 DEF AskedFor
  <1> QED
    BY <1>1, <1>3

\* The sections are priced when everything asked for is on the bill.
LEMMA BillSections == QuoteInv /\ BillInv /\ CalculateInternalSectionPrices => BillInv'
  <1> SUFFICES ASSUME QuoteInv, BillInv, CalculateInternalSectionPrices PROVE BillInv'
    OBVIOUS
  <1>1. /\ Uses' = Uses /\ AskedFor' = AskedFor /\ InternalSectionPrices' = InternalSectionPrices
        /\ \A k : Use(k)' = Use(k) /\ PriceOf(k)' = PriceOf(k)
        /\ OwnTimed' = OwnTimed /\ \A x : TimedUses(x)' = TimedUses(x)
    BY DEF Uses, Use, AskedFor, OwnTimed, TimedUses, InternalSectionPrices, PriceOf, Flown, WindowsOf, SectionTotal, Merged, Opens,
           CalculateInternalSectionPrices
  <1>2. DOMAIN bill = AskedFor
    BY AllOnTheBill DEF QuoteInv, CalculateInternalSectionPrices
  <1> QED
    BY <1>1, <1>2 DEF BillInv, CalculateInternalSectionPrices

\* The last window of an aircraft or port that has both times is one of its windows.
LEMMA LastUseIs ==
    ASSUME Kept, NEW x \in OwnTimed
    PROVE  \E i \in TimedUses(x) : Use(i).what = x /\ LastUse(x) = Use(i)
  <1> DEFINE all == TimedUses(x)
  <1>1. IsFiniteSet(all) /\ all \subseteq Int /\ all # {} /\ \A i \in all : Use(i).what = x
    BY OrderOK, FS_Subset DEF OwnTimed, TimedUses
  <1>2. Max(all) \in all
    <2> HIDE DEF all
    <2> QED
      BY <1>1, MaxOfFinite
  <1> QED
    BY <1>1, <1>2 DEF LastUse

\* An estimate puts what is ours and has its times on the bill at once.
LEMMA BillEstimate == QuoteInv /\ BillInv /\ EstimateUaslReservation => BillInv'
  <1> SUFFICES ASSUME QuoteInv, BillInv, EstimateUaslReservation PROVE BillInv'
    OBVIOUS
  <1>1. /\ Uses' = Uses /\ AskedFor' = AskedFor /\ InternalSectionPrices' = InternalSectionPrices
        /\ \A k : Use(k)' = Use(k) /\ PriceOf(k)' = PriceOf(k)
        /\ OwnTimed' = OwnTimed /\ \A x : TimedUses(x)' = TimedUses(x)
    BY DEF Uses, Use, AskedFor, OwnTimed, TimedUses, InternalSectionPrices, PriceOf, Flown, WindowsOf, SectionTotal, Merged, Opens,
           EstimateUaslReservation
  <1>2. task' = task /\ \A i \in Uses : task[i].at = "ready"
    BY DEF QuoteInv, Course, EstimateUaslReservation
  <1>3. CASE /\ bill' = [x \in OwnTimed |-> ResourcePrice(Tariffs[x], LastUse(x).from, LastUse(x).to)]
             /\ fees' = InternalSectionPrices /\ outcome' = "estimated"
    <2>1. \A x \in DOMAIN bill' : \E i \in TimedUses(x) : bill'[x] = PriceOf(i)
      BY <1>3, LastUseIs DEF QuoteInv, PriceOf
    <2> QED
      BY <1>1, <1>2, <1>3, <2>1 DEF BillInv
  <1>4. CASE UNCHANGED <<bill, fees>> /\ outcome' = "failed"
    BY <1>1, <1>2, <1>4 DEF BillInv
  <1> QED
    BY <1>3, <1>4 DEF EstimateUaslReservation

\* Every step keeps what is known of the bill.
LEMMA BillStep == QuoteInv /\ BillInv /\ [QuoteNext]_quoteVars => BillInv'
  <1> SUFFICES ASSUME QuoteInv, BillInv, [QuoteNext]_quoteVars PROVE BillInv'
    OBVIOUS
  <1>1. CASE Leave \/ Hold \/ UNCHANGED quoteVars
    BY <1>1, BillSame DEF Leave, Hold, quoteVars
  <1>2. CASE Conclude
    <2>1. \A i \in Uses : task'[i].at # "paid" \/ task'[i] = task[i]
      BY <1>2 DEF Conclude, QuoteInv, Kept, Tasks
    <2>2. outcome' \in {"conflict", "failed", "late", "none"}
      BY <1>2 DEF Conclude, Verdict
    <2> QED
      BY <1>2, <2>1, <2>2, BillSame DEF Conclude
  <1>3. CASE CalculateResourcePrices
    BY <1>3, BillSame DEF CalculateResourcePrices
  <1>4. ASSUME NEW i \in Uses, StartCheck(i) \/ GetDronePortInfoDetail(i) \/ ListReservations(i) \/ Attempt(i)
        PROVE  BillInv'
    <2>1. \A k \in Uses : task'[k].at = "paid" => task[k].at = "paid"
      BY <1>4 DEF StartCheck, GetDronePortInfoDetail, ListReservations, Attempt, Step, End, Reports,
                  QuoteInv, Kept, Tasks
    <2> QED
      BY <1>4, <2>1, BillSame DEF StartCheck, GetDronePortInfoDetail, ListReservations, Attempt
  <1> QED
    BY <1>1, <1>2, <1>3, <1>4, BillReceive, BillSections, BillEstimate DEF QuoteNext, Answered

\* The amounts on the bill, always: each is the price of a window asked for.
LEMMA BillInvAlways == QuoteSpec => []BillInv
  BY QuoteInvAlways, BillInit, BillStep, PTL DEF QuoteSpec

-----------------------------------------------------------------------------
(* Amounts are amounts: the rounding up, the rules in force and the pieces that a *)
(* window is cut into.                                                            *)

\* Rounded up, a number of units is a number.
LEMMA UpIsNat ==
    ASSUME NEW n \in Nat, NEW u \in Nat \ {0}
    PROVE  Up(n, u) \in Nat
  <1>1. n + u - 1 \in Nat
    OBVIOUS
  <1> QED
    BY <1>1 DEF Up

\* What a rule costs is never negative.
LEMMA AmountsAreNat ==
    ASSUME NEW n \in Nat
    PROVE  /\ \A r \in TariffRules : SegmentAmount(r, n) \in Nat
           /\ \A r \in SectionRules : RuleAmount(r, n) \in Nat
  <1>1. ASSUME NEW r \in TariffRules
        PROVE  SegmentAmount(r, n) \in Nat
    <2>1. r.price \in Nat /\ r.unit \in Int
      BY DEF TariffRules
    <2>2. CASE r.unit <= 0
      BY <2>1, <2>2 DEF SegmentAmount
    <2>3. CASE r.unit > 0
      <3>1. Up(n, r.unit) \in Nat
        BY <2>1, <2>3, UpIsNat
      <3> QED
        BY <2>1, <2>3, <3>1 DEF SegmentAmount
    <2> QED
      BY <2>1, <2>2, <2>3
  <1>2. ASSUME NEW r \in SectionRules
        PROVE  RuleAmount(r, n) \in Nat
    <2>1. r.price \in Nat /\ r.unit \in Int
      BY DEF SectionRules
    <2> DEFINE u == IF r.unit <= 0 THEN 1 ELSE r.unit
    <2>2. u \in Nat \ {0}
      BY <2>1
    <2>3. Up(n, u) \in Nat
      <3> HIDE DEF u
      <3> QED
        BY <2>2, UpIsNat
    <2> QED
      BY <2>1, <2>3 DEF RuleAmount
  <1> QED
    BY <1>1, <1>2

\* Who is in force with the least priority, and first among those.
LEMMA BestIs ==
    ASSUME NEW rules, IsList(rules), Range(rules) \subseteq TariffRules, NEW t,
           Applicable(rules, t) # {}
    PROVE  Best(rules, t) \in Applicable(rules, t)
  <1> DEFINE fit == Applicable(rules, t)
             first == {rules[k].priority : k \in fit}
  <1>1. /\ IsFiniteSet(fit) /\ fit \subseteq Nat /\ fit \subseteq DOMAIN rules
        /\ \A k \in fit : rules[k].priority \in Int
    <2>1. \A k \in DOMAIN rules : rules[k] \in TariffRules
      BY DEF Range
    <2>2. fit \subseteq 1..Len(rules) /\ IsFiniteSet(1..Len(rules))
      BY FS_Interval DEF Applicable, IsList
    <2> QED
      BY <2>1, <2>2, FS_Subset DEF IsList, TariffRules
  <1>2. IsFiniteSet(first) /\ first \subseteq Int /\ first # {}
    <2> DEFINE g == [k \in fit |-> rules[k].priority]
    <2>1. IsFiniteSet({g[k] : k \in fit})
      <3> HIDE DEF g
      <3> QED
        BY <1>1, ImageOf
    <2>2. {g[k] : k \in fit} = first
      OBVIOUS
    <2> QED
      BY <1>1, <2>1, <2>2
  <1>3. PICK p \in first : \A q \in first : p <= q
    <2> HIDE DEF first
    <2> QED
      BY <1>2, MinOfFinite
  <1> DEFINE least == {k \in fit : rules[k].priority = p}
  <1>4. IsFiniteSet(least) /\ least \subseteq Int /\ least # {}
    BY <1>1, <1>3, FS_Subset
  <1>5. PICK k \in least : \A l \in least : k <= l
    <2> HIDE DEF least
    <2> QED
      BY <1>4, MinOfFinite
  <1>6. \A l \in fit : rules[k].priority < rules[l].priority
                       \/ (rules[k].priority = rules[l].priority /\ k <= l)
    <2> SUFFICES ASSUME NEW l \in fit
                 PROVE  rules[k].priority < rules[l].priority
                        \/ (rules[k].priority = rules[l].priority /\ k <= l)
      OBVIOUS
    <2>1. rules[k].priority = p /\ p <= rules[l].priority
      BY <1>3, <1>5
    <2>2. CASE rules[l].priority = p
      BY <1>5, <2>1, <2>2
    <2>3. CASE rules[l].priority # p
      BY <1>1, <1>5, <2>1, <2>3
    <2> QED
      BY <2>2, <2>3
  <1> QED
    BY <1>5, <1>6 DEF Best

\* Section rules: the first that matches, or else the first of all.
LEMMA RuleAtIs ==
    ASSUME NEW rules, IsList(rules), rules # <<>>, NEW t
    PROVE  RuleAt(rules, t) \in DOMAIN rules
  <1> DEFINE fits == {k \in DOMAIN rules : Matches(rules[k], t)}
  <1>1. IsFiniteSet(fits) /\ fits \subseteq Int
    <2>1. IsFiniteSet(1..Len(rules))
      BY FS_Interval DEF IsList
    <2> QED
      BY <2>1, FS_Subset DEF IsList
  <1>2. CASE fits = {}
    BY <1>2 DEF RuleAt, IsList
  <1>3. CASE fits # {}
    <2>1. Min(fits) \in fits
      <3> HIDE DEF fits
      <3> QED
        BY <1>1, <1>3, MinOfFinite
    <2> QED
      BY <1>3, <2>1 DEF RuleAt
  <1> QED
    BY <1>2, <1>3

\* The boundaries of a window are finitely many, lie in it, and its ends are two of them.
LEMMA CutsAreFinite ==
    ASSUME NEW from \in Nat, NEW to \in Nat, from <= to, NEW rules
    PROVE  /\ IsFiniteSet(PriceBoundaries(rules, from, to))
           /\ PriceBoundaries(rules, from, to) \subseteq from..to
           /\ IsFiniteSet(RuleBoundaries(rules, from, to))
           /\ RuleBoundaries(rules, from, to) \subseteq from..to
           /\ {from, to} \subseteq PriceBoundaries(rules, from, to)
           /\ {from, to} \subseteq RuleBoundaries(rules, from, to)
  <1>1. IsFiniteSet(from..to) /\ from..to \subseteq Nat
    BY FS_Interval
  <1>2. PriceBoundaries(rules, from, to) \subseteq from..to
    BY DEF PriceBoundaries
  <1>3. RuleBoundaries(rules, from, to) \subseteq from..to
    BY DEF RuleBoundaries
  <1>4. IsFiniteSet(PriceBoundaries(rules, from, to)) /\ IsFiniteSet(RuleBoundaries(rules, from, to))
    BY <1>1, <1>2, <1>3, FS_Subset
  <1> QED
    BY <1>2, <1>3, <1>4 DEF PriceBoundaries, RuleBoundaries

\* Finitely many boundaries make finitely many pieces, none of them empty.
LEMMA PiecesAreFinite ==
    ASSUME NEW cuts, IsFiniteSet(cuts), cuts \subseteq Nat
    PROVE  /\ IsFiniteSet(Pieces(cuts))
           /\ \A p \in Pieces(cuts) : p[1] \in Nat /\ p[2] \in Nat /\ p[1] < p[2] /\ p[2] - p[1] \in Nat
  <1>1. IsFiniteSet(cuts \X cuts)
    BY FS_Product
  <1>2. Pieces(cuts) \subseteq cuts \X cuts
    BY DEF Pieces
  <1>3. IsFiniteSet(Pieces(cuts))
    BY <1>1, <1>2, FS_Subset
  <1>4. ASSUME NEW p \in Pieces(cuts)
        PROVE  p[1] \in Nat /\ p[2] \in Nat /\ p[1] < p[2] /\ p[2] - p[1] \in Nat
    <2>1. p[1] \in Nat /\ p[2] \in Nat /\ p[1] < p[2]
      BY DEF Pieces
    <2> QED
      BY <2>1
  <1> QED
    BY <1>3, <1>4

\* What an aircraft or a port costs is never negative.
LEMMA ResourcePriceIsNat ==
    ASSUME NEW rules, IsList(rules), Range(rules) \subseteq TariffRules,
           NEW from \in Nat, NEW to \in Nat
    PROVE  ResourcePrice(rules, from, to) \in Nat
  <1> DEFINE all == Pieces(PriceBoundaries(rules, from, to))
             some == {p \in all : Applicable(rules, p[1]) # {}}
             f == [p \in some |-> SegmentAmount(rules[Best(rules, p[1])], p[2] - p[1])]
  <1>1. /\ IsFiniteSet(all)
        /\ \A p \in all : p[1] \in Nat /\ p[2] \in Nat /\ p[1] < p[2] /\ p[2] - p[1] \in Nat
    <2>1. IsFiniteSet(PriceBoundaries(rules, from, to)) /\ PriceBoundaries(rules, from, to) \subseteq Nat
      <3>1. CASE from <= to
        BY <3>1, CutsAreFinite
      <3>2. CASE from > to
        <4>1. PriceBoundaries(rules, from, to) = {from, to}
          BY <3>2 DEF PriceBoundaries
        <4>2. IsFiniteSet({from, to})
          <5>1. IsFiniteSet(to..from) /\ {from, to} \subseteq to..from
            BY <3>2, FS_Interval
          <5> QED
            BY <5>1, FS_Subset
        <4> QED
          BY <4>1, <4>2
      <3> QED
        BY <3>1, <3>2
    <2> QED
      BY <2>1, PiecesAreFinite
  <1>2. IsFiniteSet(some)
    BY <1>1, FS_Subset
  <1>3. \A p \in some : f[p] \in Nat
    <2> SUFFICES ASSUME NEW p \in some PROVE SegmentAmount(rules[Best(rules, p[1])], p[2] - p[1]) \in Nat
      OBVIOUS
    <2>1. Best(rules, p[1]) \in DOMAIN rules
      BY BestIs DEF Applicable
    <2>2. rules[Best(rules, p[1])] \in TariffRules
      BY <2>1 DEF Range
    <2> QED
      BY <1>1, <2>2, AmountsAreNat
  <1>4. SumFunctionOnSet(f, some) \in Nat
    <2> HIDE DEF f, some
    <2> QED
      BY <1>2, <1>3, SumOfNats
  <1> QED
    BY <1>4 DEF ResourcePrice, SumFunction

\* Nor is what a window of a section costs.
LEMMA SectionPriceIsNat ==
    ASSUME NEW rules, IsList(rules), Range(rules) \subseteq SectionRules, rules # <<>>,
           NEW from \in Nat, NEW to \in Nat, from <= to
    PROVE  SectionPrice(rules, from, to) \in Nat
  <1> DEFINE all == Pieces(RuleBoundaries(rules, from, to))
             f == [p \in all |-> RuleAmount(rules[RuleAt(rules, p[1])], p[2] - p[1])]
  <1>1. /\ IsFiniteSet(all)
        /\ \A p \in all : p[1] \in Nat /\ p[2] \in Nat /\ p[1] < p[2] /\ p[2] - p[1] \in Nat
    <2>1. IsFiniteSet(RuleBoundaries(rules, from, to)) /\ RuleBoundaries(rules, from, to) \subseteq Nat
      BY CutsAreFinite
    <2> QED
      BY <2>1, PiecesAreFinite
  <1>2. \A p \in all : f[p] \in Nat
    <2> SUFFICES ASSUME NEW p \in all PROVE RuleAmount(rules[RuleAt(rules, p[1])], p[2] - p[1]) \in Nat
      OBVIOUS
    <2>1. RuleAt(rules, p[1]) \in DOMAIN rules
      BY RuleAtIs
    <2>2. rules[RuleAt(rules, p[1])] \in SectionRules
      BY <2>1 DEF Range
    <2> QED
      BY <1>1, <2>2, AmountsAreNat
  <1>3. SumFunctionOnSet(f, all) \in Nat
    <2> HIDE DEF f, all
    <2> QED
      BY <1>1, <1>2, SumOfNats
  <1> QED
    BY <1>3 DEF SectionPrice, SumFunction

-----------------------------------------------------------------------------
(* The windows of a section, merged. *)

\* The windows of sections that a request asks for: finitely many, none of them empty.
LEMMA FlownOK ==
    ASSUME Kept
    PROVE  /\ IsList(order.flown) /\ IsFiniteSet(DOMAIN order.flown) /\ IsFiniteSet(Range(order.flown))
           /\ \A w \in Range(order.flown) : w.from \in Nat /\ w.to \in Nat /\ w.from < w.to
           /\ \A k \in DOMAIN order.flown : order.flown[k] \in Range(order.flown)
  <1>1. IsList(order.flown) /\ \A w \in Range(order.flown) : w.from \in Nat /\ w.to \in Nat /\ w.from < w.to
    BY QuoteAssumption DEF Kept
  <1>2. IsFiniteSet(DOMAIN order.flown)
    BY <1>1, FS_Interval DEF IsList
  <1>3. IsFiniteSet(Range(order.flown))
    BY <1>2, ImageOf DEF Range
  <1> QED
    BY <1>1, <1>2, <1>3 DEF Range

\* A merged window opens where one of the windows does, and closes where one does that
\* opens no earlier.
LEMMA MergedOK ==
    ASSUME Kept, NEW s
    PROVE  /\ IsFiniteSet(WindowsOf(s)) /\ IsFiniteSet(Opens(s)) /\ Opens(s) \subseteq Nat
           /\ IsFiniteSet(Merged(s))
           /\ \A p \in Merged(s) : p[1] \in Nat /\ p[2] \in Nat /\ p[1] < p[2]
  <1>1. IsFiniteSet(WindowsOf(s)) /\ WindowsOf(s) \subseteq Range(order.flown)
    BY FlownOK, FS_Subset DEF WindowsOf
  <1>2. IsFiniteSet(Opens(s)) /\ Opens(s) \subseteq Nat
    <2> DEFINE some == {w \in WindowsOf(s) : ~\E v \in WindowsOf(s) : v.from < w.from /\ w.from <= v.to}
    <2>1. IsFiniteSet(some)
      BY <1>1, FS_Subset
    <2> DEFINE g == [w \in some |-> w.from]
    <2>2. IsFiniteSet({g[w] : w \in some})
      <3> HIDE DEF some, g
      <3> QED
        BY <2>1, ImageOf
    <2>3. {g[w] : w \in some} = {w.from : w \in some}
      OBVIOUS
    <2> QED
      BY <1>1, <2>2, <2>3, FlownOK DEF Opens
  <1>3. IsFiniteSet(Merged(s))
    <2> DEFINE pair(f) == <<f, Max({w.to : w \in {w \in WindowsOf(s) :
                    w.from >= f /\ ~\E g \in Opens(s) : f < g /\ g <= w.from}})>>
    <2> DEFINE g == [f \in Opens(s) |-> pair(f)]
    <2>1. IsFiniteSet({g[f] : f \in Opens(s)})
      <3> HIDE DEF g
      <3> QED
        BY <1>2, ImageOf
    <2>2. {g[f] : f \in Opens(s)} = {pair(f) : f \in Opens(s)}
      <3> HIDE DEF pair
      <3> QED
        OBVIOUS
    <2> QED
      BY <2>1, <2>2 DEF Merged
  <1>4. ASSUME NEW f \in Opens(s)
        PROVE  LET m == Max({w.to : w \in {w \in WindowsOf(s) :
                    w.from >= f /\ ~\E g \in Opens(s) : f < g /\ g <= w.from}})
               IN m \in Nat /\ f < m
    <2> DEFINE own == {w \in WindowsOf(s) : w.from >= f /\ ~\E g \in Opens(s) : f < g /\ g <= w.from}
               ends == {w.to : w \in own}
    <2>1. PICK w \in WindowsOf(s) : w.from = f
      BY DEF Opens
    <2>2. \A v \in own : v.from \in Nat /\ v.to \in Nat /\ v.from < v.to /\ v.from >= f
      BY <1>1, FlownOK
    <2>3. w \in own
      BY <2>1, <1>2
    <2>4. IsFiniteSet(own)
      BY <1>1, FS_Subset
    <2>5. IsFiniteSet(ends) /\ ends \subseteq Int /\ ends # {}
      <3> DEFINE g == [v \in own |-> v.to]
      <3>2. IsFiniteSet({g[v] : v \in own})
        <4> HIDE DEF own, g
        <4> QED
          BY <2>4, ImageOf
      <3>3. {g[v] : v \in own} = ends
        OBVIOUS
      <3>1. IsFiniteSet(ends)
        BY <3>2, <3>3
      <3> QED
        BY <3>1, <2>2, <2>3
    <2>6. Max(ends) \in ends
      <3> HIDE DEF ends
      <3> QED
        BY <2>5, MaxOfFinite
    <2>7. \A e \in ends : e \in Nat /\ f < e
      <3> SUFFICES ASSUME NEW v \in own PROVE v.to \in Nat /\ f < v.to
        OBVIOUS
      <3> HIDE DEF own
      <3> QED
        BY <2>2, <1>2
    <2> QED
      BY <2>6, <2>7
  <1>5. ASSUME NEW p \in Merged(s)
        PROVE  p[1] \in Nat /\ p[2] \in Nat /\ p[1] < p[2]
    <2>1. PICK f \in Opens(s) : p = <<f, Max({w.to : w \in {w \in WindowsOf(s) :
                    w.from >= f /\ ~\E g \in Opens(s) : f < g /\ g <= w.from}})>>
      BY DEF Merged
    <2> QED
      BY <1>2, <1>4, <2>1
  <1> QED
    BY <1>1, <1>2, <1>3, <1>5

\* A section that is priced has a list of rules, with at least one.
LEMMA PricedOK ==
    ASSUME NEW s \in Priced
    PROVE  IsList(PriceInfo[s]) /\ Range(PriceInfo[s]) \subseteq SectionRules /\ PriceInfo[s] # <<>>
  BY QuoteAssumption DEF Priced

\* What a section costs together is never negative.
LEMMA SectionTotalIsNat ==
    ASSUME Kept, NEW s \in Priced
    PROVE  SectionTotal(s) \in Nat
  <1> DEFINE f == [p \in Merged(s) |-> SectionPrice(PriceInfo[s], p[1], p[2])]
  <1>1. \A p \in Merged(s) : f[p] \in Nat
    <2> SUFFICES ASSUME NEW p \in Merged(s) PROVE SectionPrice(PriceInfo[s], p[1], p[2]) \in Nat
      OBVIOUS
    <2>1. p[1] \in Nat /\ p[2] \in Nat /\ p[1] <= p[2]
      BY MergedOK
    <2> QED
      BY <2>1, PricedOK, SectionPriceIsNat
  <1>2. SumFunctionOnSet(f, Merged(s)) \in Nat
    <2> HIDE DEF f
    <2> QED
      BY <1>1, MergedOK, SumOfNats
  <1> QED
    BY <1>2 DEF SectionTotal, SumFunction

\* Nor is what the sections cost, together or one by one.
LEMMA InternalPricesAreNat ==
    ASSUME Kept
    PROVE  /\ InternalSectionPrices.total \in Nat
           /\ DOMAIN InternalSectionPrices.each = DOMAIN order.flown
           /\ \A k \in DOMAIN order.flown : InternalSectionPrices.each[k] \in Nat
  <1> DEFINE f == [s \in Flown |-> SectionTotal(s)]
  <1>1. IsFiniteSet(Flown) /\ Flown \subseteq Priced
    <2>1. Flown \subseteq DOMAIN PriceInfo /\ IsFiniteSet(DOMAIN PriceInfo)
      BY QuoteAssumption DEF Flown, Priced
    <2> QED
      BY <2>1, FS_Subset DEF Flown
  <1>2. \A s \in Flown : f[s] \in Nat
    BY <1>1, SectionTotalIsNat
  <1>3. SumFunctionOnSet(f, Flown) \in Nat
    <2> HIDE DEF f
    <2> QED
      BY <1>1, <1>2, SumOfNats
  <1>4. InternalSectionPrices.total \in Nat
    BY <1>3 DEF InternalSectionPrices, SumFunction
  <1>5. ASSUME NEW w \in Range(order.flown)
        PROVE  ChildAmount(w) \in Nat
    <2>1. w.from \in Nat /\ w.to \in Nat /\ w.from <= w.to
      BY FlownOK
    <2>2. CASE w.section \in Priced
      BY <2>1, <2>2, PricedOK, SectionPriceIsNat DEF ChildAmount
    <2>3. CASE w.section \notin Priced
      BY <2>3 DEF ChildAmount
    <2> QED
      BY <2>2, <2>3
  <1>6. \A k \in DOMAIN order.flown : ChildAmount(order.flown[k]) \in Nat
    BY <1>5, FlownOK
  <1> QED
    BY <1>4, <1>6 DEF InternalSectionPrices

\* Every record holds what the code can put there: a goroutine ends in a way the code
\* knows, counts its attempts up to the last, and amounts are never negative.
THEOREM QuoteIsTyped == QuoteSpec => []QuoteTypeOK
  <1>1. QuoteInv /\ BillInv => QuoteTypeOK
    <2> SUFFICES ASSUME QuoteInv, BillInv PROVE QuoteTypeOK
      OBVIOUS
    <2>1. Kept
      BY DEF QuoteInv
    <2>2. Range(reported) \subseteq Uses
      BY <2>1 DEF Kept, Range
    <2>3. DOMAIN bill \subseteq AskedFor
      BY DEF BillInv, AskedFor, TimedUses
    <2>4. ASSUME NEW x \in DOMAIN bill
          PROVE  bill[x] \in Nat
      <3>1. PICK i \in TimedUses(x) : bill[x] = PriceOf(i)
        BY DEF BillInv
      <3>2. Use(i).what \in DOMAIN Tariffs /\ Use(i).from \in Nat /\ Use(i).to \in Nat
        BY <2>1, OrderOK DEF TimedUses
      <3>3. IsList(Tariffs[Use(i).what]) /\ Range(Tariffs[Use(i).what]) \subseteq TariffRules
        BY <3>2, QuoteAssumption
      <3> QED
        BY <3>1, <3>2, <3>3, ResourcePriceIsNat DEF PriceOf
    <2>5. fees.total \in Nat /\ \A k \in DOMAIN fees.each : fees.each[k] \in Nat
      <3>1. CASE fees = NoFees
        BY <3>1 DEF NoFees
      <3>2. CASE fees = InternalSectionPrices
        BY <2>1, <3>2, InternalPricesAreNat
      <3> QED
        BY <3>1, <3>2 DEF BillInv
    <2> QED
      BY <2>1, <2>2, <2>3, <2>4, <2>5 DEF QuoteTypeOK, Kept
  <1> QED
    BY <1>1, QuoteInvAlways, BillInvAlways, PTL

-----------------------------------------------------------------------------
(* Rounding up: a price for every unit begun, and what it is by the minute. *)

\* What dividing leaves.
LEMMA DivIs ==
    ASSUME NEW n \in Nat, NEW u \in Nat \ {0}
    PROVE  n \div u \in Nat /\ (n \div u) * u <= n /\ n < (n \div u) * u + u
  OBVIOUS

\* The least number of units that n minutes go into.
LEMMA UpIs ==
    ASSUME NEW n \in Nat, NEW u \in Nat \ {0}
    PROVE  /\ Up(n, u) \in Nat /\ n <= Up(n, u) * u
           /\ \A m \in Nat : n <= m * u => Up(n, u) <= m
  <1> DEFINE q == Up(n, u)
  <1>1. q \in Nat
    BY UpIsNat
  <1>2. q * u <= n + u - 1 /\ n + u - 1 < q * u + u
    <2>1. n + u - 1 \in Nat
      OBVIOUS
    <2> QED
      BY <2>1, DivIs DEF Up
  <1> HIDE DEF q
  <1>3. q * u \in Nat
    BY <1>1
  <1>4. n <= q * u
    BY <1>2, <1>3
  <1>5. ASSUME NEW m \in Nat, n <= m * u, ~(q <= m) PROVE FALSE
    <2>1. m + 1 <= q
      BY <1>1, <1>5
    <2>2. PICK e \in Nat : q = m + 1 + e
      BY <1>1, <2>1
    <2>3. q * u = m * u + u + e * u /\ e * u \in Nat /\ m * u \in Nat
      BY <2>2
    <2> QED
      BY <1>2, <1>3, <1>5, <2>3
  <1> QED
    BY <1>1, <1>4, <1>5 DEF q

\* Rounding up keeps the order, and two parts cost no less than the whole.
LEMMA UpRounds ==
    ASSUME NEW u \in Nat \ {0}
    PROVE  /\ \A a, b \in Nat : a <= b => Up(a, u) <= Up(b, u)
           /\ \A a, b \in Nat : Up(a + b, u) <= Up(a, u) + Up(b, u)
           /\ \A a \in Nat : Up(a, 1) = a
  <1>1. ASSUME NEW a \in Nat, NEW b \in Nat, a <= b
        PROVE  Up(a, u) <= Up(b, u)
    <2>1. Up(b, u) \in Nat /\ b <= Up(b, u) * u
      BY UpIs
    <2>2. Up(b, u) * u \in Nat
      BY <2>1
    <2>3. a <= Up(b, u) * u
      BY <1>1, <2>1, <2>2
    <2> QED
      BY <2>1, <2>3, UpIs
  <1>2. ASSUME NEW a \in Nat, NEW b \in Nat
        PROVE  Up(a + b, u) <= Up(a, u) + Up(b, u)
    <2>1. PICK p \in Nat : p = Up(a, u) /\ a <= p * u
      BY UpIs
    <2>2. PICK q \in Nat : q = Up(b, u) /\ b <= q * u
      BY UpIs
    <2>3. (p + q) * u = p * u + q * u /\ p * u \in Nat /\ q * u \in Nat
      OBVIOUS
    <2>4. a + b <= (p + q) * u
      BY <2>1, <2>2, <2>3
    <2>5. a + b \in Nat /\ p + q \in Nat
      OBVIOUS
    <2>6. Up(a + b, u) <= p + q
      BY <2>4, <2>5, UpIs
    <2> QED
      BY <2>1, <2>2, <2>6
  <1>3. \A a \in Nat : Up(a, 1) = a
    BY DEF Up
  <1> QED
    BY <1>1, <1>2, <1>3

TariffCost(r) == [n \in Nat |-> SegmentAmount(r, n)]
SectionCost(r) == [n \in Nat |-> RuleAmount(r, n)]
SectionRate(r) == IF r.timed THEN r.price ELSE 0

\* A price for every unit begun is an amount in the sense of SetLemmas, by the minute if the
\* unit is one.
LEMMA PriceTimes ==
    ASSUME NEW u \in Nat \ {0}, NEW c \in Nat, NEW am,
           am = [n \in Nat |-> c * Up(n, u)]
    PROVE  IsAmount(am) /\ (u = 1 => \A n \in Nat : am[n] = c * n)
  <1>1. ASSUME NEW a \in Nat
        PROVE  am[a] \in Nat
    <2>1. Up(a, u) \in Nat
      BY UpIs
    <2> QED
      BY <2>1
  <1>2. ASSUME NEW a \in Nat, NEW b \in Nat, a <= b
        PROVE  am[a] <= am[b]
    <2>1. PICK p \in Nat : p = Up(a, u)
      BY UpIs
    <2>2. PICK e \in Nat : Up(b, u) = p + e
      <3>1. Up(b, u) \in Nat /\ p <= Up(b, u)
        BY <1>2, <2>1, UpIs, UpRounds
      <3>2. Up(b, u) = p + (Up(b, u) - p) /\ Up(b, u) - p \in Nat
        BY <3>1
      <3> QED
        BY <3>2
    <2>3. c * (p + e) = c * p + c * e /\ c * p \in Nat /\ c * e \in Nat
      OBVIOUS
    <2> QED
      BY <2>1, <2>2, <2>3
  <1>3. ASSUME NEW a \in Nat, NEW b \in Nat
        PROVE  am[a + b] <= am[a] + am[b]
    <2>1. PICK p \in Nat : p = Up(a, u)
      BY UpIs
    <2>2. PICK q \in Nat : q = Up(b, u)
      BY UpIs
    <2>3. a + b \in Nat
      OBVIOUS
    <2>4. PICK r \in Nat : r = Up(a + b, u)
      BY <2>3, UpIs
    <2>5. r <= p + q
      BY <2>1, <2>2, <2>4, UpRounds
    <2>6. PICK e \in Nat : p + q = r + e
      <3>1. p + q = r + (p + q - r) /\ p + q - r \in Nat
        BY <2>5
      <3> QED
        BY <3>1
    <2>7. c * (p + q) = c * p + c * q /\ c * (r + e) = c * r + c * e
      OBVIOUS
    <2>8. c * p \in Nat /\ c * q \in Nat /\ c * r \in Nat /\ c * e \in Nat
      OBVIOUS
    <2>9. c * r <= c * p + c * q
      BY <2>6, <2>7, <2>8
    <2> QED
      BY <2>1, <2>2, <2>3, <2>4, <2>9
  <1>4. u = 1 => \A n \in Nat : am[n] = c * n
    BY UpRounds
  <1> QED
    BY <1>1, <1>2, <1>3, <1>4 DEF IsAmount

\* What a rule asks for minutes grows with them, and is asked for all of them no more than
\* for parts of them; by the minute it is so much a minute.
LEMMA RulesAreAmounts ==
    /\ \A r \in TariffRules :
          /\ IsAmount(TariffCost(r))
          /\ r.unit = 1 => \A n \in Nat : TariffCost(r)[n] = r.price * n
    /\ \A r \in SectionRules :
          /\ IsAmount(SectionCost(r)) /\ SectionRate(r) \in Nat
          /\ r.unit = 1 => \A n \in Nat : SectionCost(r)[n] = SectionRate(r) * n
  <1>1. ASSUME NEW r \in TariffRules
        PROVE  /\ IsAmount(TariffCost(r))
               /\ r.unit = 1 => \A n \in Nat : TariffCost(r)[n] = r.price * n
    <2>1. r.price \in Nat /\ r.unit \in Int
      BY DEF TariffRules
    <2>2. CASE r.unit <= 0
      <3>1. \A n \in Nat : TariffCost(r)[n] = r.price
        BY <2>2 DEF TariffCost, SegmentAmount
      <3>2. \A a, b \in Nat : a + b \in Nat
        OBVIOUS
      <3>3. r.price <= r.price /\ r.price <= r.price + r.price
        BY <2>1
      <3>4. IsAmount(TariffCost(r))
        BY <2>1, <3>1, <3>2, <3>3 DEF IsAmount
      <3> QED
        BY <2>1, <2>2, <3>4
    <2>3. CASE ~(r.unit <= 0)
      <3>1. r.unit \in Nat \ {0}
        BY <2>1, <2>3
      <3>2. TariffCost(r) = [n \in Nat |-> r.price * Up(n, r.unit)]
        BY <2>3 DEF TariffCost, SegmentAmount
      <3> QED
        BY <2>1, <3>1, <3>2, PriceTimes
    <2> QED
      BY <2>2, <2>3
  <1>2. ASSUME NEW r \in SectionRules
        PROVE  /\ IsAmount(SectionCost(r)) /\ SectionRate(r) \in Nat
               /\ r.unit = 1 => \A n \in Nat : SectionCost(r)[n] = SectionRate(r) * n
    <2> DEFINE u == IF r.unit <= 0 THEN 1 ELSE r.unit
               c == IF r.timed THEN r.price ELSE 0
    <2>1. r.price \in Nat /\ r.unit \in Int
      BY DEF SectionRules
    <2>2. u \in Nat \ {0} /\ c \in Nat /\ (r.unit = 1 => u = 1)
      BY <2>1
    <2>3. SectionCost(r) = [n \in Nat |-> c * Up(n, u)]
      <3>1. ASSUME NEW n \in Nat
            PROVE  RuleAmount(r, n) = c * Up(n, u)
        <4>1. Up(n, u) \in Nat
          <5> HIDE DEF u
          <5> QED
            BY <2>2, UpIs
        <4>2. RuleAmount(r, n) = IF r.timed THEN r.price * Up(n, u) ELSE 0
          BY DEF RuleAmount
        <4> HIDE DEF u
        <4> QED
          BY <4>1, <4>2
      <3> HIDE DEF c, u
      <3> QED
        BY <3>1 DEF SectionCost
    <2>4. SectionRate(r) = c
      BY DEF SectionRate
    <2> HIDE DEF c, u
    <2>5. IsAmount(SectionCost(r)) /\ (u = 1 => \A n \in Nat : SectionCost(r)[n] = c * n)
      BY <2>2, <2>3, PriceTimes
    <2> QED
      BY <2>2, <2>4, <2>5
  <1> QED
    BY <1>1, <1>2

-----------------------------------------------------------------------------
(* The minutes of pieces. *)

MinutesOf(p) == p[1]..(p[2] - 1)

\* Pieces that have no minute in common and leave none out.
WellCut(P, from, to) ==
    /\ IsFiniteSet(P)
    /\ \A p \in P : /\ p[1] \in Nat /\ p[2] \in Nat /\ from <= p[1] /\ p[1] < p[2] /\ p[2] <= to
                    /\ p[1] \in MinutesOf(p) /\ MinutesOf(p) \subseteq from..(to - 1)
                    /\ IsFiniteSet(MinutesOf(p)) /\ Cardinality(MinutesOf(p)) = p[2] - p[1]
    /\ \A p, q \in P : p # q => MinutesOf(p) \cap MinutesOf(q) = {}
    /\ \A t \in from..(to - 1) : \E p \in P : t \in MinutesOf(p)

\* The pieces between boundaries of a window are a partition of its minutes.
LEMMA PiecesAre ==
    ASSUME NEW from \in Nat, NEW to \in Nat, NEW cuts, IsFiniteSet(cuts), cuts \subseteq from..to,
           from \in cuts, to \in cuts
    PROVE  /\ WellCut(Pieces(cuts), from, to)
           /\ \A p \in Pieces(cuts) : ~\E c \in cuts : p[1] < c /\ c < p[2]
  <1>1. IsFiniteSet(Pieces(cuts))
    <2>1. cuts \subseteq Nat
      OBVIOUS
    <2> QED
      BY <2>1, PiecesAreFinite
  <1>2. ASSUME NEW p \in Pieces(cuts)
        PROVE  /\ p = <<p[1], p[2]>> /\ p[1] \in Nat /\ p[2] \in Nat
               /\ p[1] \in cuts /\ p[2] \in cuts
               /\ from <= p[1] /\ p[1] < p[2] /\ p[2] <= to
               /\ ~\E c \in cuts : p[1] < c /\ c < p[2]
               /\ p[2] - p[1] \in Nat
    <2>1. p = <<p[1], p[2]>> /\ p[1] \in cuts /\ p[2] \in cuts /\ p[1] < p[2]
          /\ ~\E c \in cuts : p[1] < c /\ c < p[2]
      BY DEF Pieces
    <2>2. p[1] \in from..to /\ p[2] \in from..to
      BY <2>1
    <2> QED
      BY <2>1, <2>2
  <1>3. ASSUME NEW p \in Pieces(cuts)
        PROVE  /\ IsFiniteSet(MinutesOf(p)) /\ Cardinality(MinutesOf(p)) = p[2] - p[1]
               /\ p[1] \in MinutesOf(p) /\ MinutesOf(p) \subseteq from..(to - 1)
    <2>1. PICK a \in Nat, b \in Nat : a = p[1] /\ b = p[2] /\ a < b
      BY <1>2
    <2>2. a \in Int /\ b - 1 \in Int /\ a <= b - 1 /\ b - 1 - a + 1 = b - a
      BY <2>1
    <2>3. IsFiniteSet(a..(b - 1)) /\ Cardinality(a..(b - 1)) = b - 1 - a + 1
      BY <2>2, FS_Interval
    <2> QED
      BY <1>2, <2>1, <2>2, <2>3 DEF MinutesOf
  <1>4. ASSUME NEW p \in Pieces(cuts), NEW q \in Pieces(cuts), p # q
        PROVE  MinutesOf(p) \cap MinutesOf(q) = {}
    <2> SUFFICES ASSUME NEW t \in MinutesOf(p), t \in MinutesOf(q) PROVE FALSE
      OBVIOUS
    <2>1. t \in Int /\ p[1] <= t /\ t < p[2] /\ q[1] <= t /\ t < q[2]
      BY <1>2 DEF MinutesOf
    <2>2. ~(p[1] < q[1]) /\ ~(q[1] < p[1]) /\ ~(p[2] < q[2]) /\ ~(q[2] < p[2])
      BY <1>2, <2>1
    <2>3. p[1] = q[1] /\ p[2] = q[2]
      BY <1>2, <2>2
    <2> QED
      BY <1>2, <1>4, <2>3
  <1>5. ASSUME NEW t \in from..(to - 1)
        PROVE  \E p \in Pieces(cuts) : t \in MinutesOf(p)
    <2> DEFINE low == {c \in cuts : c <= t}
               high == {c \in cuts : c > t}
    <2>1. t \in Nat /\ from <= t /\ t < to
      OBVIOUS
    <2>2. cuts \subseteq Int
      OBVIOUS
    <2>3. IsFiniteSet(low) /\ low \subseteq Int /\ low # {}
      <3>1. from \in low
        BY <2>1
      <3> QED
        BY <2>2, <3>1, FS_Subset
    <2>4. IsFiniteSet(high) /\ high \subseteq Int /\ high # {}
      <3>1. to \in high
        BY <2>1
      <3> QED
        BY <2>2, <3>1, FS_Subset
    <2>5. PICK a \in low : \A c \in low : c <= a
      <3> HIDE DEF low
      <3> QED
        BY <2>3, MaxOfFinite
    <2>6. PICK b \in high : \A c \in high : b <= c
      <3> HIDE DEF high
      <3> QED
        BY <2>4, MinOfFinite
    <2>7. a \in cuts /\ b \in cuts /\ a \in Nat /\ b \in Nat /\ a <= t /\ t < b
      BY <2>1, <2>2
    <2>8. ASSUME NEW c \in cuts, a < c, c < b PROVE FALSE
      <3>1. c \in Int
        BY <2>2
      <3>2. CASE c <= t
        BY <2>5, <2>7, <2>8, <3>1, <3>2
      <3>3. CASE ~(c <= t)
        BY <2>1, <2>6, <2>7, <2>8, <3>1, <3>3
      <3> QED
        BY <3>2, <3>3
    <2>9. <<a, b>> \in Pieces(cuts)
      <3>1. a < b
        BY <2>1, <2>7
      <3> HIDE DEF low, high
      <3> QED
        BY <2>7, <2>8, <3>1 DEF Pieces
    <2>10. t \in MinutesOf(<<a, b>>)
      <3> HIDE DEF low, high
      <3> QED
        BY <2>1, <2>7 DEF MinutesOf
    <2> QED
      BY <2>9, <2>10
  <1> QED
    BY <1>1, <1>2, <1>3, <1>4, <1>5 DEF WellCut

-----------------------------------------------------------------------------
(* Aircraft and ports. *)

\* In a piece the rules that are in force stay the same.
LEMMA TariffIsSteady ==
    ASSUME NEW rules, IsList(rules), Range(rules) \subseteq TariffRules,
           NEW from \in Nat, NEW to \in Nat, from < to,
           NEW p \in Pieces(PriceBoundaries(rules, from, to)), NEW t \in MinutesOf(p)
    PROVE  Applicable(rules, t) = Applicable(rules, p[1])
  <1>1. /\ p[1] \in Nat /\ p[2] \in Nat /\ from <= p[1] /\ p[1] < p[2] /\ p[2] <= to
        /\ ~\E c \in PriceBoundaries(rules, from, to) : p[1] < c /\ c < p[2]
    <2>1. /\ IsFiniteSet(PriceBoundaries(rules, from, to))
          /\ PriceBoundaries(rules, from, to) \subseteq from..to
          /\ from \in PriceBoundaries(rules, from, to) /\ to \in PriceBoundaries(rules, from, to)
      BY CutsAreFinite
    <2>2. WellCut(Pieces(PriceBoundaries(rules, from, to)), from, to)
      BY <2>1, PiecesAre
    <2> QED
      BY <2>1, <2>2, PiecesAre DEF WellCut
  <1>2. t \in Nat /\ p[1] <= t /\ t < p[2]
    BY <1>1 DEF MinutesOf
  <1>3. ASSUME NEW k \in DOMAIN rules
        PROVE  InForce(rules[k], t) <=> InForce(rules[k], p[1])
    <2> DEFINE r == rules[k]
    <2>1. r \in Range(rules) /\ r \in TariffRules
      BY DEF Range
    <2>2. r.from \in Nat \cup {Ever} /\ r.to \in Nat \cup {Ever} /\ Ever \notin Nat
      BY <2>1, QuoteAssumption DEF TariffRules
    <2>3. ASSUME NEW e \in {r.from, r.to}, e # Ever
          PROVE  e <= t <=> e <= p[1]
      <3>1. e \in Nat
        BY <2>2, <2>3
      <3>2. e \in from..to => e \in PriceBoundaries(rules, from, to)
        BY <2>1, <2>3 DEF PriceBoundaries
      <3>3. CASE p[1] < e /\ e <= t
        <4>1. e \in from..to /\ e < p[2]
          BY <1>1, <1>2, <3>1, <3>3
        <4> QED
          BY <1>1, <3>2, <3>3, <4>1
      <3> HIDE DEF r
      <3> QED
        BY <1>1, <1>2, <3>1, <3>3
    <2> HIDE DEF r
    <2>4. r.from # Ever => (r.from <= t <=> r.from <= p[1])
      BY <2>3
    <2>5. r.to # Ever => (t < r.to <=> p[1] < r.to)
      BY <1>1, <1>2, <2>2, <2>3
    <2>6. InForce(r, t) <=> InForce(r, p[1])
      BY <2>4, <2>5 DEF InForce
    <2> QED
      BY <2>6 DEF r
  <1> QED
    BY <1>3 DEF Applicable

\* Rules that are in force at two instants give the same one twice.
LEMMA BestIsSteady ==
    ASSUME NEW rules, NEW t, NEW u, Applicable(rules, t) = Applicable(rules, u)
    PROVE  Best(rules, t) = Best(rules, u)
  BY DEF Best

\* An aircraft or a port costs its bill by the minute, rounded up piece by piece.
LEMMA TariffCovered ==
    ASSUME NEW x \in DOMAIN Tariffs, NEW from \in Nat, NEW to \in Nat, from < to
    PROVE  Covers(ResourcePrice(Tariffs[x], from, to), TariffBill(x, from, to), Range(Tariffs[x]))
  <1> DEFINE rules == Tariffs[x]
             cuts == PriceBoundaries(rules, from, to)
             ruleAt(t) == IF Applicable(rules, t) = {} THEN 0 ELSE Best(rules, t)
             mins(k) == {t \in from..(to - 1) : ruleAt(t) = k}
             used == {k \in DOMAIN rules : mins(k) # {}}
             g == [k \in used |-> SegmentAmount(rules[k], Cardinality(mins(k)))]
             X == {p \in Pieces(cuts) : Applicable(rules, p[1]) # {}}
             f == [p \in X |-> SegmentAmount(rules[Best(rules, p[1])], p[2] - p[1])]
             part == [p \in X |-> MinutesOf(p)]
             key == [p \in X |-> Best(rules, p[1])]
             whole == [k \in used |-> mins(k)]
             am == [k \in used |-> TariffCost(rules[k])]
             c == [k \in used |-> rules[k].price]
  <1>1. TariffBill(x, from, to) = SumFunctionOnSet(g, used)
    BY DEF TariffBill, ByRule, Minutes, SumFunction
  <1>2. ResourcePrice(Tariffs[x], from, to) = SumFunctionOnSet(f, X)
    BY DEF ResourcePrice, SumFunction
  <1>3. /\ IsList(rules) /\ Range(rules) \subseteq TariffRules
        /\ IsFiniteSet(DOMAIN rules) /\ \A k \in DOMAIN rules : rules[k] \in TariffRules /\ k # 0
    <2>1. IsList(rules) /\ Range(rules) \subseteq TariffRules
      BY QuoteAssumption
    <2>2. IsFiniteSet(1..Len(rules)) /\ \A k \in 1..Len(rules) : k # 0
      BY <2>1, FS_Interval DEF IsList
    <2> QED
      BY <2>1, <2>2 DEF IsList, Range
  <1>4. /\ IsFiniteSet(Pieces(cuts))
        /\ \A p \in Pieces(cuts) :
              /\ p[1] \in MinutesOf(p) /\ MinutesOf(p) \subseteq from..(to - 1)
              /\ IsFiniteSet(MinutesOf(p)) /\ Cardinality(MinutesOf(p)) = p[2] - p[1]
        /\ \A p, q \in Pieces(cuts) : p # q => MinutesOf(p) \cap MinutesOf(q) = {}
        /\ \A t \in from..(to - 1) : \E p \in Pieces(cuts) : t \in MinutesOf(p)
    <2>1. IsFiniteSet(cuts) /\ cuts \subseteq from..to /\ from \in cuts /\ to \in cuts
      BY CutsAreFinite
    <2>2. WellCut(Pieces(cuts), from, to)
      <3> HIDE DEF cuts
      <3> QED
        BY <2>1, PiecesAre
    <2> HIDE DEF cuts
    <2> QED
      BY <2>2 DEF WellCut
  <1>5. ASSUME NEW p \in Pieces(cuts), NEW t \in MinutesOf(p)
        PROVE  Applicable(rules, t) = Applicable(rules, p[1]) /\ Best(rules, t) = Best(rules, p[1])
    BY <1>3, <1>5, TariffIsSteady, BestIsSteady
  <1>6. ASSUME NEW t, Applicable(rules, t) # {}
        PROVE  Best(rules, t) \in DOMAIN rules
    BY <1>3, <1>6, BestIs DEF Applicable
  <1>7. ASSUME NEW p \in X
        PROVE  /\ key[p] \in used /\ IsFiniteSet(part[p])
               /\ \A t \in part[p] : ruleAt(t) = key[p]
               /\ f[p] = SegmentAmount(rules[key[p]], Cardinality(part[p]))
               /\ Cardinality(part[p]) \in Nat
    <2>1. IsFiniteSet(part[p]) /\ \A t \in part[p] : ruleAt(t) = key[p]
      BY <1>4, <1>5
    <2>2. key[p] \in DOMAIN rules
      BY <1>6
    <2>3. p[1] \in mins(key[p])
      BY <1>4, <2>1
    <2>4. Cardinality(part[p]) \in Nat
      BY <2>1, FS_CardinalityType
    <2> QED
      BY <1>4, <2>1, <2>2, <2>3, <2>4
  <1>8. ASSUME NEW k \in used
        PROVE  whole[k] = United(Keyed(X, key, k), part) /\ whole[k] # {}
    <2>1. ASSUME NEW t \in whole[k]
          PROVE  t \in United(Keyed(X, key, k), part)
      <3>1. t \in from..(to - 1) /\ ruleAt(t) = k
        OBVIOUS
      <3>2. k # 0
        BY <1>3
      <3>3. Applicable(rules, t) # {} /\ Best(rules, t) = k
        BY <3>1, <3>2
      <3>4. PICK p \in Pieces(cuts) : t \in MinutesOf(p)
        BY <1>4, <3>1
      <3>5. p \in X /\ key[p] = k
        BY <1>5, <3>3, <3>4
      <3> QED
        BY <3>4, <3>5 DEF United, Keyed
    <2>2. ASSUME NEW t \in United(Keyed(X, key, k), part)
          PROVE  t \in whole[k]
      <3>1. PICK p \in X : key[p] = k /\ t \in part[p]
        BY DEF United, Keyed
      <3>2. ruleAt(t) = k
        BY <1>7, <3>1
      <3>3. t \in from..(to - 1)
        BY <1>4, <3>1
      <3> QED
        BY <3>2, <3>3
    <2>3. whole[k] # {}
      OBVIOUS
    <2> QED
      BY <2>1, <2>2, <2>3
  <1>9. IsFiniteSet(X) /\ IsFiniteSet(used)
    <2>1. IsFiniteSet(X)
      BY <1>4, FS_Subset
    <2>2. IsFiniteSet(used)
      BY <1>3, FS_Subset
    <2> QED
      BY <2>1, <2>2
  <1>10. ASSUME NEW k \in used
         PROVE  /\ Cardinality(whole[k]) \in Nat
                /\ g[k] = SegmentAmount(rules[k], Cardinality(whole[k]))
                /\ k \in DOMAIN rules /\ rules[k] \in TariffRules
    <2>1. IsFiniteSet(from..(to - 1))
      BY FS_Interval
    <2>2. IsFiniteSet(mins(k))
      BY <2>1, FS_Subset
    <2>3. Cardinality(mins(k)) \in Nat
      BY <2>2, FS_CardinalityType
    <2> QED
      BY <1>3, <2>3
  <1>11. SumFunctionOnSet(g, used) <= SumFunctionOnSet(f, X)
    <2>1. \A k \in used : IsAmount(am[k]) /\ g[k] = am[k][Cardinality(whole[k])]
      BY <1>10, RulesAreAmounts DEF TariffCost
    <2>2. \A p \in X : key[p] \in used /\ f[p] = am[key[p]][Cardinality(part[p])] /\ IsFiniteSet(part[p])
      BY <1>7 DEF TariffCost
    <2>3. \A k \in used : whole[k] # {} /\ whole[k] \subseteq United(Keyed(X, key, k), part)
      BY <1>8
    <2>4. IsCover(X, part, used, key, whole, am, f, g)
      <3> HIDE DEF g, f, X, used, part, key, whole, am
      <3> QED
        BY <1>9, <2>1, <2>2, <2>3 DEF IsCover
    <2> HIDE DEF g, f, X, used, part, key, whole, am
    <2> QED
      BY <2>4, CoverCost
  <1>12. ASSUME \A r \in Range(rules) : r.unit = 1
         PROVE  SumFunctionOnSet(g, used) = SumFunctionOnSet(f, X)
    <2>1. ASSUME NEW k \in used
          PROVE  /\ c[k] \in Nat
                 /\ \A n \in Nat : SegmentAmount(rules[k], n) = c[k] * n
      <3>1. rules[k] \in TariffRules /\ rules[k] \in Range(rules)
        BY <1>10 DEF Range
      <3>2. rules[k].unit = 1 /\ rules[k].price \in Nat
        BY <1>12, <3>1 DEF TariffRules
      <3>3. \A n \in Nat : TariffCost(rules[k])[n] = rules[k].price * n
        BY <3>1, <3>2, RulesAreAmounts
      <3> QED
        BY <3>2, <3>3 DEF TariffCost
    <2>2. \A k \in used : g[k] = c[k] * Cardinality(whole[k]) /\ c[k] \in Nat
      BY <1>10, <2>1
    <2>3. \A p \in X : key[p] \in used /\ f[p] = c[key[p]] * Cardinality(part[p]) /\ IsFiniteSet(part[p])
      BY <1>7, <2>1
    <2>4. \A k \in used : whole[k] = United(Keyed(X, key, k), part)
      BY <1>8
    <2>5. \A p, q \in X : p # q => part[p] \cap part[q] = {}
      BY <1>4
    <2>6. IsExactCover(X, part, used, key, whole, c, f, g)
      <3> HIDE DEF g, f, X, used, part, key, whole, c
      <3> QED
        BY <1>9, <2>2, <2>3, <2>4, <2>5 DEF IsExactCover
    <2> HIDE DEF g, f, X, used, part, key, whole, c
    <2> QED
      BY <2>6, ExactCost
  <1> QED
    BY <1>1, <1>2, <1>11, <1>12 DEF Covers

-----------------------------------------------------------------------------
(* Days and hours. *)

\* An instant is a day and a minute of that day.
LEMMA DayAndTime ==
    ASSUME NEW t \in Nat
    PROVE  DateOf(t) \in Nat /\ t % Day \in Nat /\ t % Day < Day /\ t = DateOf(t) * Day + (t % Day)
  <1>1. Day \in Nat \ {0}
    BY QuoteAssumption
  <1>2. ASSUME NEW u \in Nat \ {0}
        PROVE  t \div u \in Nat /\ t % u \in Nat /\ t % u < u /\ t = (t \div u) * u + (t % u)
    OBVIOUS
  <1> QED
    BY <1>1, <1>2 DEF DateOf

\* How instants of days compare is how the days do, but for midnight.
LEMMA DateIsLeast ==
    ASSUME NEW d \in Nat, NEW m \in Nat, m < Day, NEW e \in Nat
    PROVE  /\ e * Day <= d * Day + m <=> e <= d
           /\ d * Day + m <= (e + 1) * Day <=> d <= e \/ (d = e + 1 /\ m = 0)
           /\ d * Day \in Nat /\ e * Day \in Nat /\ (e + 1) * Day = e * Day + Day
  <1>1. Day \in Nat \ {0}
    BY QuoteAssumption
  <1>2. d * Day \in Nat /\ e * Day \in Nat /\ (e + 1) * Day = e * Day + Day
    BY <1>1
  <1>3. CASE e <= d
    <2>1. PICK h \in Nat : d = e + h
      <3>1. d = e + (d - e) /\ d - e \in Nat
        BY <1>3
      <3> QED
        BY <3>1
    <2>2. d * Day = e * Day + h * Day /\ h * Day \in Nat
      BY <1>1, <2>1
    <2>3. h = 0 \/ h = 1 \/ \E g \in Nat : h = g + 2
      <3>1. h >= 2 => h = (h - 2) + 2 /\ h - 2 \in Nat
        OBVIOUS
      <3> QED
        BY <3>1
    <2>4. ASSUME NEW g \in Nat, h = g + 2
          PROVE  h * Day = g * Day + Day + Day /\ g * Day \in Nat
      BY <1>1, <2>4
    <2>5. CASE h = 0
      BY <1>1, <1>2, <1>3, <2>1, <2>2, <2>5
    <2>6. CASE h = 1
      BY <1>1, <1>2, <1>3, <2>1, <2>2, <2>6
    <2>7. CASE \E g \in Nat : h = g + 2
      BY <1>1, <1>2, <1>3, <2>1, <2>2, <2>4, <2>7
    <2> QED
      BY <2>3, <2>5, <2>6, <2>7
  <1>4. CASE ~(e <= d)
    <2>1. PICK h \in Nat : e = d + 1 + h
      <3>1. e = d + 1 + (e - d - 1) /\ e - d - 1 \in Nat
        BY <1>4
      <3> QED
        BY <3>1
    <2>2. e * Day = d * Day + Day + h * Day /\ h * Day \in Nat
      BY <1>1, <2>1
    <2> QED
      BY <1>1, <1>2, <1>4, <2>1, <2>2
  <1> QED
    BY <1>3, <1>4

\* The day and the minute of an instant are its only ones.
LEMMA TimeIs ==
    ASSUME NEW t \in Nat, NEW d \in Nat, NEW m \in Nat, m < Day, t = d * Day + m
    PROVE  DateOf(t) = d /\ t % Day = m
  <1>1. PICK c \in Nat, n \in Nat : c = DateOf(t) /\ n = t % Day /\ n < Day /\ t = c * Day + n
    BY DayAndTime
  <1>2. Day \in Nat \ {0}
    BY QuoteAssumption
  <1>3. c * Day \in Nat /\ d * Day \in Nat
    BY <1>2
  <1>4. c * Day <= d * Day + m /\ d * Day <= c * Day + n
    BY <1>1, <1>3
  <1>5. c <= d /\ d <= c
    BY <1>1, <1>4, DateIsLeast
  <1>6. c = d
    BY <1>5
  <1> QED
    BY <1>1, <1>3, <1>6

\* The dates of a rule, by the day and the time of it.
LEMMA InDatesIs ==
    ASSUME NEW r \in SectionRules, NEW d \in Nat, NEW m \in Nat, m < Day, NEW t, t = d * Day + m
    PROVE  InDates(r, t) <=> /\ r.first = Ever \/ r.first <= d
                             /\ r.last = Ever \/ d <= r.last \/ (d = r.last + 1 /\ m = 0)
  <1>1. r.first \in Nat \cup {Ever} /\ r.last \in Nat \cup {Ever}
    BY DEF SectionRules
  <1>2. t \in Nat
    BY QuoteAssumption
  <1>3. r.first # Ever => (t >= r.first * Day <=> r.first <= d)
    <2> SUFFICES ASSUME r.first # Ever PROVE t >= r.first * Day <=> r.first <= d
      OBVIOUS
    <2>1. PICK e \in Nat : e = r.first
      BY <1>1
    <2>2. e * Day <= d * Day + m <=> e <= d
      BY DateIsLeast
    <2>3. e * Day \in Nat
      BY DateIsLeast
    <2> QED
      BY <1>2, <2>1, <2>2, <2>3
  <1>4. r.last # Ever => (t <= (r.last + 1) * Day <=> d <= r.last \/ (d = r.last + 1 /\ m = 0))
    <2> SUFFICES ASSUME r.last # Ever
                 PROVE  t <= (r.last + 1) * Day <=> d <= r.last \/ (d = r.last + 1 /\ m = 0)
      OBVIOUS
    <2>1. PICK e \in Nat : e = r.last
      BY <1>1
    <2>2. d * Day + m <= (e + 1) * Day <=> d <= e \/ (d = e + 1 /\ m = 0)
      BY DateIsLeast
    <2> QED
      BY <2>1, <2>2
  <1> QED
    BY <1>3, <1>4 DEF InDates

\* A rule begins and ceases to match only at one of its edges, unless it is frayed.
LEMMA EdgeBetween ==
    ASSUME NEW r \in SectionRules, ~Frayed(r), NEW u \in Nat, ~(Matches(r, u) <=> Matches(r, u + 1))
    PROVE  \E d \in {DateOf(u), DateOf(u + 1)} : u + 1 \in Edges(r, d)
  <1>1. PICK d \in Nat, m \in Nat : d = DateOf(u) /\ m = u % Day /\ m < Day /\ u = d * Day + m
    BY DayAndTime
  <1>2. /\ Day \in Nat \ {0} /\ r.start \in Nat /\ r.start <= Day /\ r.end \in Nat /\ r.end <= Day
        /\ r.first \in Nat \cup {Ever} /\ r.last \in Nat \cup {Ever} /\ Ever \notin Nat
    BY QuoteAssumption DEF SectionRules
  <1> DEFINE In(e, n) == /\ r.first = Ever \/ r.first <= e
                         /\ r.last = Ever \/ e <= r.last \/ (e = r.last + 1 /\ n = 0)
  <1>3. \A e, n \in Nat : n < Day => (InDates(r, e * Day + n) <=> In(e, n))
    BY InDatesIs
  <1>4. \A e \in Nat : InDates(r, e * Day) <=> In(e, 0)
    <2> SUFFICES ASSUME NEW e \in Nat PROVE InDates(r, e * Day) <=> In(e, 0)
      OBVIOUS
    <2>1. e * Day = e * Day + 0 /\ 0 < Day
      BY <1>2
    <2> QED
      BY <2>1, InDatesIs
  <1>5. Matches(r, u) <=> In(d, m) /\ InHours(r, m)
    BY <1>1, <1>3 DEF Matches
  <1>6. CASE m + 1 < Day
    <2>1. u + 1 = d * Day + (m + 1) /\ u + 1 \in Nat
      BY <1>1, <1>2
    <2>2. DateOf(u + 1) = d /\ (u + 1) % Day = m + 1
      BY <1>6, <2>1, TimeIs
    <2>3. Matches(r, u + 1) <=> In(d, m + 1) /\ InHours(r, m + 1)
      BY <1>3, <1>6, <2>1, <2>2 DEF Matches
    <2>4. In(d, 0) /\ (m + 1 = r.start \/ m + 1 = r.end)
      BY <1>2, <1>5, <1>6, <2>3 DEF Frayed, InHours
    <2>5. u + 1 \in Edges(r, d)
      BY <1>4, <2>1, <2>4 DEF Edges
    <2> QED
      BY <1>1, <2>5
  <1>7. CASE ~(m + 1 < Day)
    <2>1. m + 1 = Day /\ (d + 1) * Day = d * Day + Day
      BY <1>1, <1>2, <1>7
    <2> DEFINE e == d * Day
    <2>2. /\ u + 1 = (d + 1) * Day + 0 /\ u + 1 = (d + 1) * Day /\ u + 1 = d * Day + Day
          /\ u + 1 \in Nat /\ d + 1 \in Nat
      <3>0. e \in Nat
        <4>1. d \in Nat /\ Day \in Nat
          BY <1>2
        <4> QED
          BY <4>1
      <3>1. e \in Nat /\ u = e + m /\ (d + 1) * Day = e + Day
        BY <1>1, <2>1, <3>0
      <3> HIDE DEF e
      <3>2. u + 1 = e + Day /\ (d + 1) * Day + 0 = e + Day
        BY <1>2, <2>1, <3>1
      <3> QED
        BY <3>1, <3>2 DEF e
    <2>3. DateOf(u + 1) = d + 1 /\ (u + 1) % Day = 0
      <3>1. 0 \in Nat /\ 0 < Day
        BY <1>2
      <3> HIDE DEF e
      <3> QED
        BY <2>2, <3>1, TimeIs
    <2>4. Matches(r, u + 1) <=> In(d + 1, 0) /\ InHours(r, 0)
      BY <1>4, <2>2, <2>3 DEF Matches
    <2>5. \/ In(d, 0) /\ (Day = r.start \/ Day = r.end)
          \/ In(d + 1, 0) /\ (0 = r.start \/ 0 = r.end)
      BY <1>2, <1>5, <2>1, <2>4 DEF Frayed, InHours
    <2>6. u + 1 \in Edges(r, d) \/ u + 1 \in Edges(r, d + 1)
      BY <1>4, <2>2, <2>5 DEF Edges
    <2> QED
      BY <1>1, <2>3, <2>6
  <1> QED
    BY <1>6, <1>7

-----------------------------------------------------------------------------
(* The boundaries of a section's rules. *)

\* Which edges lie in a window does not depend on how far one looks for them.
LEMMA EdgeIsCut ==
    ASSUME NEW rules, Range(rules) \subseteq SectionRules, NEW from \in Nat, NEW to \in Nat,
           NEW c \in Nat, from < c, c <= to, NEW r \in Range(rules), NEW d \in Nat, c \in Edges(r, d)
    PROVE  c \in RuleBoundaries(rules, from, to)
  <1>1. /\ Day \in Nat \ {0} /\ r.start \in Nat /\ r.start <= Day /\ r.end \in Nat /\ r.end <= Day
    BY QuoteAssumption DEF SectionRules
  <1>2. d * Day \in Nat /\ (d + 1) * Day = d * Day + Day
    BY DateIsLeast, <1>1
  <1>3. d * Day <= c /\ c <= (d + 1) * Day
    BY <1>1, <1>2 DEF Edges
  <1>4. PICK a \in Nat, n \in Nat : a = DateOf(from) /\ n < Day /\ from = a * Day + n
    BY DayAndTime
  <1>5. PICK b \in Nat, m \in Nat : b = DateOf(to) /\ m < Day /\ to = b * Day + m
    BY DayAndTime
  <1>6. a <= d
    <2>1. from <= (d + 1) * Day /\ from # (d + 1) * Day
      <3> DEFINE e == (d + 1) * Day
      <3>1. e \in Nat /\ c <= e
        BY <1>1, <1>2, <1>3
      <3> HIDE DEF e
      <3>2. from <= e /\ from # e
        BY <3>1
      <3> QED
        BY <3>2 DEF e
    <2>2. a <= d \/ (a = d + 1 /\ n = 0)
      BY <1>4, <2>1, DateIsLeast
    <2>3. ASSUME a = d + 1, n = 0 PROVE FALSE
      <3>1. from = (d + 1) * Day + 0
        BY <1>4, <2>3
      <3>2. (d + 1) * Day + 0 = (d + 1) * Day
        BY <1>2, <1>1
      <3> QED
        BY <2>1, <3>1, <3>2
    <2> QED
      BY <2>2, <2>3
  <1>7. d <= b
    <2>1. d * Day <= to
      BY <1>2, <1>3
    <2> QED
      BY <1>5, <2>1, DateIsLeast
  <1>8. d \in a..(b + 1) /\ c \in from..to
    BY <1>6, <1>7
  <1> QED
    BY <1>4, <1>5, <1>8 DEF RuleBoundaries

\* A boundary that a larger window has within a smaller one is one of the smaller's.
LEMMA CutIsCut ==
    ASSUME NEW rules, Range(rules) \subseteq SectionRules,
           NEW from \in Nat, NEW to \in Nat, NEW f \in Nat, NEW t \in Nat,
           f <= from, to <= t, from < to,
           NEW c \in RuleBoundaries(rules, f, t), from < c, c < to
    PROVE  c \in RuleBoundaries(rules, from, to)
  <1>1. c # f /\ c # t /\ c \in f..t
    BY CutsAreFinite
  <1>2. PICK d \in DateOf(f)..(DateOf(t) + 1), r \in Range(rules) : c \in Edges(r, d)
    BY <1>1 DEF RuleBoundaries
  <1>3. d \in Nat
    <2>1. DateOf(f) \in Nat /\ DateOf(t) \in Nat
      BY DayAndTime
    <2> QED
      BY <2>1
  <1>4. c \in Nat
    BY <1>1
  <1> QED
    BY <1>2, <1>3, <1>4, EdgeIsCut

\* The pieces of a window of a section are a partition of its minutes, with no boundary inside
\* one.
LEMMA WindowPieces ==
    ASSUME NEW rules, NEW from \in Nat, NEW to \in Nat, from < to
    PROVE  /\ WellCut(Pieces(RuleBoundaries(rules, from, to)), from, to)
           /\ \A p \in Pieces(RuleBoundaries(rules, from, to)) :
                 ~\E c \in RuleBoundaries(rules, from, to) : p[1] < c /\ c < p[2]
  <1> DEFINE cuts == RuleBoundaries(rules, from, to)
  <1>1. IsFiniteSet(cuts) /\ cuts \subseteq from..to /\ from \in cuts /\ to \in cuts
    BY CutsAreFinite
  <1>2. /\ WellCut(Pieces(cuts), from, to)
        /\ \A p \in Pieces(cuts) : ~\E c \in cuts : p[1] < c /\ c < p[2]
    <2> HIDE DEF cuts
    <2> QED
      BY <1>1, PiecesAre
  <1> QED
    BY <1>2

\* In a piece the same rule counts all the time, if none is frayed.
LEMMA RuleIsSteady ==
    ASSUME NEW rules, Range(rules) \subseteq SectionRules, \A r \in Range(rules) : ~Frayed(r),
           NEW from \in Nat, NEW to \in Nat, from < to,
           NEW p \in Pieces(RuleBoundaries(rules, from, to)), NEW t \in MinutesOf(p)
    PROVE  RuleAt(rules, t) = RuleAt(rules, p[1])
  <1>1. /\ p[1] \in Nat /\ p[2] \in Nat /\ from <= p[1] /\ p[1] < p[2] /\ p[2] <= to
        /\ ~\E c \in RuleBoundaries(rules, from, to) : p[1] < c /\ c < p[2]
        /\ IsFiniteSet(MinutesOf(p))
    <2>1. WellCut(Pieces(RuleBoundaries(rules, from, to)), from, to)
      BY WindowPieces
    <2> QED
      BY <2>1, WindowPieces DEF WellCut
  <1>2. ASSUME NEW k \in DOMAIN rules, ~(Matches(rules[k], t) <=> Matches(rules[k], p[1]))
        PROVE  FALSE
    <2> DEFINE r == rules[k]
               bad == {u \in MinutesOf(p) : ~(Matches(r, u) <=> Matches(r, p[1]))}
    <2>1. IsFiniteSet(bad) /\ bad \subseteq Int /\ bad # {}
      <3>1. t \in bad
        BY <1>2
      <3>2. bad \subseteq Int
        BY <1>1 DEF MinutesOf
      <3> QED
        BY <1>1, <3>1, <3>2, FS_Subset
    <2>2. PICK v \in bad : \A u \in bad : v <= u
      <3> HIDE DEF bad
      <3> QED
        BY <2>1, MinOfFinite
    <2>3. v \in Nat /\ p[1] <= v /\ v < p[2] /\ v # p[1]
      BY <1>1, <2>2 DEF MinutesOf
    <2>4. PICK u \in Nat : v = u + 1
      <3>1. v - 1 \in Nat /\ v = (v - 1) + 1
        BY <1>1, <2>3
      <3> QED
        BY <3>1
    <2>5. u \in MinutesOf(p) /\ u \notin bad
      <3>1. u \in MinutesOf(p)
        BY <1>1, <2>3, <2>4 DEF MinutesOf
      <3>2. ~(v <= u)
        BY <2>4
      <3> QED
        BY <2>2, <3>1, <3>2
    <2>6. Matches(r, u) <=> Matches(r, p[1])
      BY <2>5
    <2>7. ~(Matches(r, v) <=> Matches(r, p[1]))
      BY <2>2
    <2>8. r \in Range(rules) /\ r \in SectionRules /\ ~Frayed(r)
      BY DEF Range
    <2>9. ~(Matches(r, u) <=> Matches(r, u + 1))
      BY <2>4, <2>6, <2>7
    <2> HIDE DEF r, bad
    <2>10. PICK d \in {DateOf(u), DateOf(u + 1)} : u + 1 \in Edges(r, d)
      BY <2>8, <2>9, EdgeBetween
    <2>11. d \in Nat
      <3>1. u + 1 \in Nat
        OBVIOUS
      <3> QED
        BY <3>1, DayAndTime
    <2>12. v \in RuleBoundaries(rules, from, to)
      <3>1. from < v /\ v <= to
        BY <1>1, <2>3
      <3> QED
        BY <2>3, <2>4, <2>8, <2>10, <2>11, <3>1, EdgeIsCut
    <2>13. p[1] < v
      BY <1>1, <2>3
    <2> QED
      BY <1>1, <2>3, <2>12, <2>13
  <1>3. {k \in DOMAIN rules : Matches(rules[k], t)} = {k \in DOMAIN rules : Matches(rules[k], p[1])}
    BY <1>2
  <1> QED
    BY <1>3 DEF RuleAt

-----------------------------------------------------------------------------
(* Windows that overlap, merged. *)

\* Merged windows have no minute in common, none that is in no window, and each window
\* lies in one of them.
LEMMA MergedAre ==
    ASSUME Kept, NEW s
    PROVE  /\ \A w \in WindowsOf(s) : \E q \in Merged(s) : q[1] <= w.from /\ w.to <= q[2]
           /\ \A q \in Merged(s) : \A t \in MinutesOf(q) :
                 \E w \in WindowsOf(s) : t \in w.from..(w.to - 1)
           /\ \A q, h \in Merged(s) : q # h => MinutesOf(q) \cap MinutesOf(h) = {}
  <1> DEFINE group(f) == {w \in WindowsOf(s) : w.from >= f /\ ~\E g \in Opens(s) : f < g /\ g <= w.from}
             close(f) == Max({w.to : w \in group(f)})
  <1>1. \A w \in WindowsOf(s) : w.from \in Nat /\ w.to \in Nat /\ w.from < w.to
    BY FlownOK DEF WindowsOf
  <1>2. Opens(s) \subseteq Nat /\ IsFiniteSet(Opens(s)) /\ IsFiniteSet(WindowsOf(s))
    BY MergedOK
  <1>3. \A q : q \in Merged(s) <=> \E f \in Opens(s) : q = <<f, close(f)>>
    BY DEF Merged
  <1>4. ASSUME NEW f \in Opens(s)
        PROVE  /\ close(f) \in Nat /\ f < close(f)
               /\ \E w \in group(f) : w.to = close(f)
               /\ \A w \in group(f) : w.to <= close(f)
    <2> DEFINE ends == {w.to : w \in group(f)}
    <2>1. <<f, close(f)>> \in Merged(s)
      BY <1>3
    <2>2. close(f) \in Nat /\ f < close(f)
      <3> HIDE DEF close
      <3>1. <<f, close(f)>>[1] = f /\ <<f, close(f)>>[2] = close(f)
        OBVIOUS
      <3> QED
        BY <2>1, <3>1, MergedOK
    <2>3. PICK w \in WindowsOf(s) : w.from = f
      BY DEF Opens
    <2>4. w \in group(f)
      BY <1>2, <2>3
    <2>5. IsFiniteSet(ends) /\ ends \subseteq Int /\ ends # {}
      <3>1. IsFiniteSet(group(f))
        BY <1>2, FS_Subset
      <3> DEFINE g == [v \in group(f) |-> v.to]
      <3>2. IsFiniteSet({g[v] : v \in group(f)})
        <4> HIDE DEF group, g
        <4> QED
          BY <3>1, ImageOf
      <3>3. {g[v] : v \in group(f)} = ends
        <4> HIDE DEF group
        <4> QED
          OBVIOUS
      <3>4. ends \subseteq Int
        BY <1>1
      <3> QED
        BY <2>4, <3>2, <3>3, <3>4
    <2>6. close(f) \in ends /\ \A e \in ends : e <= close(f)
      <3> HIDE DEF ends
      <3>1. Max(ends) \in ends /\ \A e \in ends : e <= Max(ends)
        BY <2>5, MaxOfFinite
      <3> QED
        BY <3>1 DEF ends
    <2> HIDE DEF close, group
    <2> QED
      BY <2>2, <2>6
  <1>5. ASSUME NEW f \in Opens(s), NEW g \in Opens(s), f < g
        PROVE  close(f) < g
    <2>1. PICK w \in group(f) : w.to = close(f)
      BY <1>4
    <2>2. PICK u \in WindowsOf(s) : u.from = g /\ ~\E v \in WindowsOf(s) : v.from < g /\ g <= v.to
      BY DEF Opens
    <2>3. w \in WindowsOf(s) /\ ~(g <= w.from)
      BY <1>5
    <2>4. w.from < g /\ ~(g <= w.to)
      BY <1>1, <1>2, <2>2, <2>3
    <2> HIDE DEF close, group
    <2> QED
      BY <1>1, <1>2, <2>1, <2>3, <2>4
  <1>6. ASSUME NEW w \in WindowsOf(s)
        PROVE  \E f \in Opens(s) : w \in group(f)
    <2> DEFINE starts == {v.from : v \in WindowsOf(s)}
               low == {f \in Opens(s) : f <= w.from}
    <2>1. IsFiniteSet(starts) /\ starts \subseteq Int /\ starts # {}
      <3> DEFINE g == [v \in WindowsOf(s) |-> v.from]
      <3>1. IsFiniteSet({g[v] : v \in WindowsOf(s)})
        <4> HIDE DEF g
        <4> QED
          BY <1>2, ImageOf
      <3>2. {g[v] : v \in WindowsOf(s)} = starts
        OBVIOUS
      <3> QED
        BY <1>1, <3>1, <3>2
    <2>2. PICK a \in starts : \A b \in starts : a <= b
      <3> HIDE DEF starts
      <3> QED
        BY <2>1, MinOfFinite
    <2>3. a \in Opens(s)
      <3>1. PICK u \in WindowsOf(s) : u.from = a
        OBVIOUS
      <3>2. \A v \in WindowsOf(s) : ~(v.from < u.from)
        <4>1. \A v \in WindowsOf(s) : v.from \in starts
          OBVIOUS
        <4>2. \A v \in WindowsOf(s) : a <= v.from
          BY <2>2, <4>1
        <4> HIDE DEF starts
        <4> QED
          BY <1>1, <3>1, <4>2
      <3> QED
        BY <3>1, <3>2 DEF Opens
    <2>4. IsFiniteSet(low) /\ low \subseteq Int /\ low # {}
      <3>1. a \in low
        BY <2>2, <2>3
      <3>2. low \subseteq Int
        BY <1>2
      <3> QED
        BY <1>2, <3>1, <3>2, FS_Subset
    <2>5. PICK f \in low : \A g \in low : g <= f
      <3> HIDE DEF low
      <3> QED
        BY <2>4, MaxOfFinite
    <2>6. w \in group(f)
      <3>1. ASSUME NEW g \in Opens(s), f < g, g <= w.from PROVE FALSE
        BY <1>2, <2>5, <3>1
      <3> QED
        BY <1>1, <1>2, <2>5, <3>1
    <2> QED
      BY <2>5, <2>6
  <1>7. ASSUME NEW f \in Opens(s), NEW t \in Nat, f <= t, t < close(f)
        PROVE  \E w \in WindowsOf(s) : w.from <= t /\ t < w.to
    <2> SUFFICES ASSUME \A w \in WindowsOf(s) : ~(w.from <= t /\ t < w.to) PROVE FALSE
      OBVIOUS
    <2> DEFINE later == {w \in group(f) : w.from > t}
               starts == {w.from : w \in later}
    <2>1. PICK l \in group(f) : l.to = close(f)
      BY <1>4
    <2>2. l \in later
      <3>1. l \in WindowsOf(s)
        OBVIOUS
      <3> HIDE DEF close, group
      <3> QED
        BY <1>1, <1>7, <2>1, <3>1
    <2>3. IsFiniteSet(starts) /\ starts \subseteq Int /\ starts # {}
      <3>1. IsFiniteSet(later)
        BY <1>2, FS_Subset
      <3> DEFINE g == [v \in later |-> v.from]
      <3>2. IsFiniteSet({g[v] : v \in later})
        <4> HIDE DEF later, g
        <4> QED
          BY <3>1, ImageOf
      <3>3. {g[v] : v \in later} = starts
        <4> HIDE DEF later
        <4> QED
          OBVIOUS
      <3>4. starts \subseteq Int
        BY <1>1
      <3> QED
        BY <2>2, <3>2, <3>3, <3>4
    <2>4. PICK b \in starts : \A c \in starts : b <= c
      <3> HIDE DEF starts
      <3> QED
        BY <2>3, MinOfFinite
    <2>5. PICK u \in later : u.from = b
      OBVIOUS
    <2>6. u \in WindowsOf(s) /\ b \in Nat /\ t < b /\ f < b /\ ~\E g \in Opens(s) : f < g /\ g <= b
      BY <1>1, <1>2, <1>7, <2>5
    <2>7. b \notin Opens(s)
      BY <2>6
    <2>8. PICK v \in WindowsOf(s) : v.from < b /\ b <= v.to
      BY <2>5, <2>6, <2>7 DEF Opens
    <2>9. CASE v.from <= t
      BY <1>1, <2>6, <2>8, <2>9
    <2>10. CASE ~(v.from <= t)
      <3>1. v.from \in Nat /\ v.from > t /\ v.from >= f
        BY <1>1, <1>2, <1>7, <2>10
      <3>2. ASSUME NEW g \in Opens(s), f < g, g <= v.from PROVE FALSE
        <4>1. g <= b
          BY <1>2, <2>6, <2>8, <3>1, <3>2
        <4> QED
          BY <2>6, <3>2, <4>1
      <3>3. v \in later
        BY <3>1, <3>2
      <3>4. b <= v.from
        BY <2>4, <3>3
      <3> QED
        BY <2>6, <2>8, <3>1, <3>4
    <2> QED
      BY <2>9, <2>10
  <1> HIDE DEF close
  <1>8. ASSUME NEW w \in WindowsOf(s)
        PROVE  \E q \in Merged(s) : q[1] <= w.from /\ w.to <= q[2]
    <2>1. PICK f \in Opens(s) : w \in group(f)
      BY <1>6
    <2>2. f <= w.from /\ w.to <= close(f)
      BY <1>1, <1>2, <1>4, <2>1
    <2>3. <<f, close(f)>> \in Merged(s)
      BY <1>3
    <2> QED
      BY <2>2, <2>3
  <1>9. ASSUME NEW q \in Merged(s), NEW t \in MinutesOf(q)
        PROVE  \E w \in WindowsOf(s) : t \in w.from..(w.to - 1)
    <2>1. PICK f \in Opens(s) : q = <<f, close(f)>>
      BY <1>3
    <2>2. t \in Nat /\ f <= t /\ t < close(f)
      BY <1>2, <1>4, <2>1 DEF MinutesOf
    <2>3. PICK w \in WindowsOf(s) : w.from <= t /\ t < w.to
      BY <1>7, <2>2
    <2> QED
      BY <1>1, <2>2, <2>3
  <1>10. ASSUME NEW q \in Merged(s), NEW h \in Merged(s), q # h
         PROVE  MinutesOf(q) \cap MinutesOf(h) = {}
    <2>1. PICK f \in Opens(s) : q = <<f, close(f)>>
      BY <1>3
    <2>2. PICK g \in Opens(s) : h = <<g, close(g)>>
      BY <1>3
    <2>3. f \in Nat /\ g \in Nat /\ close(f) \in Nat /\ close(g) \in Nat
      BY <1>2, <1>4
    <2>4. f < g \/ g < f
      BY <1>10, <2>1, <2>2, <2>3
    <2>5. close(f) < g \/ close(g) < f
      BY <1>5, <2>4
    <2> QED
      BY <2>1, <2>2, <2>3, <2>5 DEF MinutesOf
  <1> QED
    BY <1>8, <1>9, <1>10

-----------------------------------------------------------------------------
(* The price of several windows as the amounts of all their pieces. *)

AmountOf(rules, p) == RuleAmount(rules[RuleAt(rules, p[1])], p[2] - p[1])
CutUp(rules, I, win) == [i \in I |-> Pieces(RuleBoundaries(rules, win[i][1], win[i][2]))]
AllPieces(rules, I, win) == Pairs(I, CutUp(rules, I, win))
Within(win, i) == win[i][1]..(win[i][2] - 1)
IsWindows(I, win) ==
    IsFiniteSet(I) /\ \A i \in I : win[i][1] \in Nat /\ win[i][2] \in Nat /\ win[i][1] < win[i][2]
\* The pieces of each window have no minute in common and leave none out.
ArePieces(X, I, win) ==
    /\ IsFiniteSet(X)
    /\ \A x \in X : /\ x[1] \in I /\ x[2][1] \in MinutesOf(x[2])
                    /\ MinutesOf(x[2]) \subseteq Within(win, x[1]) /\ IsFiniteSet(MinutesOf(x[2]))
    /\ \A i \in I : \A t \in Within(win, i) : \E x \in X : x[1] = i /\ t \in MinutesOf(x[2])
    /\ \A x, y \in X : x # y /\ x[1] = y[1] => MinutesOf(x[2]) \cap MinutesOf(y[2]) = {}

\* The price of several windows is the sum of their pieces' amounts, each at the rule of its
\* first minute.
LEMMA PricesArePieces ==
    ASSUME NEW rules, IsList(rules), Range(rules) \subseteq SectionRules, rules # <<>>,
           NEW I, NEW win, IsWindows(I, win),
           NEW X, X = AllPieces(rules, I, win),
           NEW g, \A i \in I : g[i] = SectionPrice(rules, win[i][1], win[i][2]),
           NEW f, \A x \in X : f[x] = AmountOf(rules, x[2])
    PROVE  /\ ArePieces(X, I, win) /\ SumFunctionOnSet(f, X) = SumFunctionOnSet(g, I)
           /\ \A x \in X : /\ x[2] \in Pieces(RuleBoundaries(rules, win[x[1]][1], win[x[1]][2]))
                           /\ RuleAt(rules, x[2][1]) \in DOMAIN rules
                           /\ f[x] = SectionCost(rules[RuleAt(rules, x[2][1])])[Cardinality(MinutesOf(x[2]))]
  <1> DEFINE of == CutUp(rules, I, win)
             cost == [i \in I |-> [p \in of[i] |-> AmountOf(rules, p)]]
  <1>1. ASSUME NEW i \in I
        PROVE  /\ of[i] = Pieces(RuleBoundaries(rules, win[i][1], win[i][2]))
               /\ IsFiniteSet(of[i])
               /\ \A p \in of[i] : /\ p[1] \in Nat /\ p[2] \in Nat
                                   /\ p[1] \in MinutesOf(p) /\ MinutesOf(p) \subseteq Within(win, i)
                                   /\ IsFiniteSet(MinutesOf(p)) /\ Cardinality(MinutesOf(p)) = p[2] - p[1]
               /\ \A p, q \in of[i] : p # q => MinutesOf(p) \cap MinutesOf(q) = {}
               /\ \A t \in Within(win, i) : \E p \in of[i] : t \in MinutesOf(p)
    <2>1. win[i][1] \in Nat /\ win[i][2] \in Nat /\ win[i][1] < win[i][2]
      BY DEF IsWindows
    <2>2. of[i] = Pieces(RuleBoundaries(rules, win[i][1], win[i][2]))
      BY DEF CutUp
    <2> HIDE DEF of
    <2>3. WellCut(of[i], win[i][1], win[i][2])
      <3>1. WellCut(Pieces(RuleBoundaries(rules, win[i][1], win[i][2])), win[i][1], win[i][2])
        BY <2>1, WindowPieces
      <3> QED
        BY <2>2, <3>1
    <2> QED
      BY <2>2, <2>3 DEF WellCut, Within
  <1>2. \A x \in X : x[1] \in I /\ x[2] \in of[x[1]] /\ x = <<x[1], x[2]>>
    BY DEF AllPieces, Pairs
  <1>3. \A i \in I : \A p \in of[i] : <<i, p>> \in X
    BY DEF AllPieces, Pairs, United
  <1>4. ASSUME NEW i \in I, NEW p \in of[i]
        PROVE  /\ RuleAt(rules, p[1]) \in DOMAIN rules
               /\ AmountOf(rules, p) = SectionCost(rules[RuleAt(rules, p[1])])[Cardinality(MinutesOf(p))]
               /\ AmountOf(rules, p) \in Nat
    <2>1. Cardinality(MinutesOf(p)) \in Nat /\ Cardinality(MinutesOf(p)) = p[2] - p[1]
      BY <1>1, FS_CardinalityType
    <2>2. RuleAt(rules, p[1]) \in DOMAIN rules
      BY RuleAtIs
    <2>3. rules[RuleAt(rules, p[1])] \in SectionRules
      BY <2>2 DEF Range
    <2> HIDE DEF of
    <2>4. p[2] - p[1] \in Nat
      BY <2>1
    <2>5. AmountOf(rules, p) \in Nat
      BY <2>3, <2>4, AmountsAreNat DEF AmountOf
    <2>6. SectionCost(rules[RuleAt(rules, p[1])])[p[2] - p[1]] = AmountOf(rules, p)
      BY <2>4 DEF SectionCost, AmountOf
    <2> QED
      BY <2>1, <2>2, <2>5, <2>6
  <1>5. ASSUME NEW i \in I
        PROVE  g[i] = SumFunctionOnSet(cost[i], of[i]) /\ \A p \in of[i] : cost[i][p] \in Int
    <2>1. cost[i] = [p \in Pieces(RuleBoundaries(rules, win[i][1], win[i][2])) |->
                       RuleAmount(rules[RuleAt(rules, p[1])], p[2] - p[1])]
      BY <1>1 DEF AmountOf
    <2>2. g[i] = SumFunctionOnSet(cost[i], of[i])
      <3> HIDE DEF cost
      <3> QED
        BY <1>1, <2>1 DEF SectionPrice, SumFunction
    <2> QED
      BY <1>4, <2>2
  <1>6. \A x \in X : f[x] = cost[x[1]][x[2]]
    BY <1>2
  <1>7. IsFiniteSet(X) /\ SumFunctionOnSet(f, X) = SumFunctionOnSet(g, I)
    <2>1. X = Pairs(I, of) /\ IsFiniteSet(I) /\ \A i \in I : IsFiniteSet(of[i])
      BY <1>1 DEF AllPieces, IsWindows
    <2> HIDE DEF of, cost
    <2> QED
      BY <1>5, <1>6, <2>1, SumOfSums
  <1>8. ASSUME NEW i \in I, NEW t \in Within(win, i)
        PROVE  \E x \in X : x[1] = i /\ t \in MinutesOf(x[2])
    <2>1. PICK p \in of[i] : t \in MinutesOf(p)
      BY <1>1
    <2>2. <<i, p>> \in X
      BY <1>3
    <2> QED
      BY <2>1, <2>2
  <1>9. ASSUME NEW x \in X, NEW y \in X, x # y, x[1] = y[1]
        PROVE  MinutesOf(x[2]) \cap MinutesOf(y[2]) = {}
    <2>1. x[2] # y[2] /\ x[1] \in I /\ x[2] \in of[x[1]] /\ y[2] \in of[x[1]]
      BY <1>2, <1>9
    <2> HIDE DEF of
    <2> QED
      BY <1>1, <2>1
  <1>10. ASSUME NEW x \in X
         PROVE  /\ x[1] \in I
                /\ x[2] \in Pieces(RuleBoundaries(rules, win[x[1]][1], win[x[1]][2]))
                /\ x[2][1] \in MinutesOf(x[2]) /\ MinutesOf(x[2]) \subseteq Within(win, x[1])
                /\ IsFiniteSet(MinutesOf(x[2]))
                /\ RuleAt(rules, x[2][1]) \in DOMAIN rules
                /\ f[x] = SectionCost(rules[RuleAt(rules, x[2][1])])[Cardinality(MinutesOf(x[2]))]
    <2>1. x[1] \in I /\ x[2] \in of[x[1]] /\ f[x] = AmountOf(rules, x[2])
      BY <1>2
    <2> HIDE DEF of
    <2> QED
      BY <1>1, <1>4, <2>1
  <1> QED
    BY <1>7, <1>8, <1>9, <1>10 DEF ArePieces

-----------------------------------------------------------------------------
(* A section by its merged windows. *)

\* The pieces of the merged windows of a section.
MergedWindow(s) == [q \in Merged(s) |-> q]
MergedPieces(s) == AllPieces(PriceInfo[s], Merged(s), MergedWindow(s))

\* The pieces of the merged windows are a partition of the minutes the section is used.
LEMMA MergedPiecesAre ==
    ASSUME Kept, NEW s \in Priced
    PROVE  /\ IsWindows(Merged(s), MergedWindow(s))
           /\ \A q \in Merged(s) : Within(MergedWindow(s), q) = MinutesOf(q)
           /\ \A x, y \in MergedPieces(s) : x # y => MinutesOf(x[2]) \cap MinutesOf(y[2]) = {}
           /\ \A w \in WindowsOf(s) : \A t \in w.from..(w.to - 1) :
                 \E x \in MergedPieces(s) : t \in MinutesOf(x[2])
           /\ \A x \in MergedPieces(s) : \A t \in MinutesOf(x[2]) :
                 \E w \in WindowsOf(s) : t \in w.from..(w.to - 1)
  <1> DEFINE M == Merged(s)
             win == MergedWindow(s)
             X == MergedPieces(s)
             f == [x \in X |-> AmountOf(PriceInfo[s], x[2])]
             g == [q \in M |-> SectionPrice(PriceInfo[s], win[q][1], win[q][2])]
  <1>1. IsWindows(M, win) /\ \A q \in M : Within(win, q) = MinutesOf(q)
    <2>1. IsFiniteSet(M) /\ \A q \in M : q[1] \in Nat /\ q[2] \in Nat /\ q[1] < q[2]
      BY MergedOK
    <2>2. \A q \in M : win[q] = q
      BY DEF MergedWindow
    <2> HIDE DEF win, M
    <2> QED
      BY <2>1, <2>2 DEF IsWindows, Within, MinutesOf
  <1>2. /\ \A x \in X : x[1] \in M /\ MinutesOf(x[2]) \subseteq Within(win, x[1])
        /\ \A q \in M : \A t \in Within(win, q) : \E x \in X : x[1] = q /\ t \in MinutesOf(x[2])
        /\ \A x, y \in X : x # y /\ x[1] = y[1] => MinutesOf(x[2]) \cap MinutesOf(y[2]) = {}
    <2>1. X = AllPieces(PriceInfo[s], M, win)
      BY DEF MergedPieces
    <2>2. \A x \in X : f[x] = AmountOf(PriceInfo[s], x[2])
      OBVIOUS
    <2>3. \A q \in M : g[q] = SectionPrice(PriceInfo[s], win[q][1], win[q][2])
      OBVIOUS
    <2>4. /\ IsList(PriceInfo[s]) /\ Range(PriceInfo[s]) \subseteq SectionRules /\ PriceInfo[s] # <<>>
          /\ IsWindows(M, win)
      BY <1>1, PricedOK
    <2> HIDE DEF M, win, X, f, g
    <2>5. ArePieces(X, M, win)
      BY <2>1, <2>2, <2>3, <2>4, PricesArePieces
    <2> QED
      BY <2>5 DEF ArePieces
  <1>3. ASSUME NEW x \in X, NEW y \in X, x # y
        PROVE  MinutesOf(x[2]) \cap MinutesOf(y[2]) = {}
    <2>1. CASE x[1] = y[1]
      BY <1>2, <1>3, <2>1
    <2>2. CASE x[1] # y[1]
      <3>1. MinutesOf(x[1]) \cap MinutesOf(y[1]) = {}
        BY <1>2, <2>2, MergedAre
      <3>2. MinutesOf(x[2]) \subseteq MinutesOf(x[1]) /\ MinutesOf(y[2]) \subseteq MinutesOf(y[1])
        BY <1>1, <1>2
      <3> QED
        BY <3>1, <3>2
    <2> QED
      BY <2>1, <2>2
  <1>4. ASSUME NEW w \in WindowsOf(s), NEW t \in w.from..(w.to - 1)
        PROVE  \E x \in X : t \in MinutesOf(x[2])
    <2>1. w.from \in Nat /\ w.to \in Nat
      BY FlownOK DEF WindowsOf
    <2>2. PICK q \in M : q[1] <= w.from /\ w.to <= q[2]
      BY MergedAre
    <2>3. q[1] \in Nat /\ q[2] \in Nat
      BY MergedOK
    <2>4. t \in MinutesOf(q)
      BY <2>1, <2>2, <2>3 DEF MinutesOf
    <2> QED
      BY <1>1, <1>2, <2>4
  <1>5. ASSUME NEW x \in X, NEW t \in MinutesOf(x[2])
        PROVE  \E w \in WindowsOf(s) : t \in w.from..(w.to - 1)
    <2>1. x[1] \in M /\ t \in MinutesOf(x[1])
      BY <1>1, <1>2
    <2> QED
      BY <2>1, MergedAre
  <1> QED
    BY <1>1, <1>3, <1>4, <1>5

\* What a section costs together is what these pieces cost, each by the rule that counts in
\* all of it.
LEMMA MergedPrices ==
    ASSUME Kept, NEW s \in Priced,
           NEW f, \A x \in MergedPieces(s) : f[x] = AmountOf(PriceInfo[s], x[2])
    PROVE  /\ IsFiniteSet(MergedPieces(s)) /\ SectionTotal(s) = SumFunctionOnSet(f, MergedPieces(s))
           /\ \A x \in MergedPieces(s) :
                 /\ x[1] \in Merged(s) /\ x[2] \in Pieces(RuleBoundaries(PriceInfo[s], x[1][1], x[1][2]))
                 /\ x[2][1] \in MinutesOf(x[2]) /\ IsFiniteSet(MinutesOf(x[2]))
           /\ \A x \in MergedPieces(s) :
                 /\ RuleAt(PriceInfo[s], x[2][1]) \in DOMAIN PriceInfo[s]
                 /\ f[x] = SectionCost(PriceInfo[s][RuleAt(PriceInfo[s], x[2][1])])[Cardinality(MinutesOf(x[2]))]
           /\ (\A r \in Range(PriceInfo[s]) : ~Frayed(r)) =>
                 \A x \in MergedPieces(s) : \A t \in MinutesOf(x[2]) :
                    RuleAt(PriceInfo[s], t) = RuleAt(PriceInfo[s], x[2][1])
  <1> DEFINE rules == PriceInfo[s]
             M == Merged(s)
             win == MergedWindow(s)
             X == MergedPieces(s)
             total == [q \in M |-> SectionPrice(rules, q[1], q[2])]
  <1>1. SectionTotal(s) = SumFunctionOnSet(total, M)
    BY DEF SectionTotal, SumFunction
  <1>2. IsList(rules) /\ Range(rules) \subseteq SectionRules /\ rules # <<>> /\ IsWindows(M, win)
    BY PricedOK, MergedPiecesAre
  <1>3. /\ ArePieces(X, M, win) /\ SumFunctionOnSet(f, X) = SumFunctionOnSet(total, M)
        /\ \A x \in X : /\ x[2] \in Pieces(RuleBoundaries(rules, win[x[1]][1], win[x[1]][2]))
                        /\ RuleAt(rules, x[2][1]) \in DOMAIN rules
                        /\ f[x] = SectionCost(rules[RuleAt(rules, x[2][1])])[Cardinality(MinutesOf(x[2]))]
    <2>1. X = AllPieces(rules, M, win)
      BY DEF MergedPieces
    <2>2. \A x \in X : f[x] = AmountOf(rules, x[2])
      OBVIOUS
    <2>3. \A q \in M : total[q] = SectionPrice(rules, win[q][1], win[q][2])
      BY DEF MergedWindow
    <2> HIDE DEF M, win, X, total, rules
    <2> QED
      BY <1>2, <2>1, <2>2, <2>3, PricesArePieces
  <1>4. /\ IsFiniteSet(X)
        /\ \A x \in X : /\ x[1] \in M /\ x[2][1] \in MinutesOf(x[2]) /\ IsFiniteSet(MinutesOf(x[2]))
    <2> HIDE DEF M, win, X
    <2> QED
      BY <1>3 DEF ArePieces
  <1>5. \A x \in X : win[x[1]] = x[1]
    BY <1>4 DEF MergedWindow
  <1>6. \A x \in X : x[1] \in M /\ x[2] \in Pieces(RuleBoundaries(rules, x[1][1], x[1][2]))
    BY <1>3, <1>4, <1>5
  <1>7. ASSUME \A r \in Range(rules) : ~Frayed(r), NEW x \in X, NEW t \in MinutesOf(x[2])
        PROVE  RuleAt(rules, t) = RuleAt(rules, x[2][1])
    <2>1. x[1][1] \in Nat /\ x[1][2] \in Nat /\ x[1][1] < x[1][2]
      BY <1>4, MergedOK
    <2> HIDE DEF win, X
    <2> QED
      BY <1>2, <1>6, <1>7, <2>1, RuleIsSteady
  <1> HIDE DEF M, win, X, total
  <1>8. SectionTotal(s) = SumFunctionOnSet(f, X)
    BY <1>1, <1>3
  <1> QED
    BY <1>3, <1>4, <1>6, <1>7, <1>8 DEF X, M

\* What a section costs together is its bill by the minute, rounded up piece by piece.
LEMMA SectionCovered ==
    ASSUME Kept, NEW s \in Flown, \A r \in Range(PriceInfo[s]) : ~Frayed(r)
    PROVE  /\ SectionTotal(s) \in Nat /\ SectionBill(s) \in Nat /\ SectionBill(s) <= SectionTotal(s)
           /\ (\A r \in Range(PriceInfo[s]) : r.unit = 1) => SectionBill(s) = SectionTotal(s)
  <1> DEFINE rules == PriceInfo[s]
             X == MergedPieces(s)
             f == [x \in X |-> AmountOf(rules, x[2])]
             ts == UNION {w.from..(w.to - 1) : w \in WindowsOf(s)}
             mins(k) == {t \in ts : RuleAt(rules, t) = k}
             used == {k \in DOMAIN rules : mins(k) # {}}
             g == [k \in used |-> RuleAmount(rules[k], Cardinality(mins(k)))]
             part == [x \in X |-> MinutesOf(x[2])]
             key == [x \in X |-> RuleAt(rules, x[2][1])]
             whole == [k \in used |-> mins(k)]
             am == [k \in used |-> SectionCost(rules[k])]
             c == [k \in used |-> SectionRate(rules[k])]
  <1>1. SectionBill(s) = SumFunctionOnSet(g, used)
    BY DEF SectionBill, ByRule, Minutes, SumFunction
  <1>3. /\ s \in Priced /\ IsList(rules) /\ Range(rules) \subseteq SectionRules /\ rules # <<>>
        /\ IsFiniteSet(DOMAIN rules) /\ \A k \in DOMAIN rules : rules[k] \in SectionRules /\ rules[k] \in Range(rules)
    <2>1. s \in Priced
      BY DEF Flown
    <2>2. IsList(rules) /\ Range(rules) \subseteq SectionRules /\ rules # <<>>
      BY <2>1, PricedOK
    <2>3. IsFiniteSet(1..Len(rules))
      BY <2>2, FS_Interval DEF IsList
    <2> QED
      BY <2>1, <2>2, <2>3 DEF IsList, Range
  <1>4. /\ IsFiniteSet(X) /\ SectionTotal(s) = SumFunctionOnSet(f, X)
        /\ \A x \in X : x[2][1] \in MinutesOf(x[2]) /\ IsFiniteSet(MinutesOf(x[2]))
        /\ \A x \in X : /\ RuleAt(rules, x[2][1]) \in DOMAIN rules
                        /\ f[x] = SectionCost(rules[RuleAt(rules, x[2][1])])[Cardinality(MinutesOf(x[2]))]
    <2>1. \A x \in X : f[x] = AmountOf(rules, x[2])
      OBVIOUS
    <2> HIDE DEF f
    <2> QED
      BY <1>3, <2>1, MergedPrices
  <1>5. ASSUME NEW x \in X, NEW t \in MinutesOf(x[2])
        PROVE  RuleAt(rules, t) = RuleAt(rules, x[2][1])
    <2>1. \A y \in X : f[y] = AmountOf(rules, y[2])
      OBVIOUS
    <2> HIDE DEF f
    <2> QED
      BY <1>3, <2>1, MergedPrices
  <1>6. \A t : t \in ts <=> \E x \in X : t \in MinutesOf(x[2])
    BY <1>3, MergedPiecesAre
  <1>7. ASSUME NEW x \in X
        PROVE  /\ key[x] \in used /\ IsFiniteSet(part[x]) /\ Cardinality(part[x]) \in Nat
               /\ \A t \in part[x] : t \in ts /\ RuleAt(rules, t) = key[x]
               /\ f[x] = RuleAmount(rules[key[x]], Cardinality(part[x]))
    <2>1. IsFiniteSet(part[x]) /\ \A t \in part[x] : t \in ts /\ RuleAt(rules, t) = key[x]
      BY <1>4, <1>5, <1>6
    <2>2. key[x] \in DOMAIN rules
      BY <1>4
    <2>3. x[2][1] \in mins(key[x])
      BY <1>4, <2>1
    <2>4. Cardinality(part[x]) \in Nat
      BY <2>1, FS_CardinalityType
    <2>5. f[x] = SectionCost(rules[key[x]])[Cardinality(part[x])]
      BY <1>4
    <2> HIDE DEF f, part
    <2> QED
      BY <2>1, <2>2, <2>3, <2>4, <2>5 DEF SectionCost
  <1>8. ASSUME NEW k \in used
        PROVE  whole[k] = United(Keyed(X, key, k), part) /\ whole[k] # {}
    <2>1. ASSUME NEW t \in whole[k]
          PROVE  t \in United(Keyed(X, key, k), part)
      <3>1. t \in ts /\ RuleAt(rules, t) = k
        OBVIOUS
      <3>2. PICK x \in X : t \in MinutesOf(x[2])
        BY <1>6, <3>1
      <3>3. key[x] = k
        BY <1>5, <3>1, <3>2
      <3> HIDE DEF X
      <3> QED
        BY <3>2, <3>3 DEF United, Keyed
    <2>2. ASSUME NEW t \in United(Keyed(X, key, k), part)
          PROVE  t \in whole[k]
      <3>1. PICK x \in X : key[x] = k /\ t \in part[x]
        BY DEF United, Keyed
      <3>2. t \in ts /\ RuleAt(rules, t) = k
        BY <1>7, <3>1
      <3> QED
        BY <3>2
    <2>3. whole[k] # {}
      OBVIOUS
    <2> QED
      BY <2>1, <2>2, <2>3
  <1>9. IsFiniteSet(used)
    BY <1>3, FS_Subset
  <1>10. IsFiniteSet(ts)
    <2> DEFINE span == [w \in WindowsOf(s) |-> w.from..(w.to - 1)]
               n == [w \in WindowsOf(s) |-> Cardinality(span[w])]
    <2>1. IsFiniteSet(WindowsOf(s)) /\ \A w \in WindowsOf(s) : IsFiniteSet(span[w])
      <3>1. \A w \in WindowsOf(s) : w.from \in Int /\ w.to - 1 \in Int
        BY FlownOK DEF WindowsOf
      <3> QED
        BY <3>1, MergedOK, FS_Interval
    <2>2. \A w \in WindowsOf(s) : n[w] = Cardinality(span[w])
      OBVIOUS
    <2>3. IsFiniteSet(United(WindowsOf(s), span))
      <3> HIDE DEF span, n
      <3> QED
        BY <2>1, <2>2, CountUnion
    <2>4. United(WindowsOf(s), span) = ts
      BY DEF United
    <2> QED
      BY <2>3, <2>4
  <1>11. ASSUME NEW k \in used
         PROVE  /\ Cardinality(whole[k]) \in Nat
                /\ g[k] = RuleAmount(rules[k], Cardinality(whole[k]))
                /\ k \in DOMAIN rules /\ rules[k] \in SectionRules /\ rules[k] \in Range(rules)
    <2>1. IsFiniteSet(mins(k))
      BY <1>10, FS_Subset
    <2>2. Cardinality(mins(k)) \in Nat
      BY <2>1, FS_CardinalityType
    <2> QED
      BY <1>3, <2>2
  <1>12. /\ SumFunctionOnSet(g, used) \in Nat /\ SumFunctionOnSet(f, X) \in Nat
         /\ SumFunctionOnSet(g, used) <= SumFunctionOnSet(f, X)
    <2>1. \A k \in used : IsAmount(am[k]) /\ g[k] = am[k][Cardinality(whole[k])]
      BY <1>11, RulesAreAmounts DEF SectionCost
    <2>2. \A x \in X : key[x] \in used /\ f[x] = am[key[x]][Cardinality(part[x])] /\ IsFiniteSet(part[x])
      BY <1>7 DEF SectionCost
    <2>3. \A k \in used : whole[k] # {} /\ whole[k] \subseteq United(Keyed(X, key, k), part)
      BY <1>8
    <2>4. IsCover(X, part, used, key, whole, am, f, g)
      <3> HIDE DEF g, f, X, used, part, key, whole, am
      <3> QED
        BY <1>4, <1>9, <2>1, <2>2, <2>3 DEF IsCover
    <2> HIDE DEF g, f, X, used, part, key, whole, am
    <2> QED
      BY <2>4, CoverCost
  <1>13. ASSUME \A r \in Range(rules) : r.unit = 1
         PROVE  SumFunctionOnSet(g, used) = SumFunctionOnSet(f, X)
    <2>1. ASSUME NEW k \in used
          PROVE  c[k] \in Nat /\ \A n \in Nat : RuleAmount(rules[k], n) = c[k] * n
      <3>1. rules[k] \in SectionRules /\ rules[k].unit = 1
        BY <1>11, <1>13
      <3>2. /\ SectionRate(rules[k]) \in Nat
            /\ \A n \in Nat : SectionCost(rules[k])[n] = SectionRate(rules[k]) * n
        BY <3>1, RulesAreAmounts
      <3> QED
        BY <3>2 DEF SectionCost
    <2>2. \A k \in used : g[k] = c[k] * Cardinality(whole[k]) /\ c[k] \in Nat
      BY <1>11, <2>1
    <2>3. \A x \in X : key[x] \in used /\ f[x] = c[key[x]] * Cardinality(part[x]) /\ IsFiniteSet(part[x])
      BY <1>7, <2>1
    <2>4. \A k \in used : whole[k] = United(Keyed(X, key, k), part)
      BY <1>8
    <2>5. \A x, y \in X : x # y => part[x] \cap part[y] = {}
      BY <1>3, MergedPiecesAre
    <2>6. IsExactCover(X, part, used, key, whole, c, f, g)
      <3> HIDE DEF g, f, X, used, part, key, whole, c
      <3> QED
        BY <1>4, <1>9, <2>2, <2>3, <2>4, <2>5 DEF IsExactCover
    <2> HIDE DEF g, f, X, used, part, key, whole, c
    <2> QED
      BY <2>6, ExactCost
  <1> HIDE DEF g, f, X, used
  <1> QED
    BY <1>1, <1>4, <1>12, <1>13

-----------------------------------------------------------------------------
(* Together and one by one. *)

\* Merged, the windows of a section cost no more than one by one: every piece of one of
\* them lies in a piece of the merged one, at the same rule.
Children(s) == {k \in DOMAIN order.flown : order.flown[k].section = s}
ChildWindow(s) == [k \in Children(s) |-> <<order.flown[k].from, order.flown[k].to>>]
ChildPieces(s) == AllPieces(PriceInfo[s], Children(s), ChildWindow(s))

\* The children of a section are its windows.
LEMMA ChildrenAre ==
    ASSUME Kept, NEW s \in Priced
    PROVE  /\ IsWindows(Children(s), ChildWindow(s))
           /\ \A k \in Children(s) : /\ order.flown[k] \in WindowsOf(s)
                                     /\ ChildWindow(s)[k][1] = order.flown[k].from
                                     /\ ChildWindow(s)[k][2] = order.flown[k].to
           /\ \A w \in WindowsOf(s) : \E k \in Children(s) : w = order.flown[k]
  <1>1. IsFiniteSet(Children(s))
    BY FlownOK, FS_Subset DEF Children
  <1>2. ASSUME NEW k \in Children(s)
        PROVE  /\ order.flown[k] \in WindowsOf(s)
               /\ ChildWindow(s)[k][1] = order.flown[k].from
               /\ ChildWindow(s)[k][2] = order.flown[k].to
               /\ order.flown[k].from \in Nat /\ order.flown[k].to \in Nat
               /\ order.flown[k].from < order.flown[k].to
    <2>1. k \in DOMAIN order.flown /\ order.flown[k].section = s
      BY DEF Children
    <2>2. order.flown[k] \in Range(order.flown)
      BY <2>1, FlownOK
    <2>3. ChildWindow(s)[k] = <<order.flown[k].from, order.flown[k].to>>
      BY DEF ChildWindow
    <2> QED
      BY <2>1, <2>2, <2>3, FlownOK DEF WindowsOf
  <1>3. \A w \in WindowsOf(s) : \E k \in Children(s) : w = order.flown[k]
    BY DEF WindowsOf, Children, Range
  <1>4. IsWindows(Children(s), ChildWindow(s))
    BY <1>1, <1>2 DEF IsWindows
  <1> QED
    BY <1>2, <1>3, <1>4

\* Every piece of a child's window lies in one piece of a merged window.
LEMMA PieceInPiece ==
    ASSUME Kept, NEW s \in Priced, NEW w \in WindowsOf(s),
           NEW r \in Pieces(RuleBoundaries(PriceInfo[s], w.from, w.to))
    PROVE  \E y \in MergedPieces(s) : MinutesOf(r) \subseteq MinutesOf(y[2])
  <1> DEFINE rules == PriceInfo[s]
             f == [x \in MergedPieces(s) |-> AmountOf(rules, x[2])]
  <1>1. w.from \in Nat /\ w.to \in Nat /\ w.from < w.to
    BY FlownOK DEF WindowsOf
  <1>2. /\ r[1] \in Nat /\ r[2] \in Nat /\ w.from <= r[1] /\ r[1] < r[2] /\ r[2] <= w.to
        /\ r[1] \in MinutesOf(r)
    <2>1. WellCut(Pieces(RuleBoundaries(rules, w.from, w.to)), w.from, w.to)
      BY <1>1, WindowPieces
    <2> HIDE DEF rules
    <2> QED
      BY <2>1 DEF WellCut, rules
  <1>3. ~\E c \in RuleBoundaries(rules, w.from, w.to) : r[1] < c /\ c < r[2]
    BY <1>1, WindowPieces
  <1>4. PICK q \in Merged(s) : q[1] <= w.from /\ w.to <= q[2]
    BY MergedAre
  <1>5. q[1] \in Nat /\ q[2] \in Nat /\ q[1] < q[2]
    BY MergedOK
  <1>6. PICK y \in MergedPieces(s) : r[1] \in MinutesOf(y[2])
    <2>1. r[1] \in w.from..(w.to - 1)
      BY <1>1, <1>2
    <2> QED
      BY <2>1, MergedPiecesAre
  <1>7. y[1] = q /\ y[2] \in Pieces(RuleBoundaries(rules, y[1][1], y[1][2]))
    <2>1. \A x \in MergedPieces(s) : f[x] = AmountOf(PriceInfo[s], x[2])
      OBVIOUS
    <2> HIDE DEF f
    <2>2. y[1] \in Merged(s) /\ y[2] \in Pieces(RuleBoundaries(rules, y[1][1], y[1][2]))
      BY <2>1, MergedPrices
    <2>3. y[1][1] \in Nat /\ y[1][2] \in Nat /\ y[1][1] < y[1][2]
      BY <2>2, MergedOK
    <2>4. MinutesOf(y[2]) \subseteq MinutesOf(y[1])
      <3>1. WellCut(Pieces(RuleBoundaries(rules, y[1][1], y[1][2])), y[1][1], y[1][2])
        BY <2>3, WindowPieces
      <3> QED
        BY <2>2, <3>1 DEF WellCut, MinutesOf
    <2>5. r[1] \in MinutesOf(q)
      BY <1>1, <1>2, <1>4, <1>5 DEF MinutesOf
    <2>6. y[1] = q
      BY <1>6, <2>2, <2>4, <2>5, MergedAre
    <2> QED
      BY <2>2, <2>6
  <1> DEFINE p == y[2]
  <1>8. /\ p[1] \in Nat /\ p[2] \in Nat /\ p[1] < p[2] /\ p[2] \in RuleBoundaries(rules, q[1], q[2])
        /\ p[1] <= r[1] /\ r[1] < p[2]
    <2>1. p \in Pieces(RuleBoundaries(rules, q[1], q[2]))
      BY <1>7
    <2>2. WellCut(Pieces(RuleBoundaries(rules, q[1], q[2])), q[1], q[2])
      BY <1>5, WindowPieces
    <2>3. p[1] \in Nat /\ p[2] \in Nat /\ p[1] < p[2]
      <3> HIDE DEF p
      <3> QED
        BY <2>1, <2>2 DEF WellCut
    <2>4. p[2] \in RuleBoundaries(rules, q[1], q[2])
      <3> HIDE DEF p
      <3> QED
        BY <2>1 DEF Pieces
    <2>5. p[1] <= r[1] /\ r[1] < p[2]
      BY <1>2, <1>6, <2>3 DEF MinutesOf
    <2> QED
      BY <2>3, <2>4, <2>5
  <1> HIDE DEF p
  <1>9. r[2] <= p[2]
    <2> SUFFICES ASSUME p[2] < r[2] PROVE FALSE
      BY <1>2, <1>8
    <2>1. w.from < p[2] /\ p[2] < w.to
      BY <1>1, <1>2, <1>8
    <2>2. Range(rules) \subseteq SectionRules
      BY PricedOK
    <2>3. p[2] \in RuleBoundaries(rules, w.from, w.to)
      BY <1>1, <1>4, <1>5, <1>8, <2>1, <2>2, CutIsCut
    <2> QED
      BY <1>3, <1>8, <2>3
  <1>10. MinutesOf(r) \subseteq MinutesOf(p)
    BY <1>2, <1>8, <1>9 DEF MinutesOf
  <1> QED
    BY <1>10 DEF p

\* A section costs together no more than its children one by one.
LEMMA SectionNoDearer ==
    ASSUME Kept, NEW s \in Flown, \A r \in Range(PriceInfo[s]) : ~Frayed(r),
           NEW each,
           \A k \in Children(s) : each[k] = SectionPrice(PriceInfo[s], order.flown[k].from, order.flown[k].to)
    PROVE  SectionTotal(s) <= SumFunctionOnSet(each, Children(s))
  <1> DEFINE rules == PriceInfo[s]
             J == Children(s)
             win == ChildWindow(s)
             X == ChildPieces(s)
             K == MergedPieces(s)
             f == [x \in X |-> AmountOf(rules, x[2])]
             g == [y \in K |-> AmountOf(rules, y[2])]
             in(x, y) == MinutesOf(x[2]) \subseteq MinutesOf(y[2])
             key == [x \in X |-> CHOOSE y \in K : in(x, y)]
             part == [x \in X |-> MinutesOf(x[2])]
             whole == [y \in K |-> MinutesOf(y[2])]
             am == [y \in K |-> SectionCost(rules[RuleAt(rules, y[2][1])])]
  <1>1. /\ s \in Priced /\ IsList(rules) /\ Range(rules) \subseteq SectionRules /\ rules # <<>>
        /\ \A k \in DOMAIN rules : rules[k] \in SectionRules
    <2>1. s \in Priced
      BY DEF Flown
    <2> QED
      BY <2>1, PricedOK DEF Range
  <1>2. /\ ArePieces(X, J, win) /\ SumFunctionOnSet(f, X) = SumFunctionOnSet(each, J)
        /\ \A x \in X : /\ x[2] \in Pieces(RuleBoundaries(rules, win[x[1]][1], win[x[1]][2]))
                        /\ f[x] = SectionCost(rules[RuleAt(rules, x[2][1])])[Cardinality(MinutesOf(x[2]))]
    <2>1. X = AllPieces(rules, J, win)
      BY DEF ChildPieces
    <2>2. \A x \in X : f[x] = AmountOf(rules, x[2])
      OBVIOUS
    <2>3. \A k \in J : each[k] = SectionPrice(rules, win[k][1], win[k][2])
      BY <1>1, ChildrenAre
    <2>4. IsWindows(J, win)
      BY <1>1, ChildrenAre
    <2> HIDE DEF J, win, X, f, rules
    <2> QED
      BY <1>1, <2>1, <2>2, <2>3, <2>4, PricesArePieces
  <1>3. /\ IsFiniteSet(X)
        /\ \A x \in X : x[1] \in J /\ x[2][1] \in MinutesOf(x[2]) /\ IsFiniteSet(MinutesOf(x[2]))
        /\ \A k \in J : \A t \in Within(win, k) : \E x \in X : x[1] = k /\ t \in MinutesOf(x[2])
    <2> HIDE DEF J, win, X
    <2> QED
      BY <1>2 DEF ArePieces
  <1>4. /\ IsFiniteSet(K) /\ SectionTotal(s) = SumFunctionOnSet(g, K)
        /\ \A y \in K : y[2][1] \in MinutesOf(y[2]) /\ IsFiniteSet(MinutesOf(y[2]))
        /\ \A y \in K : /\ RuleAt(rules, y[2][1]) \in DOMAIN rules
                        /\ g[y] = SectionCost(rules[RuleAt(rules, y[2][1])])[Cardinality(MinutesOf(y[2]))]
        /\ \A y \in K : \A t \in MinutesOf(y[2]) : RuleAt(rules, t) = RuleAt(rules, y[2][1])
    <2>1. \A y \in K : g[y] = AmountOf(rules, y[2])
      OBVIOUS
    <2> HIDE DEF g
    <2>2. /\ IsFiniteSet(K) /\ SectionTotal(s) = SumFunctionOnSet(g, K)
          /\ \A y \in K : y[2][1] \in MinutesOf(y[2]) /\ IsFiniteSet(MinutesOf(y[2]))
      BY <1>1, <2>1, MergedPrices
    <2>3. \A y \in K : /\ RuleAt(rules, y[2][1]) \in DOMAIN rules
                        /\ g[y] = SectionCost(rules[RuleAt(rules, y[2][1])])[Cardinality(MinutesOf(y[2]))]
      BY <1>1, <2>1, MergedPrices
    <2>4. \A y \in K : \A t \in MinutesOf(y[2]) : RuleAt(rules, t) = RuleAt(rules, y[2][1])
      BY <1>1, <2>1, MergedPrices
    <2> QED
      BY <2>2, <2>3, <2>4
  <1>5. ASSUME NEW x \in X
        PROVE  /\ key[x] \in K /\ MinutesOf(x[2]) \subseteq MinutesOf(key[x][2])
               /\ RuleAt(rules, x[2][1]) = RuleAt(rules, key[x][2][1])
    <2>1. x[1] \in J
      BY <1>3
    <2> DEFINE w == order.flown[x[1]]
    <2>2. w \in WindowsOf(s) /\ x[2] \in Pieces(RuleBoundaries(rules, w.from, w.to))
      <3> HIDE DEF X
      <3> QED
        BY <1>1, <1>2, <2>1, ChildrenAre
    <2>3. \E y \in K : in(x, y)
      <3> HIDE DEF w
      <3> QED
        BY <1>1, <2>2, PieceInPiece
    <2>4. key[x] \in K /\ in(x, key[x])
      BY <2>3
    <2> HIDE DEF key, X, K
    <2> QED
      BY <1>3, <1>4, <2>4
  <1>6. ASSUME NEW y \in K
        PROVE  /\ whole[y] # {} /\ whole[y] \subseteq United(Keyed(X, key, y), part)
               /\ IsAmount(am[y]) /\ g[y] = am[y][Cardinality(whole[y])]
    <2>1. ASSUME NEW t \in MinutesOf(y[2])
          PROVE  t \in United(Keyed(X, key, y), part)
      <3>1. PICK w \in WindowsOf(s) : t \in w.from..(w.to - 1)
        BY <1>1, MergedPiecesAre
      <3>2. PICK k \in J : w = order.flown[k]
        BY <1>1, ChildrenAre
      <3>3. t \in Within(win, k)
        BY <1>1, <3>1, <3>2, ChildrenAre DEF Within
      <3>4. PICK x \in X : t \in MinutesOf(x[2])
        BY <1>3, <3>3
      <3>5. key[x] = y
        BY <1>1, <1>5, <2>1, <3>4, MergedPiecesAre
      <3> HIDE DEF X, key, K
      <3> QED
        BY <3>4, <3>5 DEF United, Keyed
    <2>2. IsAmount(am[y])
      <3>1. rules[RuleAt(rules, y[2][1])] \in SectionRules
        BY <1>1, <1>4
      <3> QED
        BY <3>1, RulesAreAmounts
    <2>3. g[y] = am[y][Cardinality(whole[y])]
      BY <1>4
    <2> QED
      BY <1>4, <2>1, <2>2, <2>3
  <1>7. ASSUME NEW x \in X
        PROVE  /\ IsFiniteSet(part[x]) /\ key[x] \in K
               /\ f[x] = am[key[x]][Cardinality(part[x])]
    <2>1. f[x] = SectionCost(rules[RuleAt(rules, key[x][2][1])])[Cardinality(MinutesOf(x[2]))]
      BY <1>2, <1>5
    <2>2. am[key[x]] = SectionCost(rules[RuleAt(rules, key[x][2][1])])
      BY <1>5
    <2> HIDE DEF f, key, am
    <2> QED
      BY <1>3, <1>5, <2>1, <2>2
  <1>8. IsCover(X, part, K, key, whole, am, f, g)
    <2> HIDE DEF X, part, K, key, whole, am, f, g
    <2> QED
      BY <1>3, <1>4, <1>6, <1>7 DEF IsCover
  <1>9. SumFunctionOnSet(g, K) <= SumFunctionOnSet(f, X)
    <2> HIDE DEF X, part, K, key, whole, am, f, g
    <2> QED
      BY <1>8, CoverCost
  <1> HIDE DEF g, K, f, X, J
  <1> QED
    BY <1>2, <1>4, <1>9 DEF J

-----------------------------------------------------------------------------
(* The sections together, and the bill. *)

\* All sections together: rounded up piece by piece, and no dearer than one by one.
LEMMA SectionsCovered ==
    ASSUME Kept, \A r \in FlownRules : ~Frayed(r)
    PROVE  /\ Covers(InternalSectionPrices.total, SumFunction([s \in Flown |-> SectionBill(s)]), FlownRules)
           /\ InternalSectionPrices.total <= SumFunction(InternalSectionPrices.each)
  <1> DEFINE total == [s \in Flown |-> SectionTotal(s)]
             exact == [s \in Flown |-> SectionBill(s)]
             each == [k \in DOMAIN order.flown |-> ChildAmount(order.flown[k])]
             all == DOMAIN order.flown
             mine == {k \in all : order.flown[k].section \in Flown}
             rest == all \ mine
             key == [k \in mine |-> order.flown[k].section]
             apart == [s \in Flown |-> SumFunctionOnSet(each, Keyed(mine, key, s))]
  <1>1. IsFiniteSet(Flown) /\ Flown \subseteq Priced
    <2>1. Flown \subseteq DOMAIN PriceInfo /\ IsFiniteSet(DOMAIN PriceInfo)
      BY QuoteAssumption DEF Flown, Priced
    <2> QED
      BY <2>1, FS_Subset DEF Flown
  <1>2. ASSUME NEW s \in Flown
        PROVE  \A r \in Range(PriceInfo[s]) : r \in FlownRules /\ ~Frayed(r)
    BY DEF FlownRules
  <1>3. ASSUME NEW s \in Flown
        PROVE  /\ total[s] \in Nat /\ exact[s] \in Nat /\ exact[s] <= total[s]
               /\ (\A r \in FlownRules : r.unit = 1) => exact[s] = total[s]
    <2>1. /\ SectionTotal(s) \in Nat /\ SectionBill(s) \in Nat /\ SectionBill(s) <= SectionTotal(s)
          /\ (\A r \in Range(PriceInfo[s]) : r.unit = 1) => SectionBill(s) = SectionTotal(s)
      BY <1>2, SectionCovered
    <2> QED
      BY <1>2, <2>1
  <1>4. /\ SumFunctionOnSet(exact, Flown) <= SumFunctionOnSet(total, Flown)
        /\ (\A r \in FlownRules : r.unit = 1) =>
              SumFunctionOnSet(exact, Flown) = SumFunctionOnSet(total, Flown)
    <2> HIDE DEF total, exact
    <2>1. SumFunctionOnSet(exact, Flown) <= SumFunctionOnSet(total, Flown)
      BY <1>1, <1>3, SumLess
    <2>2. ASSUME \A r \in FlownRules : r.unit = 1
          PROVE  SumFunctionOnSet(exact, Flown) = SumFunctionOnSet(total, Flown)
      <3>1. \A s \in Flown : exact[s] \in Int /\ total[s] = exact[s]
        BY <1>3, <2>2
      <3> QED
        BY <1>1, <3>1, SumOfSame
    <2> QED
      BY <2>1, <2>2
  <1>5. /\ IsFiniteSet(all) /\ IsFiniteSet(mine) /\ IsFiniteSet(rest)
        /\ mine \cup rest = all /\ mine \cap rest = {}
        /\ \A k \in all : each[k] \in Nat
        /\ \A k \in mine : key[k] \in Flown
    <2>1. IsFiniteSet(all)
      BY FlownOK
    <2>2. IsFiniteSet(mine) /\ IsFiniteSet(rest)
      BY <2>1, FS_Subset
    <2>3. \A k \in all : each[k] \in Nat
      BY InternalPricesAreNat DEF InternalSectionPrices
    <2> QED
      BY <2>2, <2>1, <2>3
  <1>6. ASSUME NEW s \in Flown
        PROVE  /\ Keyed(mine, key, s) = Children(s) /\ apart[s] \in Nat
               /\ total[s] <= apart[s]
    <2>1. Keyed(mine, key, s) = Children(s)
      BY DEF Keyed, Children
    <2>2. \A k \in Children(s) :
             each[k] = SectionPrice(PriceInfo[s], order.flown[k].from, order.flown[k].to)
      BY <1>1 DEF Children, ChildAmount
    <2>3. SectionTotal(s) <= SumFunctionOnSet(each, Children(s))
      <3> HIDE DEF each
      <3> QED
        BY <1>2, <2>2, SectionNoDearer
    <2>4. SumFunctionOnSet(each, Children(s)) \in Nat
      <3>1. IsFiniteSet(Children(s)) /\ \A k \in Children(s) : k \in all
        BY <1>5, FS_Subset DEF Children
      <3> HIDE DEF each, all
      <3> QED
        BY <1>5, <3>1, SumOfNats
    <2> QED
      BY <2>1, <2>3, <2>4
  <1>7. SumFunctionOnSet(total, Flown) <= SumFunctionOnSet(apart, Flown)
    <2>1. \A s \in Flown : total[s] \in Int /\ apart[s] \in Int /\ total[s] <= apart[s]
      BY <1>3, <1>6
    <2> HIDE DEF total, apart
    <2> QED
      BY <1>1, <2>1, SumLess
  <1>8. SumFunctionOnSet(each, mine) = SumFunctionOnSet(apart, Flown)
    <2>1. \A s \in Flown : apart[s] = SumFunctionOnSet(each, Keyed(mine, key, s))
      OBVIOUS
    <2>2. \A k \in mine : each[k] \in Int
      BY <1>5
    <2> HIDE DEF each, mine, key, apart
    <2> QED
      BY <1>1, <1>5, <2>1, <2>2, SumByKey
  <1>9. SumFunctionOnSet(each, mine) <= SumFunctionOnSet(each, all)
    <2>1. \A k \in mine \cup rest : each[k] \in Int /\ each[k] \in Nat
      BY <1>5
    <2> HIDE DEF each, mine, rest, all
    <2>2. SumFunctionOnSet(each, mine \cup rest)
            = SumFunctionOnSet(each, mine) + SumFunctionOnSet(each, rest)
      BY <1>5, <2>1, SumUnion
    <2>3. SumFunctionOnSet(each, mine) \in Nat /\ SumFunctionOnSet(each, rest) \in Nat
      BY <1>5, <2>1, SumOfNats
    <2>4. mine \cup rest = all
      BY <1>5
    <2>5. SumFunctionOnSet(each, mine) <= SumFunctionOnSet(each, mine \cup rest)
      BY <2>2, <2>3
    <2> QED
      BY <2>4, <2>5
  <1>10. /\ SumFunctionOnSet(total, Flown) \in Nat /\ SumFunctionOnSet(exact, Flown) \in Nat
         /\ SumFunctionOnSet(apart, Flown) \in Nat /\ SumFunctionOnSet(each, all) \in Nat
    <2> HIDE DEF total, exact, apart, each, all
    <2> QED
      BY <1>1, <1>3, <1>5, <1>6, SumOfNats
  <1>11. /\ InternalSectionPrices.total = SumFunctionOnSet(total, Flown)
         /\ SumFunction([s \in Flown |-> SectionBill(s)]) = SumFunctionOnSet(exact, Flown)
         /\ SumFunction(InternalSectionPrices.each) = SumFunctionOnSet(each, all)
    BY DEF InternalSectionPrices, SumFunction
  <1>12. SumFunctionOnSet(total, Flown) <= SumFunctionOnSet(each, all)
    <2> HIDE DEF total, apart, each, all, mine
    <2> QED
      BY <1>7, <1>8, <1>9, <1>10
  <1>13. Covers(SumFunctionOnSet(total, Flown), SumFunctionOnSet(exact, Flown), FlownRules)
    <2> HIDE DEF total, exact
    <2> QED
      BY <1>4, <1>10 DEF Covers
  <1> HIDE DEF total, exact, each, all
  <1> QED
    BY <1>11, <1>12, <1>13

\* A hold that is accepted pays for every aircraft and port at one of its windows, an estimate
\* for what is in our table and has both times, and both for every minute a section is used once, however the windows overlap:
\* never less than the bill by the minute, never more than the children one by one.
THEOREM BilledForEveryMinute == QuoteSpec => []BilledByTheMinute
  <1>1. QuoteInv /\ BillInv => BilledByTheMinute
    <2> SUFFICES ASSUME QuoteInv, BillInv, outcome \in {"accepted", "estimated"}
                 PROVE  BilledByTheMinute
      BY DEF BilledByTheMinute
    <2>1. Kept
      BY DEF QuoteInv
    <2>2. /\ DOMAIN bill = IF outcome = "accepted" THEN AskedFor ELSE OwnTimed
          /\ fees = InternalSectionPrices
      BY DEF BillInv
    <2>3. ASSUME NEW x \in DOMAIN bill,
                 outcome = "accepted" \/ \A i \in TimedUses(x) : Forward(Use(i))
          PROVE  \E i \in TimedUses(x) :
                    Covers(bill[x], TariffBill(x, Use(i).from, Use(i).to), Range(Tariffs[x]))
      <3>1. PICK i \in TimedUses(x) : bill[x] = PriceOf(i)
        BY DEF BillInv
      <3>2. i \in Uses /\ Use(i).what = x /\ Timed(Use(i))
        BY DEF TimedUses
      <3>3. Forward(Use(i))
        BY <2>3, <3>2 DEF QuoteInv, Course, AllForward
      <3>4. x \in DOMAIN Tariffs /\ Use(i).from \in Nat /\ Use(i).to \in Nat /\ Use(i).from < Use(i).to
        BY <2>1, <3>2, <3>3, OrderOK DEF Forward
      <3>5. Covers(ResourcePrice(Tariffs[x], Use(i).from, Use(i).to),
                   TariffBill(x, Use(i).from, Use(i).to), Range(Tariffs[x]))
        BY <3>4, TariffCovered
      <3> QED
        BY <3>1, <3>2, <3>5 DEF PriceOf
    <2>4. ASSUME \A r \in FlownRules : ~Frayed(r)
          PROVE  /\ Covers(fees.total, SumFunction([s \in Flown |-> SectionBill(s)]), FlownRules)
                 /\ fees.total <= SumFunction(fees.each)
      BY <2>1, <2>2, <2>4, SectionsCovered
    <2> QED
      BY <2>2, <2>3, <2>4 DEF BilledByTheMinute
  <1> QED
    BY <1>1, QuoteInvAlways, BillInvAlways, PTL
=============================================================================
