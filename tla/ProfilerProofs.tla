--------------------------- MODULE ProfilerProofs ---------------------------
(***************************************************************************)
(* The task accounting of Profiler is right for any finite set of tasks.   *)
(*                                                                         *)
(* The counters are right because each of them counts the tasks in some    *)
(* set of stages (Counts), and one atomic operation moves one task.  The   *)
(* peak is right because of PeakLaw: a task that is past its loop has its  *)
(* count below the peak, and a count that is not yet covered by the peak   *)
(* is in the hands of a task that is still in its loop.                    *)
(***************************************************************************)
EXTENDS Profiler, FiniteSetTheorems, TLAPS

\* The number of tasks in one of the stages S.
Count(S) == Cardinality({t \in Task : pc[t] \in S})

Begun == Stage \ {"submit"}
Counted == {"load", "loop", "sample", "held", "leave"}
Racing == {"load", "loop"}
Settled == {"sample", "held", "leave", "done"}
Finished == {"leave", "done"}

Types ==
  /\ pc \in [Task -> Stage]
  /\ cur \in [Task -> Nat]
  /\ seen \in [Task -> Nat]
  /\ samples \in Nat
  /\ reporter \in {"idle", "completed", "peak", "done"}
  /\ report \in Report
  /\ quiescent \in BOOLEAN

Counts ==
  /\ submitted = Count(Begun)
  /\ completed = Count(Finished)
  /\ inFlight = Count(Counted)

PeakLaw ==
  /\ peaks \in SUBSET Nat
  /\ high \in Nat
  /\ peak \in peaks
  /\ \A p \in peaks : p <= peak
  /\ peak <= high
  /\ \A t \in Task : seen[t] \in peaks
  /\ \A t \in Task : cur[t] <= high
  /\ \A t \in Task : pc[t] \in Settled => cur[t] <= peak
  /\ high <= peak \/ \E t \in Task : pc[t] \in Racing /\ cur[t] = high

ReportLaw ==
  reporter # "idle" /\ quiescent =>
    /\ AllDone
    /\ report.submitted = submitted
    /\ reporter \in {"peak", "done"} => report.completed = completed
    /\ reporter = "done" => report.peak = peak

IInv == Types /\ Counts /\ PeakLaw /\ ReportLaw

----------------------------------------------------------------------------

\* A count of tasks is a natural number, and nothing but its tasks is in it.
LEMMA CountType ==
  ASSUME NEW S
  PROVE  Count(S) \in Nat
<1>1. IsFiniteSet({t \in Task : pc[t] \in S})
  BY TaskAssumption, FS_Subset
<1> QED
  BY <1>1, FS_CardinalityType DEF Count

LEMMA CountFrame ==
  ASSUME NEW S, UNCHANGED pc
  PROVE  Count(S)' = Count(S)
BY DEF Count

\* A task that moves within S, or outside it, leaves the count of S alone.
LEMMA CountStays ==
  ASSUME NEW S, NEW t \in Task, NEW from, NEW to,
         pc \in [Task -> Stage], Goto(t, from, to), from \in S <=> to \in S
  PROVE  Count(S)' = Count(S)
<1>1. {u \in Task : pc'[u] \in S} = {u \in Task : pc[u] \in S}
  BY DEF Goto
<1> QED
  BY <1>1 DEF Count

\* A task that moves into S adds one to its count.
LEMMA CountUp ==
  ASSUME NEW S, NEW t \in Task, NEW from, NEW to,
         pc \in [Task -> Stage], Goto(t, from, to), from \notin S, to \in S
  PROVE  Count(S)' = Count(S) + 1
<1> DEFINE Old == {u \in Task : pc[u] \in S}
<1>1. {u \in Task : pc'[u] \in S} = Old \cup {t}
  BY DEF Goto
<1>2. t \notin Old
  BY DEF Goto
<1>3. IsFiniteSet(Old)
  BY TaskAssumption, FS_Subset
<1>4. Cardinality(Old \cup {t}) = Cardinality(Old) + 1
  BY <1>2, <1>3, FS_AddElement
<1> QED
  BY <1>1, <1>4 DEF Count

\* A task that moves out of S takes one from its count.
LEMMA CountDown ==
  ASSUME NEW S, NEW t \in Task, NEW from, NEW to,
         pc \in [Task -> Stage], Goto(t, from, to), from \in S, to \notin S
  PROVE  Count(S)' = Count(S) - 1
<1> DEFINE Old == {u \in Task : pc[u] \in S}
<1>1. {u \in Task : pc'[u] \in S} = Old \ {t}
  BY DEF Goto
<1>2. t \in Old
  BY DEF Goto
<1>3. IsFiniteSet(Old)
  BY TaskAssumption, FS_Subset
<1>4. Cardinality(Old \ {t}) = Cardinality(Old) - 1
  BY <1>2, <1>3, FS_RemoveElement
<1> QED
  BY <1>1, <1>4 DEF Count

----------------------------------------------------------------------------

LEMMA InitIInv == Init => IInv
<1> SUFFICES ASSUME Init PROVE IInv
  OBVIOUS
<1>1. Types
  BY DEF Init, Types, Stage, Report
<1>2. ASSUME NEW S, "submit" \notin S PROVE Count(S) = 0
  <2>1. {t \in Task : pc[t] \in S} = {}
    BY <1>2 DEF Init
  <2> QED
    BY <2>1, FS_EmptySet DEF Count
<1>3. Counts
  BY <1>2 DEF Init, Counts, Begun, Finished, Counted
<1>4. PeakLaw
  BY DEF Init, PeakLaw, Settled
<1>5. ReportLaw
  BY DEF Init, ReportLaw
<1> QED
  BY <1>1, <1>3, <1>4, <1>5 DEF IInv

\* Each step of a task keeps every counter equal to the tasks it counts.
LEMMA TaskStepTypes ==
  ASSUME IInv, NEW t \in Task, TaskStep(t)
  PROVE  Types'
<1> USE DEF IInv, Types, Goto, Stage, reportVars
<1>1. CASE Submit(t)
  BY <1>1 DEF Submit
<1>2. CASE Enter(t)
  <2>1. inFlight \in Nat
    BY CountType DEF Counts
  <2> QED
    BY <1>2, <2>1 DEF Enter
<1>3. CASE LoadPeak(t)
  BY <1>3 DEF LoadPeak, PeakLaw
<1>4. CASE LoopExit(t)
  BY <1>4 DEF LoopExit
<1>5. CASE ExchangePeak(t)
  BY <1>5 DEF ExchangePeak
<1>6. CASE ExchangeFails(t)
  BY <1>6 DEF ExchangeFails, PeakLaw
<1>7. CASE Sample(t)
  BY <1>7 DEF Sample
<1>8. CASE Finish(t)
  BY <1>8 DEF Finish
<1>9. CASE Leave(t)
  BY <1>9 DEF Leave
<1> QED
  BY <1>1, <1>2, <1>3, <1>4, <1>5, <1>6, <1>7, <1>8, <1>9 DEF TaskStep

LEMMA TaskStepCounts ==
  ASSUME IInv, NEW t \in Task, TaskStep(t)
  PROVE  Counts'
<1> USE DEF IInv, Types, Counts, Begun, Counted, Finished, Stage
<1>1. CASE Submit(t)
  <2>1. Goto(t, "submit", "enter")
    BY <1>1 DEF Submit
  <2>2. Count(Begun)' = Count(Begun) + 1
    BY <2>1, CountUp
  <2>3. Count(Finished)' = Count(Finished) /\ Count(Counted)' = Count(Counted)
    BY <2>1, CountStays
  <2> QED
    BY <1>1, <2>2, <2>3 DEF Submit
<1>2. CASE Enter(t)
  <2>1. Goto(t, "enter", "load")
    BY <1>2 DEF Enter
  <2>2. Count(Counted)' = Count(Counted) + 1
    BY <2>1, CountUp
  <2>3. Count(Finished)' = Count(Finished) /\ Count(Begun)' = Count(Begun)
    BY <2>1, CountStays
  <2> QED
    BY <1>2, <2>2, <2>3 DEF Enter
<1>3. ASSUME NEW from \in {"load", "loop", "sample"}, NEW to \in {"loop", "sample", "held"},
             Goto(t, from, to), UNCHANGED <<submitted, completed, inFlight>>
      PROVE  Counts'
  <2>1. /\ Count(Begun)' = Count(Begun)
        /\ Count(Finished)' = Count(Finished)
        /\ Count(Counted)' = Count(Counted)
    BY <1>3, CountStays
  <2> QED
    BY <1>3, <2>1
<1>4. CASE LoadPeak(t)
  BY <1>3, <1>4 DEF LoadPeak
<1>5. CASE LoopExit(t)
  BY <1>3, <1>5 DEF LoopExit
<1>6. CASE ExchangePeak(t)
  BY <1>3, <1>6 DEF ExchangePeak
<1>7. CASE ExchangeFails(t)
  BY <1>7, CountFrame DEF ExchangeFails
<1>8. CASE Sample(t)
  BY <1>3, <1>8 DEF Sample
<1>9. CASE Finish(t)
  <2>1. Goto(t, "held", "leave")
    BY <1>9 DEF Finish
  <2>2. Count(Finished)' = Count(Finished) + 1
    BY <2>1, CountUp
  <2>3. Count(Counted)' = Count(Counted) /\ Count(Begun)' = Count(Begun)
    BY <2>1, CountStays
  <2> QED
    BY <1>9, <2>2, <2>3 DEF Finish
<1>10. CASE Leave(t)
  <2>1. Goto(t, "leave", "done")
    BY <1>10 DEF Leave
  <2>2. Count(Counted)' = Count(Counted) - 1
    BY <2>1, CountDown
  <2>3. Count(Finished)' = Count(Finished) /\ Count(Begun)' = Count(Begun)
    BY <2>1, CountStays
  <2> QED
    BY <1>10, <2>2, <2>3 DEF Leave
<1> QED
  BY <1>1, <1>2, <1>4, <1>5, <1>6, <1>7, <1>8, <1>9, <1>10 DEF TaskStep

\* No step of a task loses a peak.
LEMMA TaskStepPeakLaw ==
  ASSUME IInv, NEW t \in Task, TaskStep(t)
  PROVE  PeakLaw'
<1> USE DEF IInv, Types, PeakLaw, Goto, Stage, Settled, Racing
<1>1. CASE Submit(t)
  BY <1>1 DEF Submit
<1>2. CASE Enter(t)
  <2>1. inFlight \in Nat
    BY CountType DEF Counts
  <2>2. /\ pc' = [pc EXCEPT ![t] = "load"]
        /\ cur' = [cur EXCEPT ![t] = inFlight + 1]
        /\ UNCHANGED <<seen, peak, peaks>>
    BY <1>2 DEF Enter
  <2>3. CASE inFlight + 1 > high
    <3>1. high' = inFlight + 1
      BY <1>2, <2>3 DEF Enter
    <3> QED
      BY <2>1, <2>2, <2>3, <3>1
  <2>4. CASE ~(inFlight + 1 > high)
    <3>1. high' = high
      BY <1>2, <2>4 DEF Enter
    <3>2. high' <= peak' \/ \E u \in Task : pc'[u] \in Racing /\ cur'[u] = high'
      <4>1. CASE high <= peak
        BY <2>2, <3>1, <4>1
      <4>2. CASE \E u \in Task : pc[u] \in Racing /\ cur[u] = high
        <5>1. PICK u \in Task : pc[u] \in Racing /\ cur[u] = high
          BY <4>2
        <5>2. u # t
          BY <1>2, <5>1 DEF Enter
        <5> QED
          BY <2>2, <3>1, <5>1, <5>2
      <4> QED
        BY <4>1, <4>2
    <3> QED
      BY <2>1, <2>2, <2>4, <3>1, <3>2
  <2> QED
    BY <2>3, <2>4
<1>3. CASE LoadPeak(t)
  BY <1>3 DEF LoadPeak
<1>4. CASE LoopExit(t)
  <2>1. cur[t] <= peak
    BY <1>4 DEF LoopExit
  <2> QED
    BY <1>4, <2>1 DEF LoopExit
<1>5. CASE ExchangePeak(t)
  <2>1. peak < cur[t] /\ cur[t] <= high
    BY <1>5 DEF ExchangePeak
  <2>2. /\ pc' = [pc EXCEPT ![t] = "sample"]
        /\ peak' = cur[t]
        /\ peaks' = peaks \cup {cur[t]}
        /\ UNCHANGED <<cur, seen, high>>
    BY <1>5 DEF ExchangePeak
  <2>3. high' <= peak' \/ \E u \in Task : pc'[u] \in Racing /\ cur'[u] = high'
    <3>1. PICK u \in Task : pc[u] \in Racing /\ cur[u] = high
      BY <2>1
    <3>2. CASE u = t
      BY <2>2, <3>1, <3>2
    <3>3. CASE u # t
      BY <2>2, <3>1, <3>3
    <3> QED
      BY <3>2, <3>3
  <2>4. /\ peaks' \in SUBSET Nat
        /\ peak' \in peaks'
        /\ \A p \in peaks' : p <= peak'
        /\ peak' <= high'
    <3>1. cur[t] \in Nat /\ peak \in Nat /\ peaks \in SUBSET Nat
      OBVIOUS
    <3>2. peak' = cur[t] /\ peaks' = peaks \cup {cur[t]} /\ high' = high
      BY <2>2
    <3>3. ASSUME NEW p \in peaks PROVE p < cur[t]
      <4>1. p <= peak
        OBVIOUS
      <4> QED
        BY <2>1, <3>1, <4>1
    <3>4. peaks' \in SUBSET Nat /\ peak' \in peaks'
      BY ONLY <3>1, <3>2
    <3>5. ASSUME NEW p \in peaks' PROVE p <= peak'
      <4>1. p \in peaks \/ p = cur[t]
        BY ONLY <3>2, <3>5
      <4>2. CASE p \in peaks
        <5>1. p < cur[t] /\ p \in Nat
          BY ONLY <3>1, <3>3, <4>2
        <5> QED
          BY ONLY <3>1, <3>2, <5>1
      <4>3. CASE p = cur[t]
        BY ONLY <3>1, <3>2, <4>3
      <4> QED
        BY <4>1, <4>2, <4>3
    <3>6. peak' <= high'
      BY <2>1, <3>2
    <3> QED
      BY <3>4, <3>5, <3>6
  <2>5. \A u \in Task : seen'[u] \in peaks' /\ cur'[u] <= high'
    BY <2>2
  <2>6. ASSUME NEW u \in Task, pc'[u] \in Settled PROVE cur'[u] <= peak'
    <3>1. cur[u] \in Nat /\ cur[t] \in Nat /\ peak \in Nat
      OBVIOUS
    <3>2. u = t \/ cur[u] <= peak
      BY <2>2, <2>6
    <3> QED
      BY <2>1, <2>2, <3>1, <3>2
  <2>7. high' \in Nat
    BY <2>2
  <2> QED
    BY <2>3, <2>4, <2>5, <2>6, <2>7
<1>6. CASE ExchangeFails(t)
  BY <1>6 DEF ExchangeFails
<1>7. CASE Sample(t)
  BY <1>7 DEF Sample
<1>8. CASE Finish(t)
  BY <1>8 DEF Finish
<1>9. CASE Leave(t)
  BY <1>9 DEF Leave
<1> QED
  BY <1>1, <1>2, <1>3, <1>4, <1>5, <1>6, <1>7, <1>8, <1>9 DEF TaskStep

\* A task that steps was not done, so no report begun after the last task is
\* disturbed.
LEMMA TaskStepReportLaw ==
  ASSUME IInv, NEW t \in Task, TaskStep(t)
  PROVE  ReportLaw'
<1>1. pc[t] # "done" /\ UNCHANGED reportVars
  BY DEF TaskStep, Goto, Submit, Enter, LoadPeak, LoopExit, ExchangePeak,
         ExchangeFails, Sample, Finish, Leave
<1>2. ~AllDone
  BY <1>1 DEF AllDone
<1> QED
  BY <1>1, <1>2 DEF IInv, ReportLaw, reportVars

LEMMA ReportStepIInv ==
  ASSUME IInv, ReportStep
  PROVE  IInv'
<1>1. UNCHANGED taskVars
  BY DEF ReportStep, BeginReport, ReadCompleted, ReadPeak, EndReport
<1>2. Counts'
  BY <1>1, CountFrame DEF IInv, Counts, taskVars
<1>3. PeakLaw'
  BY <1>1 DEF IInv, PeakLaw, taskVars
<1>4. submitted \in Nat /\ completed \in Nat /\ peaks \subseteq Nat
  BY CountType DEF IInv, Counts, PeakLaw
<1>5. Types' /\ ReportLaw'
  <2> USE DEF IInv, Types, ReportLaw, Report, taskVars, AllDone
  <2>1. CASE BeginReport
    BY <1>1, <1>4, <2>1 DEF BeginReport
  <2>2. CASE ReadCompleted
    BY <1>1, <1>4, <2>2 DEF ReadCompleted
  <2>3. CASE ReadPeak
    BY <1>1, <1>4, <2>3 DEF ReadPeak
  <2>4. CASE EndReport
    BY <1>1, <2>4 DEF EndReport
  <2> QED
    BY <2>1, <2>2, <2>3, <2>4 DEF ReportStep
<1> QED
  BY <1>2, <1>3, <1>5 DEF IInv

LEMMA NextIInv == IInv /\ [Next]_vars => IInv'
<1> SUFFICES ASSUME IInv, [Next]_vars PROVE IInv'
  OBVIOUS
<1>1. ASSUME NEW t \in Task, TaskStep(t) PROVE IInv'
  BY <1>1, TaskStepTypes, TaskStepCounts, TaskStepPeakLaw, TaskStepReportLaw DEF IInv
<1>2. CASE ReportStep
  BY <1>2, ReportStepIInv
<1>3. CASE UNCHANGED vars
  <2>1. Counts'
    BY <1>3, CountFrame DEF IInv, Counts, vars, taskVars
  <2> QED
    BY <1>3, <2>1 DEF IInv, Types, PeakLaw, ReportLaw, AllDone, vars, taskVars, reportVars
<1> QED
  BY <1>1, <1>2, <1>3 DEF Next

LEMMA Inductive == Spec => []IInv
<1> QED
  BY InitIInv, NextIInv, PTL DEF Spec

----------------------------------------------------------------------------

\* The variables keep their types; in particular tasks_in_flight, which the
\* code keeps signed and casts to u64, is never negative.
THEOREM TypeCorrect == Spec => []TypeOK
<1>1. IInv => TypeOK
  <2> SUFFICES ASSUME IInv PROVE TypeOK
    OBVIOUS
  <2>1. submitted \in Nat /\ completed \in Nat /\ inFlight \in Nat
    BY CountType DEF IInv, Counts
  <2> QED
    BY <2>1 DEF IInv, Types, PeakLaw, TypeOK
<1> QED
  BY <1>1, Inductive, PTL

\* tasks_in_flight is the number of tasks between their two updates of it.
THEOREM InFlightIsExact == Spec => []InFlightExact
<1>1. IInv => InFlightExact
  BY DEF IInv, Counts, Count, Counted, InFlightExact, Entered
<1> QED
  BY <1>1, Inductive, PTL

\* task_guard's exchange loop loses no task's peak, and invents none.
THEOREM PeakIsCovered == Spec => []PeakCoversTasks
<1>1. IInv => PeakCoversTasks
  BY DEF IInv, PeakLaw, Settled, PeakCoversTasks
<1> QED
  BY <1>1, Inductive, PTL

\* With no task in the exchange loop, peak_in_flight is the true maximum.
THEOREM PeakIsExact == Spec => []PeakExactWhenSettled
<1>1. IInv => PeakExactWhenSettled
  BY DEF IInv, PeakLaw, Racing, PeakExactWhenSettled
<1> QED
  BY <1>1, Inductive, PTL

\* thread_metrics, once the tasks were joined, reports what happened.
THEOREM ReportIsExact == Spec => []QuiescentReportExact
<1>1. IInv => QuiescentReportExact
  <2> SUFFICES ASSUME IInv, reporter = "done", quiescent
               PROVE  report = [submitted |-> Cardinality(Task),
                                completed |-> Cardinality(Task), peak |-> high]
    BY DEF QuiescentReportExact
  <2>1. AllDone
    BY DEF IInv, ReportLaw
  <2>2. /\ {t \in Task : pc[t] \in Begun} = Task
        /\ {t \in Task : pc[t] \in Finished} = Task
    BY <2>1 DEF AllDone, Begun, Finished, Stage
  <2>3. submitted = Cardinality(Task) /\ completed = Cardinality(Task)
    BY <2>2 DEF IInv, Counts, Count
  <2>4. peak = high
    BY <2>1 DEF AllDone, IInv, PeakLaw, Racing
  <2> QED
    BY <2>3, <2>4 DEF IInv, Types, Report, ReportLaw
<1> QED
  BY <1>1, Inductive, PTL

\* peak_in_flight never goes down.
THEOREM PeakNeverFalls == Spec => PeakMonotone
<1>1. IInv /\ [Next]_vars => [peak' >= peak]_vars
  <2> SUFFICES ASSUME IInv, Next PROVE peak' >= peak
    OBVIOUS
  <2>1. peak \in Nat
    BY DEF IInv, PeakLaw
  <2>2. ASSUME NEW t \in Task, TaskStep(t) PROVE peak' >= peak
    BY <2>1, <2>2 DEF IInv, Types, PeakLaw, TaskStep, Submit, Enter, LoadPeak, LoopExit,
           ExchangePeak, ExchangeFails, Sample, Finish, Leave
  <2>3. CASE ReportStep
    BY <2>1, <2>3 DEF ReportStep, BeginReport, ReadCompleted, ReadPeak, EndReport, taskVars
  <2> QED
    BY <2>2, <2>3 DEF Next
<1> QED
  BY <1>1, Inductive, PTL DEF Spec, PeakMonotone
=============================================================================
