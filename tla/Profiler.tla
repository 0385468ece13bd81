------------------------------ MODULE Profiler ------------------------------
(***************************************************************************)
(* The lock-free task accounting of web-profiler (profiler.rs): task_guard *)
(* and the drop of a TaskGuard, run by any number of tasks at once, and a  *)
(* report taken at any moment.                                             *)
(*                                                                         *)
(* Each task opens one guard and drops it.  A thread of a rayon pool may   *)
(* hold several guards at once (it steals work while it waits), so tasks,  *)
(* not threads, are the processes here.  One action is one atomic          *)
(* operation.  The Relaxed loads of peak_in_flight may return any value    *)
(* the atomic has held, as long as no task sees its values go backwards.   *)
(***************************************************************************)
EXTENDS Integers, FiniteSets

CONSTANT Task

ASSUME TaskAssumption == IsFiniteSet(Task)

VARIABLES
  pc,         \* pc[t]: how far task t is
  cur, seen,  \* the local variables cur and peak of task_guard
  submitted,  \* tasks_submitted
  completed,  \* tasks_completed
  inFlight,   \* tasks_in_flight
  peak,       \* peak_in_flight
  samples,    \* the number of utilization_samples
  reporter,   \* how far the thread in thread_metrics is
  report,     \* what it has read
  peaks,      \* history: every value peak_in_flight has held
  high,       \* history: the largest value tasks_in_flight has had
  quiescent   \* history: every task was done when the report was begun

taskVars == <<pc, cur, seen, submitted, completed, inFlight, peak, samples,
              peaks, high>>
reportVars == <<reporter, report, quiescent>>
vars == <<taskVars, reportVars>>

\* A guard is opened by submit, enter, load, loop, sample; `held` is the life
\* of the guard; its drop is finish then leave.
Stage == {"submit", "enter", "load", "loop", "sample", "held", "leave", "done"}

Report == [submitted : Nat, completed : Nat, peak : Nat]

TypeOK ==
  /\ pc \in [Task -> Stage]
  /\ cur \in [Task -> Nat]
  /\ seen \in [Task -> Nat]
  /\ submitted \in Nat
  /\ completed \in Nat
  /\ inFlight \in Nat
  /\ peak \in Nat
  /\ samples \in Nat
  /\ reporter \in {"idle", "completed", "peak", "done"}
  /\ report \in Report
  /\ peaks \in SUBSET Nat
  /\ high \in Nat
  /\ quiescent \in BOOLEAN

Init ==
  /\ pc = [t \in Task |-> "submit"]
  /\ cur = [t \in Task |-> 0]
  /\ seen = [t \in Task |-> 0]
  /\ submitted = 0 /\ completed = 0 /\ inFlight = 0 /\ peak = 0 /\ samples = 0
  /\ reporter = "idle"
  /\ report = [submitted |-> 0, completed |-> 0, peak |-> 0]
  /\ peaks = {0}
  /\ high = 0
  /\ quiescent = FALSE

Goto(t, from, to) == pc[t] = from /\ pc' = [pc EXCEPT ![t] = to]

----------------------------------------------------------------------------
(* task_guard *)

Submit(t) ==
  /\ Goto(t, "submit", "enter")
  /\ submitted' = submitted + 1
  /\ UNCHANGED <<cur, seen, completed, inFlight, peak, samples, peaks, high>>
  /\ UNCHANGED reportVars

\* fetch_add on tasks_in_flight; cur is the value it leaves behind.
Enter(t) ==
  /\ Goto(t, "enter", "load")
  /\ inFlight' = inFlight + 1
  /\ cur' = [cur EXCEPT ![t] = inFlight + 1]
  /\ high' = IF inFlight + 1 > high THEN inFlight + 1 ELSE high
  /\ UNCHANGED <<seen, submitted, completed, peak, samples, peaks>>
  /\ UNCHANGED reportVars

LoadPeak(t) ==
  /\ Goto(t, "load", "loop")
  /\ \E p \in peaks : seen' = [seen EXCEPT ![t] = p]
  /\ UNCHANGED <<cur, submitted, completed, inFlight, peak, samples, peaks, high>>
  /\ UNCHANGED reportVars

\* The loop condition is cur > peak + 1.
LoopExitEarly(t) ==
  /\ cur[t] <= seen[t] + 1
  /\ Goto(t, "loop", "sample")
  /\ UNCHANGED <<cur, seen, submitted, completed, inFlight, peak, samples, peaks, high>>
  /\ UNCHANGED reportVars

\* The loop condition cur > peak is false.
LoopExit(t) ==
  /\ cur[t] <= seen[t]
  /\ Goto(t, "loop", "sample")
  /\ UNCHANGED <<cur, seen, submitted, completed, inFlight, peak, samples, peaks, high>>
  /\ UNCHANGED reportVars

\* compare_exchange_weak succeeds.
ExchangePeak(t) ==
  /\ cur[t] > seen[t]
  /\ seen[t] = peak
  /\ Goto(t, "loop", "sample")
  /\ peak' = cur[t]
  /\ peaks' = peaks \cup {cur[t]}
  /\ UNCHANGED <<cur, seen, submitted, completed, inFlight, samples, high>>
  /\ UNCHANGED reportVars

\* The value a failed exchange hands back is dropped.
ExchangeForgets(t) ==
  /\ cur[t] > seen[t]
  /\ pc[t] = "loop"
  /\ UNCHANGED <<pc, seen, cur, submitted, completed, inFlight, peak, samples, peaks, high>>
  /\ UNCHANGED reportVars

\* It fails, spuriously or because another task changed the peak, and hands
\* back a value of the atomic.
ExchangeFails(t) ==
  /\ cur[t] > seen[t]
  /\ pc[t] = "loop"
  /\ \E p \in peaks : p >= seen[t] /\ seen' = [seen EXCEPT ![t] = p]
  /\ UNCHANGED <<pc, cur, submitted, completed, inFlight, peak, samples, peaks, high>>
  /\ UNCHANGED reportVars

\* One push into utilization_samples, under its mutex.
Sample(t) ==
  /\ Goto(t, "sample", "held")
  /\ samples' = samples + 1
  /\ UNCHANGED <<cur, seen, submitted, completed, inFlight, peak, peaks, high>>
  /\ UNCHANGED reportVars

----------------------------------------------------------------------------
(* Drop of a TaskGuard *)

\* A drop that does not count the completion.
FinishUncounted(t) ==
  /\ Goto(t, "held", "leave")
  /\ UNCHANGED <<cur, seen, submitted, completed, inFlight, peak, samples, peaks, high>>
  /\ UNCHANGED reportVars

Finish(t) ==
  /\ Goto(t, "held", "leave")
  /\ completed' = completed + 1
  /\ UNCHANGED <<cur, seen, submitted, inFlight, peak, samples, peaks, high>>
  /\ UNCHANGED reportVars

Leave(t) ==
  /\ Goto(t, "leave", "done")
  /\ inFlight' = inFlight - 1
  /\ UNCHANGED <<cur, seen, submitted, completed, peak, samples, peaks, high>>
  /\ UNCHANGED reportVars

----------------------------------------------------------------------------
(* thread_metrics: Relaxed loads, one after the other.  When the tasks were *)
(* joined before the report was begun, the loads see their last values.     *)

AllDone == \A t \in Task : pc[t] = "done"

BeginReport ==
  /\ reporter = "idle"
  /\ \E n \in 0..submitted :
       /\ AllDone => n = submitted
       /\ report' = [report EXCEPT !.submitted = n]
  /\ quiescent' = AllDone
  /\ reporter' = "completed"
  /\ UNCHANGED taskVars

ReadCompleted ==
  /\ reporter = "completed"
  /\ \E n \in 0..completed :
       /\ quiescent => n = completed
       /\ report' = [report EXCEPT !.completed = n]
  /\ reporter' = "peak"
  /\ UNCHANGED <<taskVars, quiescent>>

ReadPeak ==
  /\ reporter = "peak"
  /\ \E p \in peaks :
       /\ quiescent => p = peak
       /\ report' = [report EXCEPT !.peak = p]
  /\ reporter' = "done"
  /\ UNCHANGED <<taskVars, quiescent>>

\* The report has been printed; another may be taken.
EndReport ==
  /\ reporter = "done"
  /\ reporter' = "idle"
  /\ UNCHANGED <<taskVars, report, quiescent>>

----------------------------------------------------------------------------

TaskStep(t) ==
  \/ Submit(t) \/ Enter(t) \/ LoadPeak(t)
  \/ LoopExit(t) \/ ExchangePeak(t) \/ ExchangeFails(t)
  \/ Sample(t) \/ Finish(t) \/ Leave(t)

ReportStep == BeginReport \/ ReadCompleted \/ ReadPeak \/ EndReport

Next == (\E t \in Task : TaskStep(t)) \/ ReportStep

Spec == Init /\ [][Next]_vars

\* A task that can take a step takes one, and the weak exchange does not fail
\* forever while the value it was given keeps being the current one, nor does a
\* failed exchange keep handing back outdated values: the hardware makes a store
\* visible eventually.
Fairness ==
  \A t \in Task :
    /\ WF_vars(TaskStep(t))
    /\ SF_vars(ExchangePeak(t))
    /\ SF_vars(ExchangeFails(t) /\ seen'[t] = peak)

FairSpec == Spec /\ Fairness

----------------------------------------------------------------------------
(* Properties *)

Entered == {t \in Task : pc[t] \in {"load", "loop", "sample", "held", "leave"}}

\* The in-flight counter is exactly the number of tasks between their two
\* updates of it: it never goes negative (the code casts it to u64).
InFlightExact == inFlight = Cardinality(Entered)

\* No task's peak is lost: once a task has left the loop, the peak is at least
\* the count it saw; and the peak is never more than the count ever was.
PeakCoversTasks ==
  /\ peak <= high
  /\ \A t \in Task : pc[t] \in {"sample", "held", "leave", "done"} => cur[t] <= peak

\* When no task is between its increment and its loop's end, the recorded peak
\* is the true maximum, whatever updates raced before.
PeakExactWhenSettled ==
  (\A t \in Task : pc[t] \notin {"load", "loop"}) => peak = high

\* A report begun after every task is done shows every task submitted and
\* completed, and the true peak.
QuiescentReportExact ==
  reporter = "done" /\ quiescent =>
    report = [submitted |-> Cardinality(Task), completed |-> Cardinality(Task),
              peak |-> high]

\* The peak never goes down.
PeakMonotone == [][peak' >= peak]_vars

\* Every task that has been submitted runs to its end: no schedule of exchanges
\* keeps a task in the loop.
TasksEnd == \A t \in Task : pc[t] # "submit" ~> pc[t] = "done"
=============================================================================
