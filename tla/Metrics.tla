------------------------------- MODULE Metrics -------------------------------
(***************************************************************************)
(* The statistics the services make of executions: get_execution_stats and *)
(* get_worker_execution_stats of execution_service.rs,                     *)
(* get_job_performance_metrics of monitoring_service.rs, and               *)
(* ExecutionStats of models/job_execution.rs.                              *)
(*                                                                         *)
(* An execution is a row of the table with, as ms, the time from its start *)
(* to its end.  Times and rates are whole numbers, rounded down; the size  *)
(* of outputs is left out.                                                 *)
(***************************************************************************)
EXTENDS Integers, Sequences, FiniteSetsExt

\* The places in a sequence of the executions with a status of S, and of
\* those that have both of their times.
OfStatus(rows, S) == {i \in DOMAIN rows : rows[i].status \in S}

HowMany(rows, S) == Cardinality(OfStatus(rows, S))

Timed(rows) == {i \in DOMAIN rows : rows[i].started_at /\ rows[i].finished_at}

\* The successes whose time is known; a job's statistics take only these.
TimedSuccesses(rows) == Timed(rows) \cap OfStatus(rows, {"Succeeded"})

\* The statistics of the times at the places T.
TimesAt(rows, T) == {rows[i].ms : i \in T}

Average(rows, T) ==
    IF T = {} THEN 0 ELSE MapThenSumSet(LAMBDA i : rows[i].ms, T) \div Cardinality(T)

Shortest(rows, T) == IF T = {} THEN 0 ELSE Min(TimesAt(rows, T))

Longest(rows, T) == IF T = {} THEN 0 ELSE Max(TimesAt(rows, T))

\* The element at index k, from 0, of the sorted times.
Ranked(rows, T, k) ==
    CHOOSE t \in TimesAt(rows, T) :
        /\ Cardinality({i \in T : rows[i].ms < t}) <= k
        /\ Cardinality({i \in T : rows[i].ms <= t}) > k

PercentileIndex(n, p) == Min({(n * p) \div 100, n - 1})

Percentile(rows, T, p) ==
    IF T = {} THEN 0 ELSE Ranked(rows, T, PercentileIndex(Cardinality(T), p))

Percent(part, whole) == (100 * part) \div whole

\* ExecutionService::get_execution_stats.
GetExecutionStats(rows) ==
    LET T == TimedSuccesses(rows)
    IN  [total     |-> Len(rows),
         succeeded |-> HowMany(rows, {"Succeeded"}),
         failed    |-> HowMany(rows, {"Failed"}),
         avg       |-> Average(rows, T),
         min       |-> Shortest(rows, T),
         max       |-> Longest(rows, T)]

\* MonitoringService::get_job_performance_metrics: the rate stays 0 while no
\* success has both of its times.
GetJobPerformanceMetrics(rows) ==
    LET T == TimedSuccesses(rows)
    IN  [total     |-> Len(rows),
         succeeded |-> HowMany(rows, {"Succeeded"}),
         failed    |-> HowMany(rows, {"Failed"}),
         avg       |-> Average(rows, T),
         min       |-> Shortest(rows, T),
         max       |-> Longest(rows, T),
         p95       |-> Percentile(rows, T, 95),
         p99       |-> Percentile(rows, T, 99),
         rate      |-> IF T = {} THEN 0 ELSE Percent(HowMany(rows, {"Succeeded"}), Len(rows))]

\* ExecutionService::get_worker_execution_stats: the times of every row that
\* has both, whatever its status.
GetWorkerExecutionStats(rows) ==
    LET T == Timed(rows)
    IN  [total     |-> Len(rows),
         succeeded |-> HowMany(rows, {"Succeeded"}),
         failed    |-> HowMany(rows, {"Failed"}),
         avg       |-> Average(rows, T),
         p95       |-> Percentile(rows, T, 95),
         p99       |-> Percentile(rows, T, 99)]

\* ExecutionStats of the model: new, add_execution, calculate_rates.
AddExecution(r, st) ==
    [total     |-> st.total + 1,
     succeeded |-> st.succeeded + IF r.status = "Succeeded" THEN 1 ELSE 0,
     failed    |-> st.failed + IF r.status = "Failed" THEN 1 ELSE 0]

CalculateRates(st) ==
    IF st.total = 0
    THEN [success |-> 100, error |-> 0]
    ELSE [success |-> Percent(st.succeeded, st.total),
          error   |-> Percent(st.failed, st.total)]

AddedUp(rows) ==
    LET added[n \in 0..Len(rows)] ==
          IF n = 0 THEN [total |-> 0, succeeded |-> 0, failed |-> 0]
          ELSE AddExecution(rows[n], added[n - 1])
    IN  added[Len(rows)]
=============================================================================
