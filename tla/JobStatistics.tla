---------------------------- MODULE JobStatistics ----------------------------
(***************************************************************************)
(* The statistics of Metrics over the executions table that the workers of *)
(* JobProcessor fill.                                                      *)
(***************************************************************************)
EXTENDS JobProcessor, Metrics, SequencesExt

CONSTANT Duration   \* Duration[e]: the running time of execution e

ASSUME DurationAssumption == Duration \in [Executions -> Nat]

-----------------------------------------------------------------------------
ExecutionsOf(j) == {e \in Executions : executions[e] # NoExecution /\ executions[e].job = j}

\* db.get_job_executions_by_job, in some order, with the times.
GetExecutionsByJob(j) ==
    LET order == SetToSeq(ExecutionsOf(j))
    IN  [n \in DOMAIN order |->
            [status      |-> executions[order[n]].status,
             started_at  |-> executions[order[n]].started_at,
             finished_at |-> executions[order[n]].finished_at,
             ms          |-> Duration[order[n]]]]

\* JobService::get_job_stats: the row of the job is read first, then, after an
\* await, the rows of its executions.
GetJobStats(row, rows) ==
    [status          |-> row.status,
     attempt_count   |-> row.attempt_count,
     max_attempts    |-> row.max_attempts,
     queue_id        |-> row.queue_id,
     execution_stats |-> GetExecutionStats(rows)]

-----------------------------------------------------------------------------
(***************************************************************************)
(* Properties                                                              *)
(***************************************************************************)

\* What the statistics say of a job is what happened to it, although they
\* are made of rows that several workers replace and may leave behind: they
\* count no more executions than the job had starts; a job that is Succeeded
\* has a success in them, whose time is known, so that its success rate is
\* not the 0 of get_job_performance_metrics nor the 100 of an empty
\* ExecutionStats, and the two agree; the two services count alike; and a
\* worker that ran them all is timed by exactly those of its executions that
\* count as successes or failures (execution_service.rs:215-327,
\* monitoring_service.rs:410-478, models/job_execution.rs:389-425).  Holds
\* under the conditions of SucceededJobWasRun: an operator who starts an
\* execution that has ended leaves a time that counts for the worker and as
\* neither.
StatisticsTellOfRuns ==
    \A j \in Jobs :
        LET rows == GetExecutionsByJob(j)
            s == GetJobStats(jobs[j], rows)
            e == s.execution_stats
            p == GetJobPerformanceMetrics(rows)
            w == GetWorkerExecutionStats(rows)
            m == AddedUp(rows)
        IN  /\ e.total <= starts[j]
            /\ s.status = "Succeeded" =>
                  e.succeeded > 0 /\ p.rate > 0 /\ p.rate = CalculateRates(m).success
            /\ \A st \in {p, w, m} : <<st.total, st.succeeded, st.failed>>
                                        = <<e.total, e.succeeded, e.failed>>
            /\ Cardinality(Timed(rows)) = w.succeeded + w.failed
            /\ e.min <= p.p95 /\ p.p95 <= p.p99 /\ p.p99 <= e.max

\* While get_job_stats waits between its two reads, workers go on; yet what it
\* reads later is of the same job, and an execution that was a success when the
\* job was read is one when the executions are, so that the statistics of a job
\* read as Succeeded show a success however late they are made
\* (job_service.rs:214-217; every report replaces the whole row with one that
\* was read before).  Holds under the conditions of SucceededJobWasRun: a
\* heartbeat, or an operator, may overwrite a success.
SuccessesStay ==
    [][\A e \in Executions :
          executions[e] # NoExecution =>
             /\ executions'[e].job = executions[e].job
             /\ executions[e].status = "Succeeded" => executions'[e].status = "Succeeded"
      ]_procVars
=============================================================================
