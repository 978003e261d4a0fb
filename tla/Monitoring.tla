----------------------------- MODULE Monitoring -----------------------------
(***************************************************************************)
(* MonitoringService (src/services/monitoring_service.rs) looking at jobs  *)
(* that live as JobLifecycle says: the abstract lifecycle that JobService  *)
(* implements is its environment.                                          *)
(*                                                                         *)
(* get_system_health awaits one count after the other without a            *)
(* transaction, so jobs move between its counts.  The counts of queues and *)
(* workers, which follow, are of tables that are not in this module.       *)
(***************************************************************************)
EXTENDS JobLifecycle, FiniteSets, Sequences

CONSTANT Watched  \* bound: there are no other jobs while reports are made

VARIABLES
    counts,  \* the counts that the last report has read so far
    calm     \* history: since it began no job moved against the counts

monitorVars == <<counts, calm>>

-----------------------------------------------------------------------------
\* Mutant of HealthReads: the ends are counted before the running jobs.
ReadsEndsFirst == <<"Total", "Succeeded", "Failed", "Processing", "Pending">>

\* What get_system_health counts, in its order.
HealthReads == <<"Total", "Pending", "Processing", "Succeeded", "Failed">>

Counted(what) ==
    Cardinality({j \in Jobs : status[j] = what \/ (what = "Total" /\ status[j] # "Absent")})

Finished == Len(counts) = Len(HealthReads)

Reading == Len(counts) \in 1..(Len(HealthReads) - 1)

\* The counts name no status for these.
Unlisted == {"Scheduled", "Cancelled"}

\* The first of the counts.
BeginReport ==
    /\ ~Reading
    /\ \A j \in Jobs \ Watched : status[j] = "Absent"
    /\ counts' = <<Counted("Total")>>
    /\ calm' = (\A j \in Jobs : status[j] \notin Unlisted)
    /\ UNCHANGED vars

ReadCount ==
    /\ Reading
    /\ counts' = Append(counts, Counted(HealthReads[Len(counts) + 1]))
    /\ UNCHANGED <<vars, calm>>

-----------------------------------------------------------------------------
\* The moves that the order of the counts follows.
Forward == {<<"Absent", "Pending">>, <<"Absent", "Scheduled">>,
            <<"Scheduled", "Processing">>, <<"Pending", "Processing">>,
            <<"Processing", "Succeeded">>, <<"Processing", "Failed">>}

\* What a step of a job means to the history.
Observed ==
    /\ calm' = (calm /\ \A j \in Jobs :
                   \/ status'[j] = status[j]
                   \/ <<status[j], status'[j]>> \in Forward)
    /\ counts # <<>> => \A j \in Jobs \ Watched : status'[j] = "Absent"
    /\ UNCHANGED counts

MonitorInit ==
    /\ counts = <<>>
    /\ calm = FALSE

MonitorNext == BeginReport \/ ReadCount

-----------------------------------------------------------------------------
(***************************************************************************)
(* Properties                                                              *)
(***************************************************************************)

\* What a report has read so far, by the place in HealthReads; and the jobs
\* that it would still count if they stayed where they are.
Count(n) == IF n <= Len(counts) THEN counts[n] ELSE 0

Uncounted == {j \in Jobs : \E n \in 2..5 : n > Len(counts) /\ status[j] = HealthReads[n]}

\* While jobs only go forward, those that a report has not met are ahead of it.
CountsInv ==
    /\ counts \in Seq(Nat)
    /\ Len(counts) <= Len(HealthReads)
    /\ calm /\ Len(counts) > 0 =>
          Count(1) <= Count(2) + Count(3) + Count(4) + Count(5) + Cardinality(Uncounted)

\* A health report misses no job: when jobs only went forward while it was
\* made, its four counts add up to at least its total, in spite of the jobs
\* that moved from one status to the next between two counts.  It holds by
\* the order of the awaits (monitoring_service.rs:203-207); a retry or a
\* cancellation in between may hide a job from every count.
NoJobIsMissed ==
    Finished /\ calm => counts[1] <= counts[2] + counts[3] + counts[4] + counts[5]
=============================================================================
