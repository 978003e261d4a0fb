--------------------------- MODULE WorkflowProofs ---------------------------
(***************************************************************************)
(* Theorems about dependent jobs and the health reports made of them, for  *)
(* every value of the constants: any graph of dependencies, any rules, any *)
(* number of attempts.                                                     *)
(***************************************************************************)
EXTENDS Workflow, FiniteSetTheorems, SequenceTheorems, WellFoundedInduction, TLAPS

Statuses == Live \cup Ended \cup {"Absent", "Cancelled"}

-----------------------------------------------------------------------------
(***************************************************************************)
(* One job moves at a time.                                                *)
(***************************************************************************)

\* The moves of a job, by where they lead.
Went(j, s) ==
    /\ status' = [status EXCEPT ![j] = s]
    /\ IF s = "Processing"
       THEN /\ status[j] \in {"Pending", "Scheduled"} /\ MayStart(j)
            /\ attempts' = [attempts EXCEPT ![j] = attempts[j] + 1]
       ELSE UNCHANGED attempts
    /\ s \in Ended => status[j] = "Processing"
    /\ s \in {"Pending", "Scheduled"} => status[j] \in {"Absent", "Pending", "Failed"}
    /\ s = "Cancelled" =>
          status[j] \in Live \/ \E g \in Jobs : j \in Dependents[g] /\ status[g] = "Cancelled"

\* A step of JobService moves one job, and how it ends is kept.
LEMMA OneJobMoves ==
    ASSUME WorkflowTypeOK, EndsInv, JobStep
    PROVE  /\ budget' \in [Jobs -> Nat]
           /\ \E j \in Jobs, s \in Statuses \ {"Absent"} :
                 /\ Went(j, s)
                 /\ ends' = [ends EXCEPT ![j] = ends[j] \cup ({s} \cap Ended)]
<1>1. ASSUME NEW j \in Jobs,
             \/ Create(j) /\ budget'[j] \in Budgets
             \/ MayStart(j) /\ Start(j)
             \/ Defer(j)
             \/ Finish(j)
             \/ Retry(j)
             \/ Cancel(j)
             \/ \E p \in Jobs : CancelWith(j, p)
      PROVE  /\ budget' \in [Jobs -> Nat]
             /\ \E s \in Statuses \ {"Absent"} : Went(j, s)
  <2> USE DEF Went, Statuses, Live, Ended, Moves, WorkflowTypeOK
  <2>1. CASE Create(j)
    <3>1. \A b \in 1..10 : [budget EXCEPT ![j] = b] \in [Jobs -> Nat]
      OBVIOUS
    <3>2. QED
      BY <2>1, <3>1 DEF Create
  <2>2. CASE MayStart(j) /\ Start(j)
    BY <2>2 DEF Start
  <2>3. CASE Defer(j)
    BY <2>3 DEF Defer
  <2>4. CASE Finish(j)
    BY <2>4 DEF Finish
  <2>5. CASE Retry(j)
    BY <2>5 DEF Retry
  <2>6. CASE Cancel(j)
    BY <2>6 DEF Cancel
  <2>7. CASE \E p \in Jobs : CancelWith(j, p)
    BY <2>7 DEF CancelWith
  <2>8. QED
    BY <1>1, <2>1, <2>2, <2>3, <2>4, <2>5, <2>6, <2>7
<1>2. PICK j \in Jobs : \E s \in Statuses \ {"Absent"} : Went(j, s)
  BY <1>1 DEF JobStep
<1>3. PICK s \in Statuses \ {"Absent"} : Went(j, s)
  BY <1>2
<1>4. \A i \in Jobs : status'[i] = IF i = j THEN s ELSE status[i]
  BY <1>3 DEF Went, WorkflowTypeOK
<1>5. ends' = [i \in Jobs |-> ends[i] \cup ({status'[i]} \cap Ended)]
  BY DEF JobStep
<1>6. ends' = [ends EXCEPT ![j] = ends[j] \cup ({s} \cap Ended)]
  <2>1. ASSUME NEW i \in Jobs, i # j
        PROVE  ends[i] \cup ({status'[i]} \cap Ended) = ends[i]
    <3>1. status'[i] = status[i] /\ (status[i] \in Ended => status[i] \in ends[i])
      BY <1>4, <2>1 DEF EndsInv
    <3>2. QED
      BY <3>1
  <2>2. ends[j] \cup ({status'[j]} \cap Ended) = ends[j] \cup ({s} \cap Ended)
    BY <1>4
  <2> DEFINE e(i) == ends[i] \cup ({status'[i]} \cap Ended)
  <2>3. \A i \in Jobs : e(i) = IF i = j THEN ends[j] \cup ({s} \cap Ended) ELSE ends[i]
    BY <2>1, <2>2
  <2>4. ends' = [i \in Jobs |-> e(i)]
    BY <1>5
  <2> HIDE DEF e
  <2>5. QED
    BY <2>3, <2>4 DEF WorkflowTypeOK
<1>7. budget' \in [Jobs -> Nat]
  BY <1>1 DEF JobStep
<1>8. QED
  BY <1>3, <1>6, <1>7

\* After the move of a job: what has ended was started, and no end that there
\* was is lost.
LEMMA EndsAreKept ==
    ASSUME WorkflowTypeOK, EndsInv,
           NEW j \in Jobs, NEW s \in Statuses \ {"Absent"}, Went(j, s),
           ends' = [ends EXCEPT ![j] = ends[j] \cup ({s} \cap Ended)]
    PROVE  /\ attempts' \in [Jobs -> Nat]
           /\ ends' \in [Jobs -> SUBSET Ended]
           /\ EndsInv'
           /\ \A i \in Jobs : attempts[i] <= attempts'[i] /\ ends[i] \subseteq ends'[i]
<1>1. attempts' \in [Jobs -> Nat]
  BY DEF Went, WorkflowTypeOK
<1>2. ends' \in [Jobs -> SUBSET Ended]
  BY DEF WorkflowTypeOK
<1>3. \A i \in Jobs : attempts[i] <= attempts'[i] /\ ends[i] \subseteq ends'[i]
  BY DEF Went, WorkflowTypeOK
<1>4. \A i \in Jobs : i # j => /\ status'[i] = status[i] /\ ends'[i] = ends[i]
                               /\ attempts'[i] = attempts[i]
  BY DEF Went, WorkflowTypeOK
<1>5. status'[j] = s /\ ends'[j] = ends[j] \cup ({s} \cap Ended)
  BY DEF Went, WorkflowTypeOK
<1>6. /\ s = "Processing" => attempts'[j] = attempts[j] + 1
      /\ s # "Processing" => attempts'[j] = attempts[j]
      /\ s \in Ended => status[j] = "Processing"
  BY DEF Went, WorkflowTypeOK
<1>7. attempts[j] \in Nat /\ (status[j] \in Begun \/ ends[j] # {} => attempts[j] >= 1)
  BY DEF EndsInv, WorkflowTypeOK
<1>8. s \in Begun \/ ends'[j] # {} => attempts'[j] >= 1
  BY <1>5, <1>6, <1>7 DEF Begun, Ended
<1>9. EndsInv'
  BY <1>4, <1>5, <1>8 DEF EndsInv
<1>10. QED
  BY <1>1, <1>2, <1>3, <1>9

\* The resolver changes no rule, and resolves only what is met.
LEMMA ResolverResolves ==
    ASSUME WorkflowTypeOK, NEW p \in Pairs, Resolver(p)
    PROVE  /\ deps' \in [Pairs -> DependencyRow]
           /\ \A q \in Pairs :
                 /\ deps'[q].dependency_type = deps[q].dependency_type
                 /\ deps'[q].condition = deps[q].condition
                 /\ deps'[q].status = "Resolved" =>
                       \/ deps[q].status = "Resolved"
                       \/ IsMet(deps[q], status[q.parent])
           /\ UNCHANGED <<vars, monitorVars, ends>>
<1>1. PICK r \in DependencyStatus :
         /\ deps' = [deps EXCEPT ![p] = [deps[p] EXCEPT !.status = r]]
         /\ r = "Resolved" => IsMet(deps[p], status[p.parent])
  BY DEF Resolver, DependencyStatus, MarkAsResolved, MarkAsFailedDependency,
         MarkAsCancelledDependency
<1> DEFINE d == [deps[p] EXCEPT !.status = r]
<1>2. /\ d \in DependencyRow /\ d.status = r
      /\ d.dependency_type = deps[p].dependency_type
      /\ d.condition = deps[p].condition
  BY DEF WorkflowTypeOK, DependencyRow
<1>3. deps' = [deps EXCEPT ![p] = d]
  BY <1>1
<1> HIDE DEF d
<1>4. deps' \in [Pairs -> DependencyRow]
  BY <1>2, <1>3 DEF WorkflowTypeOK
<1>5. \A q \in Pairs : deps'[q] = IF q = p THEN d ELSE deps[q]
  BY <1>3 DEF WorkflowTypeOK
<1>6. UNCHANGED <<vars, monitorVars, ends>>
  BY DEF Resolver
<1>7. QED
  BY <1>1, <1>2, <1>4, <1>5, <1>6

\* A pair is of two jobs.
LEMMA PairsOfJobs ==
    ASSUME NEW p \in Pairs
    PROVE  p.parent \in Jobs /\ p.child \in Jobs /\ p.parent # p.child
  BY WorkflowAssumption DEF IsValidPair

-----------------------------------------------------------------------------
(***************************************************************************)
(* Parents and children.                                                   *)
(***************************************************************************)

\* A parent that satisfies a child that waits has ended.
LEMMA WaitersNeedAnEnd ==
    ASSUME WorkflowTypeOK, NEW p \in Pairs, Waits(p),
           CanExecuteChild(deps[p], status[p.parent])
    PROVE  status[p.parent] \in Ended
  BY DEF WorkflowTypeOK, Waits, CanExecuteChild, Asked, Ended, DependencyRow

\* Whom a running child has waited for has ended once, or is cancelled
\* (job_dependency.rs:73).
LEMMA WaitingStays ==
    ASSUME WorkflowTypeOK, EndsInv, WaitingInv,
           NEW j \in Jobs, NEW s \in Statuses \ {"Absent"}, Went(j, s),
           ends' = [ends EXCEPT ![j] = ends[j] \cup ({s} \cap Ended)], UNCHANGED deps
    PROVE  WaitingInv'
<1> SUFFICES ASSUME NEW p \in Pairs, Waits(p), status'[p.child] = "Processing"
             PROVE  \/ status'[p.parent] \in {"Succeeded", "Cancelled"}
                    \/ "Failed" \in ends'[p.parent]
  BY DEF WaitingInv, Waits
<1>1. p.parent \in Jobs /\ p.child \in Jobs /\ p.parent # p.child
  BY PairsOfJobs
<1>2. "Failed" \in ends[p.parent] => "Failed" \in ends'[p.parent]
  BY <1>1, EndsAreKept
<1>3. \A i \in Jobs : status'[i] = IF i = j THEN s ELSE status[i]
  BY DEF Went, WorkflowTypeOK
<1>4. status[p.parent] = "Failed" => "Failed" \in ends[p.parent]
  BY <1>1 DEF EndsInv, Ended
<1>5. \/ status[p.parent] \in {"Succeeded", "Cancelled"}
      \/ "Failed" \in ends[p.parent]
  <2>1. CASE p.child = j
    <3>1. MayStart(j) /\ status[p.parent] \in Ended
      BY <1>3, <2>1, WaitersNeedAnEnd DEF Went, MayStart
    <3>2. QED
      BY <1>4, <3>1 DEF Ended
  <2>2. CASE p.child # j
    BY <1>1, <1>3, <2>2 DEF WaitingInv
  <2>3. QED
    BY <2>1, <2>2
<1>6. status[p.parent] \in {"Succeeded", "Cancelled"} /\ p.parent = j
         => s = "Cancelled"
  BY DEF Went, Live, Ended, Statuses
<1>7. QED
  BY <1>1, <1>2, <1>3, <1>5, <1>6

\* A job that had succeeded and was cancelled since was cancelled with a job
\* that is, too, and stays so.
LEMMA SuccessStays ==
    ASSUME WorkflowTypeOK, EndsInv,
           NEW j \in Jobs, NEW s \in Statuses \ {"Absent"}, Went(j, s),
           ends' = [ends EXCEPT ![j] = ends[j] \cup ({s} \cap Ended)],
           NEW i \in Jobs, HasSucceeded(i)
    PROVE  HasSucceeded(i)'
<1>1. "Succeeded" \in ends'[i]
  BY EndsAreKept DEF HasSucceeded
<1>2. \A k \in Jobs : status'[k] = IF k = j THEN s ELSE status[k]
  BY DEF Went, WorkflowTypeOK
<1>3. \A g \in Jobs : status[g] = "Cancelled" => status'[g] = "Cancelled"
  BY <1>2 DEF Went, Live, Ended, Statuses
<1>4. CASE i # j
  BY <1>1, <1>2, <1>3, <1>4 DEF HasSucceeded
<1>5. CASE i = j
  <2>1. s = "Cancelled"
    BY <1>5 DEF HasSucceeded, Went, Live, Ended, Statuses
  <2>2. \E g \in Jobs : j \in Dependents[g] /\ status[g] = "Cancelled"
    BY <1>5, <2>1 DEF HasSucceeded, Went, Live
  <2>3. QED
    BY <1>1, <1>2, <1>3, <1>5, <2>1, <2>2 DEF HasSucceeded
<1>6. QED
  BY <1>4, <1>5

\* What is_met asks for has happened.
LEMMA MetHasHappened ==
    ASSUME WorkflowTypeOK, EndsInv, NEW p \in Pairs,
           IsMet(deps[p], status[p.parent])
    PROVE  /\ attempts[p.parent] >= 1
           /\ deps[p].dependency_type = "Conditional" =>
                 IF deps[p].condition = "succeeded" THEN HasSucceeded(p.parent)
                 ELSE "Failed" \in ends[p.parent]
<1> DEFINE i == p.parent
<1>1. i \in Jobs
  BY PairsOfJobs
<1>3. /\ deps[p].dependency_type \in DependencyType
      /\ deps[p].condition \in Condition
  BY DEF WorkflowTypeOK, DependencyRow
<1>4. status[i] \in Begun
  BY <1>3 DEF IsMet, Asked, Begun, Ended, DependencyType
<1>5. /\ attempts[i] >= 1
      /\ status[i] \in Ended => status[i] \in ends[i]
  BY <1>1, <1>4 DEF EndsInv
<1>6. deps[p].dependency_type = "Conditional" =>
         /\ deps[p].condition = "succeeded" => status[i] = "Succeeded"
         /\ deps[p].condition # "succeeded" => status[i] = "Failed"
  BY DEF IsMet, Asked
<1>7. QED
  BY <1>5, <1>6 DEF HasSucceeded, Ended

-----------------------------------------------------------------------------
(***************************************************************************)
(* Health reports.                                                         *)
(***************************************************************************)

\* get_system_health makes five counts, the total first.
LEMMA FiveCounts ==
    /\ Len(HealthReads) = 5
    /\ HealthReads[2] = "Pending" /\ HealthReads[3] = "Processing"
    /\ HealthReads[4] = "Succeeded" /\ HealthReads[5] = "Failed"
    /\ \A n \in 2..5 : HealthReads[n] # "Total"
<1>1. /\ Len(HealthReads) = 5
      /\ HealthReads[2] = "Pending" /\ HealthReads[3] = "Processing"
      /\ HealthReads[4] = "Succeeded" /\ HealthReads[5] = "Failed"
  BY DEF HealthReads
<1>2. \A n \in 2..5 : n = 2 \/ n = 3 \/ n = 4 \/ n = 5
  OBVIOUS
<1>3. QED
  BY <1>1, <1>2

\* The jobs in a table are a finite set, those of them that are counted, too.
LEMMA CountsAreNumbers ==
    /\ IsFiniteSet(Uncounted) /\ Cardinality(Uncounted) \in Nat
    /\ \A what : Counted(what) \in Nat
<1>1. \A T \in SUBSET Jobs : IsFiniteSet(T) /\ Cardinality(T) \in Nat
  BY WorkflowAssumption, FS_Subset, FS_CardinalityType
<1>2. QED
  BY <1>1 DEF Uncounted, Counted

\* A job that goes forward stays among those that a report is still to count,
\* and one that was not may come to be: the reads follow the lifecycle
\* (monitoring_service.rs:203).
LEMMA ForwardStaysAhead ==
    ASSUME WorkflowTypeOK, NEW j \in Jobs, j \in Uncounted, UNCHANGED counts,
           Len(counts) \in Nat,
           \/ status'[j] = status[j]
           \/ <<status[j], status'[j]>> \in Forward
    PROVE  j \in Uncounted'
<1>1. PICK n \in 2..5 : n > Len(counts) /\ status[j] = HealthReads[n]
  BY DEF Uncounted
<1>2. CASE status'[j] = status[j]
  BY <1>1, <1>2 DEF Uncounted
<1>3. CASE status[j] = "Pending" /\ status'[j] = "Processing"
  <2>1. n = 2
    BY <1>1, <1>3 DEF HealthReads
  <2>2. 3 > Len(counts) /\ HealthReads[3] = "Processing"
    BY <1>1, <2>1 DEF HealthReads
  <2>3. QED
    BY <1>3, <2>2 DEF Uncounted
<1>4. CASE status[j] = "Processing" /\ status'[j] \in {"Succeeded", "Failed"}
  <2>1. n = 3
    BY <1>1, <1>4 DEF HealthReads
  <2>2. /\ 4 > Len(counts) /\ HealthReads[4] = "Succeeded"
        /\ 5 > Len(counts) /\ HealthReads[5] = "Failed"
    BY <1>1, <2>1 DEF HealthReads
  <2>3. QED
    BY <1>4, <2>2 DEF Uncounted
<1>5. status[j] \in {"Pending", "Processing", "Succeeded", "Failed"}
  BY <1>1 DEF HealthReads
<1>6. QED
  BY <1>2, <1>3, <1>4, <1>5 DEF Forward

\* Jobs that go forward keep the count.
LEMMA ForwardKeepsCount ==
    ASSUME WorkflowTypeOK, CountsInv, JobStep
    PROVE  CountsInv'
<1>1. counts' = counts
  BY DEF JobStep, Observed
<1>2. /\ counts \in Seq(Nat) /\ Len(counts) \in Nat
      /\ Len(counts) <= Len(HealthReads)
  BY DEF CountsInv
<1>3. ASSUME calm', Len(counts) > 0
      PROVE  Count(1) <= Count(2) + Count(3) + Count(4) + Count(5)
                         + Cardinality(Uncounted')
  <2>1. /\ calm
        /\ \A j \in Jobs : \/ status'[j] = status[j]
                           \/ <<status[j], status'[j]>> \in Forward
    BY <1>3 DEF JobStep, Observed
  <2>2. Uncounted \subseteq Uncounted'
    <3>1. \A j \in Uncounted : j \in Jobs
      BY DEF Uncounted
    <3>2. QED
      BY <1>1, <1>2, <2>1, <3>1, ForwardStaysAhead
  <2>3. Uncounted' \subseteq Jobs
    BY DEF Uncounted
  <2>4. IsFiniteSet(Uncounted') /\ Cardinality(Uncounted') \in Nat
    BY <2>3, WorkflowAssumption, FS_Subset, FS_CardinalityType
  <2>5. Cardinality(Uncounted) <= Cardinality(Uncounted')
    BY <2>2, <2>4, FS_Subset
  <2>6. Count(1) <= Count(2) + Count(3) + Count(4) + Count(5) + Cardinality(Uncounted)
    BY <1>3, <2>1 DEF CountsInv
  <2>7. \A n \in 1..5 : Count(n) \in Nat
    BY <1>2 DEF Count
  <2> DEFINE a == Cardinality(Uncounted)
             b == Cardinality(Uncounted')
             c == Count(2) + Count(3) + Count(4) + Count(5)
  <2>8. a \in Nat /\ b \in Nat /\ a <= b /\ c \in Nat /\ Count(1) \in Nat
    BY <2>4, <2>5, <2>7, CountsAreNumbers
  <2>9. Count(1) <= c + a
    BY <2>6
  <2> HIDE DEF a, b, c
  <2>10. Count(1) <= c + b
    BY <2>8, <2>9
  <2>11. QED
    BY <2>10 DEF b, c
<1>4. \A n \in 1..5 : Count(n)' = Count(n)
  BY <1>1 DEF Count
<1>5. QED
  BY <1>1, <1>2, <1>3, <1>4 DEF CountsInv

\* A report that begins while all jobs are in the statuses it counts has all of
\* them ahead.
LEMMA BeginKeepsCount ==
    ASSUME WorkflowTypeOK, CountsInv, BeginReport
    PROVE  CountsInv'
<1> DEFINE all == {j \in Jobs : status[j] # "Absent"}
<1>1. /\ counts' = <<Counted("Total")>> /\ UNCHANGED vars
      /\ calm' = (\A j \in Jobs : status[j] \notin Unlisted)
  BY DEF BeginReport
<1>2. Counted("Total") \in Nat /\ Counted("Total") = Cardinality(all)
  <2>1. {j \in Jobs : status[j] = "Total" \/ ("Total" = "Total" /\ status[j] # "Absent")} = all
    BY DEF WorkflowTypeOK, Live, Ended
  <2>2. QED
    BY <2>1, CountsAreNumbers DEF Counted
<1>3. /\ counts' \in Seq(Nat) /\ Len(counts') = 1
      /\ Len(HealthReads) = 5 /\ Count(1)' = Cardinality(all)
      /\ \A n \in 2..5 : Count(n)' = 0
  BY <1>1, <1>2 DEF Count, HealthReads
<1>4. calm' => all \subseteq Uncounted'
  <2>1. \A j \in Jobs : status'[j] = status[j]
    BY <1>1 DEF vars
  <2>2. \A st \in {"Pending", "Processing", "Succeeded", "Failed"} :
           \E n \in 2..5 : st = HealthReads[n]
    <3>1. /\ HealthReads[2] = "Pending" /\ HealthReads[3] = "Processing"
          /\ HealthReads[4] = "Succeeded" /\ HealthReads[5] = "Failed"
      BY FiveCounts
    <3>2. 2 \in 2..5 /\ 3 \in 2..5 /\ 4 \in 2..5 /\ 5 \in 2..5
      OBVIOUS
    <3>3. QED
      BY <3>1, <3>2
  <2>3. ASSUME calm', NEW j \in all
        PROVE  j \in Uncounted'
    <3>1. status[j] \in {"Pending", "Processing", "Succeeded", "Failed"}
      BY <1>1, <2>3 DEF WorkflowTypeOK, Live, Ended, Unlisted
    <3>2. PICK n \in 2..5 : status[j] = HealthReads[n]
      BY <2>2, <3>1
    <3>3. n > Len(counts')
      BY <1>3
    <3>4. QED
      BY <2>1, <3>2, <3>3 DEF Uncounted
  <2>4. QED
    BY <2>3
<1>5. Uncounted' \subseteq Jobs
  BY DEF Uncounted
<1>6. IsFiniteSet(Uncounted') /\ Cardinality(Uncounted') \in Nat
  BY <1>5, WorkflowAssumption, FS_Subset, FS_CardinalityType
<1>7. calm' => Cardinality(all) <= Cardinality(Uncounted')
  BY <1>4, <1>6, FS_Subset
<1> HIDE DEF all
<1>8. calm' => Count(1)' <= Count(2)' + Count(3)' + Count(4)' + Count(5)'
                            + Cardinality(Uncounted')
  BY <1>2, <1>3, <1>6, <1>7
<1>9. QED
  BY <1>3, <1>8 DEF CountsInv

\* What is read is counted, and no longer to be counted.
LEMMA ReadKeepsCount ==
    ASSUME WorkflowTypeOK, CountsInv, ReadCount
    PROVE  CountsInv'
<1>0. PICK k \in 1..4 : k = Len(counts)
  BY FiveCounts DEF ReadCount, Reading
<1> DEFINE here == {j \in Jobs : status[j] = HealthReads[k + 1]}
<1>1. /\ counts \in Seq(Nat) /\ UNCHANGED <<status, calm>>
      /\ counts' = Append(counts, Counted(HealthReads[k + 1]))
      /\ k = Len(counts)
  BY <1>0 DEF ReadCount, CountsInv, vars
<1>2. HealthReads[k + 1] # "Total"
  <2>1. k + 1 \in 2..5
    OBVIOUS
  <2>2. \A n \in 2..5 : HealthReads[n] # "Total"
    BY FiveCounts
  <2>3. QED
    BY <2>1, <2>2
<1>3. Counted(HealthReads[k + 1]) = Cardinality(here)
  <2>1. {j \in Jobs : \/ status[j] = HealthReads[k + 1]
                      \/ HealthReads[k + 1] = "Total" /\ status[j] # "Absent"} = here
    BY <1>2
  <2>2. QED
    BY <2>1 DEF Counted
<1>4. Cardinality(here) \in Nat
  BY <1>3, CountsAreNumbers
<1>5. /\ counts' \in Seq(Nat) /\ Len(counts') = k + 1
      /\ \A n \in 1..k : counts'[n] = counts[n]
      /\ counts'[k + 1] = Cardinality(here)
  BY <1>1, <1>3, <1>4, AppendProperties
<1>6. \A n \in 1..5 : Count(n)' = IF n = k + 1 THEN Cardinality(here) ELSE Count(n)
  BY <1>1, <1>5 DEF Count
<1>7. Count(k + 1) = 0 /\ \A n \in 1..5 : Count(n) \in Nat
  BY <1>1 DEF Count
<1>8. Uncounted \subseteq here \cup Uncounted'
  <2>1. ASSUME NEW j \in Uncounted, j \notin here
        PROVE  j \in Uncounted'
    <3>1. PICK n \in 2..5 : n > k /\ status[j] = HealthReads[n]
      BY <1>1 DEF Uncounted
    <3>2. j \in Jobs /\ n # k + 1
      BY <2>1, <3>1 DEF Uncounted
    <3>3. n > Len(counts')
      BY <1>1, <1>5, <3>1, <3>2
    <3>4. QED
      BY <1>1, <3>1, <3>2, <3>3 DEF Uncounted
  <2>2. QED
    BY <2>1
<1>9. here \subseteq Jobs /\ Uncounted' \subseteq Jobs
  BY DEF Uncounted
<1>10. /\ IsFiniteSet(here) /\ IsFiniteSet(Uncounted')
       /\ Cardinality(Uncounted') \in Nat /\ Cardinality(Uncounted) \in Nat
  BY <1>9, WorkflowAssumption, FS_Subset, FS_CardinalityType, CountsAreNumbers
<1>11. Cardinality(Uncounted) <= Cardinality(here) + Cardinality(Uncounted')
  <2> DEFINE both == here \cup Uncounted'
  <2>1. /\ IsFiniteSet(both)
        /\ Cardinality(both) = Cardinality(here) + Cardinality(Uncounted')
                               - Cardinality(here \cap Uncounted')
    BY <1>10, FS_Union
  <2>2. Cardinality(here \cap Uncounted') \in Nat
    <3>1. here \cap Uncounted' \subseteq here
      OBVIOUS
    <3>2. QED
      BY <1>10, <3>1, FS_Subset, FS_CardinalityType
  <2>3. Cardinality(Uncounted) <= Cardinality(both)
    BY <1>8, <2>1, FS_Subset
  <2> DEFINE common == here \cap Uncounted'
  <2> HIDE DEF both, common, here
  <2>4. QED
    BY <1>4, <1>10, <2>1, <2>2, <2>3 DEF common
<1> HIDE DEF here
<1>12. calm => Count(1)' <= Count(2)' + Count(3)' + Count(4)' + Count(5)'
                            + Cardinality(Uncounted')
  <2>1. calm => Count(1) <= Count(2) + Count(3) + Count(4) + Count(5)
                            + Cardinality(Uncounted)
    BY <1>1 DEF CountsInv
  <2>2. k = 1 \/ k = 2 \/ k = 3 \/ k = 4
    OBVIOUS
  <2>3. QED
    BY <1>4, <1>6, <1>7, <1>10, <1>11, <2>1, <2>2
<1>13. Len(counts') <= 5
  <2>1. Len(counts') = k + 1
    BY <1>5
  <2>2. k + 1 <= 5
    OBVIOUS
  <2>3. QED
    BY <2>1, <2>2
<1>14. counts' \in Seq(Nat) /\ calm' = calm
  BY <1>1, <1>5
<1>15. Len(counts') <= Len(HealthReads)
  BY <1>13, FiveCounts
<1>16. QED
  BY <1>12, <1>14, <1>15 DEF CountsInv

-----------------------------------------------------------------------------
(***************************************************************************)
(* The theorems.                                                           *)
(***************************************************************************)

\* A resolved dependency was met.
WasMet(p) ==
    /\ attempts[p.parent] >= 1
    /\ deps[p].dependency_type = "Conditional" =>
          IF deps[p].condition = "succeeded" THEN HasSucceeded(p.parent)
          ELSE "Failed" \in ends[p.parent]

WorkflowInv == /\ WorkflowTypeOK /\ EndsInv /\ CountsInv
               /\ WaitingInv /\ ResolvedWasMet

\* The initial states.
LEMMA WorkflowStarts == WorkflowInit => WorkflowInv
<1> SUFFICES ASSUME WorkflowInit PROVE WorkflowInv
  OBVIOUS
<1>1. PICK rule \in [Pairs -> DependencyType \X Condition] :
         deps = [p \in Pairs |-> NewDependency(rule[p][1], rule[p][2])]
  BY DEF WorkflowInit
<1>2. \A p \in Pairs : /\ deps[p] \in DependencyRow
                       /\ deps[p].status = "Pending"
  BY <1>1 DEF NewDependency, DependencyRow, DependencyStatus
<1>3. deps \in [Pairs -> DependencyRow]
  BY <1>1, <1>2
<1>4. /\ status = [j \in Jobs |-> "Absent"] /\ attempts = [j \in Jobs |-> 0]
      /\ budget = [j \in Jobs |-> 1]
      /\ ends = [j \in Jobs |-> {}] /\ counts = <<>> /\ calm = FALSE
  BY DEF WorkflowInit, Init, MonitorInit
<1>5. WorkflowTypeOK
  <2>1. status \in [Jobs -> Live \cup Ended \cup {"Absent", "Cancelled"}]
    BY <1>4
  <2>2. attempts \in [Jobs -> Nat] /\ budget \in [Jobs -> Nat]
    BY <1>4
  <2>3. ends \in [Jobs -> SUBSET Ended]
    BY <1>4
  <2>4. QED
    BY <1>3, <1>4, <2>1, <2>2, <2>3 DEF WorkflowTypeOK
<1>6. EndsInv
  BY <1>4 DEF EndsInv, Begun, Ended
<1>7. CountsInv
  <2>1. counts \in Seq(Nat) /\ Len(counts) = 0
    BY <1>4
  <2>2. QED
    BY <1>4, <2>1, FiveCounts DEF CountsInv
<1>8. WaitingInv
  <2>1. \A p \in Pairs : status[p.child] = "Absent"
    BY <1>4, PairsOfJobs
  <2>2. QED
    BY <2>1 DEF WaitingInv
<1>9. ResolvedWasMet
  BY <1>2 DEF ResolvedWasMet
<1>10. QED
  BY <1>5, <1>6, <1>7, <1>8, <1>9 DEF WorkflowInv

\* The step of a job.
LEMMA JobsKeepInv ==
    ASSUME WorkflowInv, JobStep
    PROVE  WorkflowInv'
<1>1. WorkflowTypeOK /\ EndsInv /\ CountsInv /\ WaitingInv /\ ResolvedWasMet
  BY DEF WorkflowInv
<1>2. PICK j \in Jobs, s \in Statuses \ {"Absent"} :
         Went(j, s) /\ ends' = [ends EXCEPT ![j] = ends[j] \cup ({s} \cap Ended)]
  BY <1>1, OneJobMoves
<1>3. /\ attempts' \in [Jobs -> Nat] /\ ends' \in [Jobs -> SUBSET Ended]
      /\ EndsInv'
      /\ \A i \in Jobs : attempts[i] <= attempts'[i] /\ ends[i] \subseteq ends'[i]
  BY <1>1, <1>2, EndsAreKept
<1>4. budget' \in [Jobs -> Nat]
  BY <1>1, OneJobMoves
<1>5. status' \in [Jobs -> Statuses]
  BY <1>1, <1>2 DEF Went, WorkflowTypeOK, Statuses
<1>6. deps' = deps /\ calm' \in BOOLEAN
  BY DEF JobStep, Observed
<1>7. WorkflowTypeOK'
  BY <1>1, <1>3, <1>4, <1>5, <1>6 DEF WorkflowTypeOK, Statuses
<1>8. CountsInv'
  BY <1>1, ForwardKeepsCount
<1>9. WaitingInv'
  BY <1>1, <1>2, <1>6, WaitingStays
<1>10. ResolvedWasMet'
  <2> SUFFICES ASSUME NEW p \in Pairs, deps[p].status = "Resolved"
               PROVE  WasMet(p)'
    BY <1>6 DEF ResolvedWasMet, WasMet
  <2>1. WasMet(p)
    BY <1>1 DEF ResolvedWasMet, WasMet
  <2>2. p.parent \in Jobs
    BY PairsOfJobs
  <2>3. HasSucceeded(p.parent) => HasSucceeded(p.parent)'
    BY <1>1, <1>2, <2>2, SuccessStays
  <2>4. "Failed" \in ends[p.parent] => "Failed" \in ends'[p.parent]
    BY <1>3, <2>2
  <2>5. attempts[p.parent] >= 1 => attempts'[p.parent] >= 1
    BY <1>1, <1>3, <2>2 DEF WorkflowTypeOK
  <2>6. QED
    BY <1>6, <2>1, <2>2, <2>3, <2>4, <2>5 DEF WasMet
<1>11. QED
  BY <1>3, <1>7, <1>8, <1>9, <1>10 DEF WorkflowInv

\* A step of the resolver.
LEMMA ResolverKeepsInv ==
    ASSUME WorkflowInv, NEW p \in Pairs, Resolver(p)
    PROVE  WorkflowInv'
<1>1. WorkflowTypeOK /\ EndsInv /\ CountsInv /\ WaitingInv /\ ResolvedWasMet
  BY DEF WorkflowInv
<1>2. /\ deps' \in [Pairs -> DependencyRow]
      /\ \A q \in Pairs :
            /\ deps'[q].dependency_type = deps[q].dependency_type
            /\ deps'[q].condition = deps[q].condition
            /\ deps'[q].status = "Resolved" =>
                  \/ deps[q].status = "Resolved"
                  \/ IsMet(deps[q], status[q.parent])
      /\ UNCHANGED <<status, attempts, budget, ends, counts, calm>>
  BY <1>1, ResolverResolves DEF vars, monitorVars
<1>3. WorkflowTypeOK'
  BY <1>1, <1>2 DEF WorkflowTypeOK
<1>4. EndsInv' /\ CountsInv'
  BY <1>1, <1>2 DEF EndsInv, CountsInv, Count, Uncounted
<1>5. WaitingInv'
  BY <1>1, <1>2 DEF WaitingInv, Waits
<1>6. ResolvedWasMet'
  <2> SUFFICES ASSUME NEW q \in Pairs, deps'[q].status = "Resolved"
               PROVE  WasMet(q)'
    BY DEF ResolvedWasMet, WasMet
  <2>1. WasMet(q)
    BY <1>1, <1>2, MetHasHappened DEF ResolvedWasMet, WasMet
  <2>2. QED
    BY <1>2, <2>1 DEF WasMet, HasSucceeded
<1>7. QED
  BY <1>3, <1>4, <1>5, <1>6 DEF WorkflowInv

\* Every step keeps the invariant.
LEMMA WorkflowStays ==
    ASSUME WorkflowInv, [WorkflowNext]_workflowVars
    PROVE  WorkflowInv'
<1>1. CASE JobStep
  BY <1>1, JobsKeepInv
<1>2. CASE MonitorNext /\ UNCHANGED <<deps, ends>>
  <2>1. UNCHANGED <<status, attempts, budget, ends, deps>>
    BY <1>2 DEF MonitorNext, BeginReport, ReadCount, vars
  <2>2. calm' \in BOOLEAN
    BY <1>2 DEF MonitorNext, BeginReport, ReadCount, WorkflowInv, WorkflowTypeOK
  <2>3. CountsInv'
    BY <1>2, BeginKeepsCount, ReadKeepsCount DEF MonitorNext, WorkflowInv
  <2>4. QED
    BY <2>1, <2>2, <2>3 DEF WorkflowInv, WorkflowTypeOK, EndsInv, WaitingInv,
                            Waits, ResolvedWasMet, HasSucceeded
<1>3. CASE \E p \in Pairs : Resolver(p)
  BY <1>3, ResolverKeepsInv
<1>4. CASE UNCHANGED workflowVars
  BY <1>4 DEF workflowVars, WorkflowInv, WorkflowTypeOK, EndsInv, WaitingInv,
              Waits, ResolvedWasMet, HasSucceeded, CountsInv, Count, Uncounted
<1>5. QED
  BY <1>1, <1>2, <1>3, <1>4 DEF WorkflowNext

\* Types, ends, counts and dependencies in every state that is reached.
THEOREM WorkflowIsSound == WorkflowSpec => []WorkflowInv
  BY WorkflowStarts, WorkflowStays, PTL DEF WorkflowSpec

\* In any graph of dependencies, a child that waits for its parent's end runs
\* beside it only after the parent has failed and was retried
\* (job_dependency.rs:73).
THEOREM ChildrenWait == WorkflowSpec => []ChildWaitsForParent
<1>1. WorkflowInv => ChildWaitsForParent
  <2> SUFFICES ASSUME WorkflowInv, NEW p \in Pairs, Waits(p),
                      status[p.child] = "Processing", status[p.parent] \in Live
               PROVE  attempts[p.parent] >= 1 /\ "Failed" \in ends[p.parent]
    BY DEF ChildWaitsForParent
  <2>1. p.parent \in Jobs
    BY PairsOfJobs
  <2>2. "Failed" \in ends[p.parent]
    BY DEF WorkflowInv, WaitingInv, Live
  <2>3. QED
    BY <2>1, <2>2 DEF WorkflowInv, EndsInv
<1>2. QED
  BY <1>1, WorkflowIsSound, PTL

\* Whatever retries and cancellations follow, a dependency that was resolved
\* had been met (job_dependency.rs:119).
THEOREM ResolvedStaysMet == WorkflowSpec => []ResolvedWasMet
<1>1. WorkflowInv => ResolvedWasMet
  BY DEF WorkflowInv
<1>2. QED
  BY <1>1, WorkflowIsSound, PTL

\* However many jobs there are, and however they go forward while the counts of
\* a report are awaited, the report misses none of them
\* (monitoring_service.rs:203-207).
THEOREM ReportsMissNoJob == WorkflowSpec => []NoJobIsMissed
<1>1. WorkflowInv => NoJobIsMissed
  <2> SUFFICES ASSUME WorkflowInv, Finished, calm
               PROVE  counts[1] <= counts[2] + counts[3] + counts[4] + counts[5]
    BY DEF NoJobIsMissed
  <2>1. Len(counts) = 5 /\ counts \in Seq(Nat)
    BY FiveCounts DEF Finished, WorkflowInv, CountsInv
  <2>2. \A n \in 1..5 : Count(n) = counts[n]
    BY <2>1 DEF Count
  <2>3. Uncounted = {}
    BY <2>1 DEF Uncounted
  <2>4. Cardinality(Uncounted) = 0
    BY <2>3, FS_EmptySet
  <2>5. Count(1) <= Count(2) + Count(3) + Count(4) + Count(5) + Cardinality(Uncounted)
    BY <2>1 DEF WorkflowInv, CountsInv
  <2>6. \A n \in 1..5 : counts[n] \in Nat
    BY <2>1, ElementOfSeq
  <2>7. QED
    BY <2>2, <2>4, <2>5, <2>6
<1>2. QED
  BY <1>1, WorkflowIsSound, PTL

-----------------------------------------------------------------------------
(***************************************************************************)
(* Powers: what the recursive function computes, by induction on sets of   *)
(* numbers.                                                                *)
(***************************************************************************)

\* A set of numbers that is not empty has a least one.
LEMMA LeastNat ==
    ASSUME NEW T \in SUBSET Nat, T # {}
    PROVE  \E x \in T : \A y \in T : x <= y
<1> DEFINE R == {ss \in Nat \X Nat : ss[1] < ss[2]}
<1>1. R = OpToRel(<, Nat)
  BY DEF OpToRel
<1>2. IsWellFoundedOn(R, Nat)
  BY <1>1, NatLessThanWellFounded
<1>3. \A x, y \in Nat : <<y, x>> \in R <=> y < x
  OBVIOUS
<1> HIDE DEF R
<1>4. PICK x \in T : \A y \in T : <<y, x>> \notin R
  BY <1>2, WFMin
<1>5. ASSUME NEW y \in T
      PROVE  x <= y
  <2>1. x \in Nat /\ y \in Nat
    OBVIOUS
  <2>2. ~ (y < x)
    BY <1>3, <1>4, <2>1
  <2>3. QED
    BY <2>1, <2>2
<1>6. QED
  BY <1>5

\* A set that has 0 and with each number the next has them all.
LEMMA NatSet ==
    ASSUME NEW S, 0 \in S, \A n \in Nat : n \in S => n + 1 \in S
    PROVE  Nat \subseteq S
<1> SUFFICES ASSUME Nat \ S # {} PROVE FALSE
  OBVIOUS
<1>1. PICK x \in Nat \ S : \A y \in Nat \ S : x <= y
  BY LeastNat
<1>2. x # 0
  OBVIOUS
<1>3. x - 1 \in Nat /\ x - 1 \in S
  BY <1>1, <1>2
<1>4. QED
  BY <1>3

\* g is the first powers of m, up to the one with exponent n.
Prefix(m, n, g) ==
    /\ g \in [0..n -> Nat]
    /\ g[0] = 1
    /\ \A i \in 1..n : g[i] = m * g[i - 1]

\* There are such powers up to every exponent,
LEMMA PrefixesExist ==
    ASSUME NEW m \in Nat, NEW n \in Nat
    PROVE  \E g : Prefix(m, n, g)
<1> DEFINE S == {k \in Nat : \E g : Prefix(m, k, g)}
<1>1. 0 \in S
  <2>1. Prefix(m, 0, [i \in 0..0 |-> 1])
    BY DEF Prefix
  <2>2. QED
    BY <2>1
<1>2. ASSUME NEW k \in Nat, k \in S
      PROVE  k + 1 \in S
  <2>1. PICK g : Prefix(m, k, g)
    BY <1>2
  <2> DEFINE h == [i \in 0..(k + 1) |-> IF i = k + 1 THEN m * g[k] ELSE g[i]]
  <2>2. g[k] \in Nat /\ m * g[k] \in Nat
    BY <2>1 DEF Prefix
  <2>3. h \in [0..(k + 1) -> Nat]
    BY <2>1, <2>2 DEF Prefix
  <2>4. h[0] = 1
    BY <2>1 DEF Prefix
  <2>5. ASSUME NEW i \in 1..(k + 1)
        PROVE  h[i] = m * h[i - 1]
    <3>1. CASE i = k + 1
      BY <3>1
    <3>2. CASE i \in 1..k
      BY <2>1, <3>2 DEF Prefix
    <3>3. QED
      BY <3>1, <3>2
  <2> HIDE DEF h
  <2>6. Prefix(m, k + 1, h)
    BY <2>3, <2>4, <2>5 DEF Prefix
  <2>7. QED
    BY <2>6
<1> HIDE DEF S
<1>3. Nat \subseteq S
  BY <1>1, <1>2, NatSet
<1>4. QED
  BY <1>3 DEF S

\* and they are the same as far as they go.
LEMMA PrefixesAgree ==
    ASSUME NEW m \in Nat, NEW n \in Nat, NEW k \in Nat, NEW g, NEW h,
           Prefix(m, n, g), Prefix(m, k, h)
    PROVE  \A i \in Nat : i <= n /\ i <= k => g[i] = h[i]
<1> DEFINE S == {i \in Nat : i <= n /\ i <= k => g[i] = h[i]}
<1>1. 0 \in S
  BY DEF Prefix
<1>2. ASSUME NEW i \in Nat, i \in S
      PROVE  i + 1 \in S
  <2> SUFFICES ASSUME i + 1 <= n, i + 1 <= k PROVE g[i + 1] = h[i + 1]
    OBVIOUS
  <2>1. g[i] = h[i]
    BY <1>2
  <2>2. i + 1 \in 1..n /\ i + 1 \in 1..k /\ (i + 1) - 1 = i
    OBVIOUS
  <2>3. g[i + 1] = m * g[i] /\ h[i + 1] = m * h[i]
    BY <2>2 DEF Prefix
  <2>4. QED
    BY <2>1, <2>3
<1> HIDE DEF S
<1>3. Nat \subseteq S
  BY <1>1, <1>2, NatSet
<1>4. QED
  BY <1>3 DEF S

\* So the function of all powers is what its definition says.
LEMMA PowersMultiply ==
    ASSUME NEW m \in Nat
    PROVE  /\ Powers(m)[0] = 1
           /\ \A n \in Nat : Powers(m)[n] \in Nat /\ Powers(m)[n + 1] = m * Powers(m)[n]
<1> DEFINE G(n) == CHOOSE g : Prefix(m, n, g)
           F == [n \in Nat |-> G(n)[n]]
<1>1. \A n \in Nat : Prefix(m, n, G(n))
  BY PrefixesExist
<1> HIDE DEF G
<1>2. F[0] = 1
  BY <1>1 DEF Prefix
<1>3. ASSUME NEW n \in Nat
      PROVE  F[n] \in Nat /\ F[n + 1] = m * F[n]
  <2>1. Prefix(m, n, G(n)) /\ Prefix(m, n + 1, G(n + 1))
    BY <1>1
  <2>2. G(n)[n] = G(n + 1)[n]
    BY <2>1, PrefixesAgree
  <2>3. G(n + 1)[n + 1] = m * G(n + 1)[(n + 1) - 1]
    BY <2>1 DEF Prefix
  <2>4. G(n)[n] \in Nat
    BY <2>1 DEF Prefix
  <2>5. QED
    BY <2>2, <2>3, <2>4
<1>4. \A n \in Nat : F[n] = IF n = 0 THEN 1 ELSE m * F[n - 1]
  <2> SUFFICES ASSUME NEW n \in Nat, n # 0 PROVE F[n] = m * F[n - 1]
    BY <1>2
  <2>1. n - 1 \in Nat /\ (n - 1) + 1 = n
    OBVIOUS
  <2>2. QED
    BY <1>3, <2>1
<1>5. F = [n \in Nat |-> IF n = 0 THEN 1 ELSE m * F[n - 1]]
  BY <1>4
<1> HIDE DEF F
<1>6. Powers(m) = [n \in Nat |-> IF n = 0 THEN 1 ELSE m * Powers(m)[n - 1]]
  BY <1>5 DEF Powers
<1> DEFINE P == Powers(m)
           S == {n \in Nat : P[n] \in Nat}
<1> HIDE DEF P
<1>7. \A n \in Nat : P[n] = IF n = 0 THEN 1 ELSE m * P[n - 1]
  BY <1>6 DEF P
<1>8. P[0] = 1 /\ \A n \in Nat : P[n + 1] = m * P[n]
  <2>1. \A n \in Nat : n + 1 \in Nat /\ n + 1 # 0 /\ (n + 1) - 1 = n
    OBVIOUS
  <2>2. QED
    BY <1>7, <2>1
<1>9. 0 \in S /\ \A n \in Nat : n \in S => n + 1 \in S
  BY <1>8
<1> HIDE DEF S
<1>10. Nat \subseteq S
  BY <1>9, NatSet
<1>11. QED
  BY <1>8, <1>10 DEF S, P

\* No power of a multiplier that does not shrink is 0.
LEMMA PowersArePositive ==
    ASSUME NEW m \in Nat, m >= 1, NEW n \in Nat
    PROVE  Powers(m)[n] >= 1
<1> DEFINE P == Powers(m)
           S == {k \in Nat : P[k] >= 1}
<1>1. P[0] = 1 /\ \A k \in Nat : P[k] \in Nat /\ P[k + 1] = m * P[k]
  BY PowersMultiply
<1> HIDE DEF P
<1>2. 0 \in S
  BY <1>1
<1>3. ASSUME NEW k \in Nat, k \in S
      PROVE  k + 1 \in S
  <2>1. PICK x \in Nat : x = P[k] /\ x >= 1
    BY <1>1, <1>3
  <2>2. m * x >= 1
    BY <2>1
  <2>3. QED
    BY <1>1, <2>1, <2>2
<1> HIDE DEF S
<1>4. Nat \subseteq S
  BY <1>2, <1>3, NatSet
<1>5. QED
  BY <1>4 DEF S, P

-----------------------------------------------------------------------------
(***************************************************************************)
(* The delay of a retry.                                                   *)
(***************************************************************************)

\* The quotient of a division and its remainder.
LEMMA Division ==
    ASSUME NEW a \in Nat, NEW b \in Nat, b >= 1
    PROVE  /\ a \div b \in Nat
           /\ b * (a \div b) <= a
           /\ a < b * (a \div b + 1)
  BY Z3

\* There are jitters from ten seconds on, and they stay within a tenth below
\* and two tenths above.
LEMMA JittersStayNear ==
    ASSUME NEW d \in Nat
    PROVE  \E r \in Nat :
              /\ 10 * r <= d /\ d < 10 * r + 10
              /\ DelaysAround(d) = {} <=> r = 0
              /\ \A x \in DelaysAround(d) : x \in Nat /\ d - r <= x /\ x < d + 2 * r
<1>1. PICK r \in Nat : r = JitterRange(d) /\ 10 * r <= d /\ d < 10 * r + 10
  <2>1. d \div 10 \in Nat /\ 10 * (d \div 10) <= d /\ d < 10 * (d \div 10) + 10
    OBVIOUS
  <2>2. QED
    BY <2>1 DEF JitterRange
<1>2. DelaysAround(d) = {IF x < 1 THEN 1 ELSE x : x \in {Jittered(d, r, i) : i \in Jitters(r)}}
  BY <1>1 DEF DelaysAround
<1>3. CASE r = 0
  <2>1. Jitters(r) = {}
    BY <1>3 DEF Jitters
  <2>2. DelaysAround(d) = {}
    BY <1>2, <2>1
  <2>3. QED
    BY <1>1, <1>3, <2>2
<1>4. CASE r >= 1
  <2>1. Jitters(r) = (1 - 2 * r)..(2 * r - 1) /\ 0 \in Jitters(r)
    BY <1>4 DEF Jitters
  <2>2. DelaysAround(d) # {}
    BY <1>2, <2>1
  <2>3. ASSUME NEW i \in Jitters(r)
        PROVE  LET x == Jittered(d, r, i)
               IN  x \in Nat /\ x >= 1 /\ d - r <= x /\ x < d + 2 * r
    <3>1. i \in Int /\ i >= 1 - 2 * r /\ i <= 2 * r - 1
      BY <2>1
    <3>2. QED
      BY <1>1, <1>4, <3>1 DEF Jittered
  <2>4. QED
    BY <1>1, <1>2, <1>4, <2>2, <2>3
<1>5. QED
  BY <1>3, <1>4

\* A backoff grows by a third, but for what truncation takes, if the
\* multiplier is 4/3 at least.
LEMMA BackoffGrows ==
    ASSUME NEW s \in RetrySettings, NEW n \in Nat, n >= 1
    PROVE  \E y \in Nat, z \in Nat :
              /\ CappedDelay(s, n) = Least(y, s.max)
              /\ CappedDelay(s, n + 1) = Least(z, s.max)
              /\ 3 * s.num >= 4 * s.den => 3 * z + 2 >= 4 * y
<1>1. PICK i \in Nat, u \in Nat, v \in Nat :
         i = s.initial /\ u = s.num /\ v = s.den /\ v >= 1
  BY DEF RetrySettings
<1>2. n - 1 \in Nat /\ (n - 1) + 1 = n /\ (n + 1) - 1 = n
  OBVIOUS
<1>3. PICK p \in Nat : p = Powers(u)[n - 1] /\ Powers(u)[n] = u * p
  <2>1. Powers(u)[n - 1] \in Nat /\ Powers(u)[n] = u * Powers(u)[n - 1]
    BY <1>2, PowersMultiply
  <2>2. QED
    BY <2>1
<1>4. PICK q \in Nat : q = Powers(v)[n - 1] /\ Powers(v)[n] = v * q /\ q >= 1
  <2>1. Powers(v)[n - 1] \in Nat /\ Powers(v)[n] = v * Powers(v)[n - 1]
    BY <1>2, PowersMultiply
  <2>2. Powers(v)[n - 1] >= 1
    BY <1>1, <1>2, PowersArePositive
  <2>3. QED
    BY <2>1, <2>2
<1>5. PICK a \in Nat, b \in Nat : a = i * p /\ b = i * (u * p) /\ b = u * a
  <2>1. i * p \in Nat /\ u * (i * p) \in Nat /\ i * (u * p) = u * (i * p)
    OBVIOUS
  <2>2. QED
    BY <2>1
<1>6. PICK e \in Nat : e = v * q /\ e >= 1
  BY <1>1, <1>4
<1>7. PICK y \in Nat : y = a \div q /\ q * y <= a
  BY <1>4, Division
<1>8. PICK z \in Nat : z = b \div e /\ b < e * (z + 1)
  BY <1>6, Division
<1>9. CappedDelay(s, n) = Least(y, s.max) /\ CappedDelay(s, n + 1) = Least(z, s.max)
  BY <1>1, <1>2, <1>3, <1>4, <1>5, <1>6, <1>7, <1>8 DEF CappedDelay
<1>10. ASSUME 3 * u >= 4 * v
       PROVE  3 * z + 2 >= 4 * y
  <2>1. u * (q * y) <= b
    BY <1>5, <1>7
  <2>2. 3 * (u * (q * y)) >= 4 * (v * (q * y))
    <3>1. PICK w \in Nat : w = q * y
      OBVIOUS
    <3>2. (3 * u) * w >= (4 * v) * w
      BY <1>10
    <3>3. QED
      BY <3>1, <3>2
  <2>3. v * (q * y) = e * y
    BY <1>6
  <2>4. e * (4 * y) < e * (3 * (z + 1))
    BY <1>8, <2>1, <2>2, <2>3
  <2>5. 4 * y < 3 * (z + 1)
    <3>1. PICK k \in Nat, l \in Nat : k = 4 * y /\ l = 3 * (z + 1)
      OBVIOUS
    <3>2. k >= l => e * k >= e * l
      OBVIOUS
    <3>3. QED
      BY <2>4, <3>1, <3>2
  <2>6. QED
    BY <2>5
<1>11. QED
  BY <1>1, <1>9, <1>10

\* A failed job that may be retried has a delay exactly if its backoff is of
\* ten seconds or more, and waits longer after its next failure, whatever the
\* jitters, if the multiplier is 4/3 or more and the maximum is not reached
\* (get_retry_delay, job.rs:171).
THEOREM RetriesWaitLonger == WorkflowSpec => []RetriesBackOff
<1>1. ASSUME WorkflowInv, NEW j \in Jobs, NEW s \in RetryPolicies,
             MayBeRetried(j), NEW n, n = attempts[j]
      PROVE  /\ RetryDelays(s, n) = {} <=> CappedDelay(s, n) < 10
             /\ 3 * s.num >= 4 * s.den /\ CappedDelay(s, n + 1) < s.max =>
                   \A d \in RetryDelays(s, n), e \in RetryDelays(s, n + 1) : d < e
  <2>1. n \in Nat /\ n >= 1
    BY <1>1 DEF WorkflowInv, WorkflowTypeOK, EndsInv, MayBeRetried, Begun, Ended
  <2>2. s \in RetrySettings
    BY WorkflowAssumption
  <2>3. PICK m \in Nat : m = s.max
    BY <2>2 DEF RetrySettings
  <2>4. PICK y \in Nat, z \in Nat :
           /\ CappedDelay(s, n) = Least(y, m)
           /\ CappedDelay(s, n + 1) = Least(z, m)
           /\ 3 * s.num >= 4 * s.den => 3 * z + 2 >= 4 * y
    BY <2>1, <2>2, <2>3, BackoffGrows
  <2>5. PICK c \in Nat : c = CappedDelay(s, n) /\ c <= y
    BY <2>4 DEF Least
  <2>6. PICK r \in Nat :
           /\ 10 * r <= c /\ c < 10 * r + 10
           /\ DelaysAround(c) = {} <=> r = 0
           /\ \A d \in DelaysAround(c) : d \in Nat /\ c - r <= d /\ d < c + 2 * r
    BY JittersStayNear
  <2>7. ASSUME 3 * s.num >= 4 * s.den, CappedDelay(s, n + 1) < m,
               NEW d \in DelaysAround(c), NEW e \in RetryDelays(s, n + 1)
        PROVE  d < e
    <3>1. CappedDelay(s, n + 1) = z
      BY <2>4, <2>7 DEF Least
    <3>2. e \in DelaysAround(z)
      BY <3>1 DEF RetryDelays
    <3>3. PICK t \in Nat :
             /\ 10 * t <= z /\ z < 10 * t + 10
             /\ \A x \in DelaysAround(z) : x \in Nat /\ z - t <= x
      BY JittersStayNear
    <3>4. e \in Nat /\ z - t <= e
      BY <3>2, <3>3
    <3>5. d \in Nat /\ d < c + 2 * r
      BY <2>6
    <3>6. 3 * z + 2 >= 4 * c
      BY <2>4, <2>5, <2>7
    <3>7. QED
      BY <2>6, <3>3, <3>4, <3>5, <3>6
  <2>8. QED
    BY <2>3, <2>5, <2>6, <2>7 DEF RetryDelays
<1>2. WorkflowInv => RetriesBackOff
  BY <1>1 DEF RetriesBackOff
<1>3. QED
  BY <1>2, WorkflowIsSound, PTL
=============================================================================
