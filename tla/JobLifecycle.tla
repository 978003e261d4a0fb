---------------------------- MODULE JobLifecycle ----------------------------
(***************************************************************************)
(* What the job service promises of a job, whatever its handlers read and  *)
(* write: a job is started from Pending or Scheduled only, each start is   *)
(* counted, a failed job comes back only while it has attempts left,       *)
(* Cancelled is final, and a job that has finished is cancelled only if a  *)
(* job it depends on is.                                                   *)
(***************************************************************************)
EXTENDS Integers

CONSTANTS Jobs, Dependents

VARIABLES
    status,    \* status[j], "Absent" before job j is created
    attempts,  \* attempts[j]: how many times job j was started
    budget     \* budget[j]: how many times it may be

vars == <<status, attempts, budget>>

Live == {"Pending", "Scheduled", "Processing"}

Moves(j, s) ==
    /\ status' = [status EXCEPT ![j] = s]
    /\ UNCHANGED <<attempts, budget>>

Create(j) ==
    /\ status[j] = "Absent"
    /\ \E s \in {"Pending", "Scheduled"} : status' = [status EXCEPT ![j] = s]
    /\ \E b \in 1..10 : budget' = [budget EXCEPT ![j] = b]
    /\ UNCHANGED attempts

Start(j) ==
    /\ status[j] \in {"Pending", "Scheduled"}
    /\ attempts[j] < budget[j]
    /\ status' = [status EXCEPT ![j] = "Processing"]
    /\ attempts' = [attempts EXCEPT ![j] = attempts[j] + 1]
    /\ UNCHANGED budget

Defer(j) == status[j] = "Pending" /\ Moves(j, "Scheduled")

Finish(j) ==
    /\ status[j] = "Processing"
    /\ \E s \in {"Succeeded", "Failed"} : Moves(j, s)

Retry(j) ==
    /\ status[j] = "Failed"
    /\ attempts[j] < budget[j]
    /\ \E s \in {"Pending", "Scheduled"} : Moves(j, s)

Cancel(j) == status[j] \in Live /\ Moves(j, "Cancelled")

CancelWith(j, p) ==
    /\ j \in Dependents[p]
    /\ status[p] = "Cancelled"
    /\ status[j] # "Absent"
    /\ Moves(j, "Cancelled")

Init ==
    /\ status = [j \in Jobs |-> "Absent"]
    /\ attempts = [j \in Jobs |-> 0]
    /\ budget = [j \in Jobs |-> 1]

Next ==
    \E j \in Jobs :
        \/ Create(j)
        \/ Start(j)
        \/ Defer(j)
        \/ Finish(j)
        \/ Retry(j)
        \/ Cancel(j)
        \/ \E p \in Jobs : CancelWith(j, p)

Spec == Init /\ [][Next]_vars
=============================================================================
