---------------------------- MODULE JobDependency ----------------------------
(***************************************************************************)
(* The dependency row of src/models/job_dependency.rs and its methods: a   *)
(* child job waits for a parent job.  Two methods answer, each with rules  *)
(* of its own: is_met, whether the dependency may be marked as resolved,   *)
(* and can_execute_child, whether the child may be started.                *)
(***************************************************************************)
DependencyType == {"Sequential", "Parallel", "Conditional", "FanIn", "FanOut"}

DependencyStatus == {"Pending", "Resolved", "Failed", "Cancelled"}

\* condition is an Option<String>: None, one of the strings that the methods
\* look for, or any other.
Condition == {"None", "succeeded", "failed", "always", "other"}

DependencyRow == [dependency_type : DependencyType,
                  condition       : Condition,
                  status          : DependencyStatus]

\* validate.
IsValidPair(p) == p.parent # p.child

NewDependency(t, c) == [dependency_type |-> t, condition |-> c, status |-> "Pending"]

Ended == {"Succeeded", "Failed"}

Begun == {"Processing"} \cup Ended

\* The parent's status that a condition asks for; both methods take a
\* condition they do not know for something, and each for something else.
Asked(c) == CASE c = "succeeded" -> {"Succeeded"}
              [] c = "failed"    -> {"Failed"}

\* Mutant of CanExecuteChild: a sequential child does not wait for the end.
ExecuteEarly(d, parent) ==
    CASE d.dependency_type = "Parallel" -> parent = "Processing"
      [] OTHER                          -> parent \in Begun

CanExecuteChild(d, parent) ==
    CASE d.dependency_type = "Parallel" -> parent = "Processing"
      [] d.dependency_type = "Sequential" /\ d.condition \in {"succeeded", "failed"} ->
            parent \in Asked(d.condition)
      [] d.dependency_type = "Conditional" ->
            parent = IF d.condition = "failed" THEN "Failed" ELSE "Succeeded"
      [] OTHER -> parent \in Ended

\* Mutant of IsMet: a conditional dependency does not look at its condition.
MetByAnyEnd(d, parent) ==
    parent \in IF d.dependency_type \in {"Parallel", "FanOut"} THEN Begun ELSE Ended

IsMet(d, parent) ==
    CASE d.dependency_type \in {"Sequential", "FanIn"} -> parent \in Ended
      [] d.dependency_type \in {"Parallel", "FanOut"}  -> parent \in Begun
      [] d.dependency_type = "Conditional" ->
            /\ d.condition \in {"succeeded", "failed"}
            /\ parent \in Asked(d.condition)

GetRequiredStatus(d) ==
    CASE d.dependency_type \in {"Sequential", "FanIn"} -> {"Succeeded", "Failed"}
      [] d.dependency_type \in {"Parallel", "FanOut"}  -> {"Processing", "Succeeded", "Failed"}
      [] d.dependency_type = "Conditional" ->
            IF d.condition \in {"succeeded", "failed"} THEN Asked(d.condition) ELSE {}

MarkAsResolved(d) == [d EXCEPT !.status = "Resolved"]

MarkAsFailedDependency(d) == [d EXCEPT !.status = "Failed"]

MarkAsCancelledDependency(d) == [d EXCEPT !.status = "Cancelled"]
=============================================================================
