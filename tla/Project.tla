------------------------------ MODULE Project ------------------------------
(***************************************************************************)
(* The project row of src/models/project.rs: whether it is active, and its *)
(* queues and workers, as get_usage_stats counts them.  Names and          *)
(* descriptions are text.                                                  *)
(***************************************************************************)
EXTENDS Organization

ProjectRow == [is_active : BOOLEAN, queues : Nat, workers : Nat]

NewProject == [is_active |-> TRUE, queues |-> 0, workers |-> 0]

CanBeUsed(p) == p.is_active

Deactivate(p) == [p EXCEPT !.is_active = FALSE]

Activate(p) == [p EXCEPT !.is_active = TRUE]

\* The counts are those of this project alone.
IsWithinOrganizationLimits(p, t) ==
    /\ p.queues < UsageLimits(t).queues
    /\ p.workers < UsageLimits(t).workers
=============================================================================
