-------------------------- MODULE MCAuthorization --------------------------
(***************************************************************************)
(* Instances of Authentication and of Authorization for TLC: one run looks *)
(* at the tokens and at the resources, of which neither reads the other's. *)
(***************************************************************************)
EXTENDS Authentication, Authorization, TLC

CONSTANTS ours, theirs, p1, p2, q1, q2, q3

SomeKeyPermissions == [a \in ApiKeys |-> {"job:read"}]

\* The first project is ours, the second theirs.
TwoProjects == [p \in Projects |-> IF p = p1 THEN ours ELSE theirs]

WorkersOfFirst == [w \in WorkerIds |-> p1]

\* The first two queues are in our project, the third in theirs.
QueuesOfBoth == [q \in QueueIds |-> IF q = q3 THEN p2 ELSE p1]

ResourceSymmetry == Permutations({q1, q2})

\* Bound: while one part moves, the other is as it began.
TokensFirst == home = [u \in Callers |-> ours] /\ AccessInit

ResourcesFirst == users = [u \in Users |-> NewUser(ours, "Member")] /\ AuthInit

BothInit == AuthInit /\ AccessInit /\ (TokensFirst \/ ResourcesFirst)

BothNext ==
    \/ TokensFirst /\ AuthNext /\ UNCHANGED accessVars
    \/ ResourcesFirst /\ AccessNext /\ UNCHANGED authVars

BothSpec == BothInit /\ [][BothNext]_<<authVars, accessVars>>
=============================================================================
