----------------------------- MODULE MCWorkflow -----------------------------
(***************************************************************************)
(* Instances of Workflow for TLC: a job, one that depends on it, and one   *)
(* that the first depends on.                                              *)
(***************************************************************************)
EXTENDS Workflow

CONSTANTS grandparent, parent, child

Chain == {[parent |-> grandparent, child |-> parent],
          [parent |-> parent, child |-> child]}

ChainDependents == [j \in Jobs |-> CASE j = grandparent -> {parent}
                                     [] j = parent      -> {child}
                                     [] j = child       -> {}]

\* Every rule that the methods tell apart.
SomeRules == {<<"Sequential", "None">>, <<"Sequential", "succeeded">>,
              <<"Parallel", "None">>, <<"Conditional", "succeeded">>,
              <<"Conditional", "failed">>, <<"Conditional", "other">>,
              <<"FanIn", "None">>, <<"FanOut", "None">>}

\* The child waits for its parent's end, or for one end of the two.
ChainRules ==
    [p \in Chain |->
        IF p.parent = grandparent THEN SomeRules
        ELSE {<<"Sequential", "None">>, <<"Conditional", "succeeded">>,
              <<"Conditional", "failed">>}]

Settings(initial, max, num, den) ==
    [initial |-> initial, max |-> max, num |-> num, den |-> den]

\* Around ten seconds, with whole and with fractional multipliers, of which the
\* last is too small to outdo the jitter.
SomeDelays == {DefaultSettings, Settings(9, 300, 4, 3), Settings(10, 300, 4, 3),
               Settings(45, 120, 3, 1), Settings(100, 300, 5, 4)}

ShortDelays == {DefaultSettings}
=============================================================================
