\* A chain of three jobs, the first two under every rule, two attempts each;
\* and health reports that these two move under while the third is not there.
SPECIFICATION WorkflowSpec
CONSTANTS
    grandparent = grandparent
    parent = parent
    child = child
    Jobs = {grandparent, parent, child}
    Dependents <- ChainDependents
    Pairs <- Chain
    Rules <- ChainRules
    Budgets = {2}
    Watched = {grandparent, parent}
    RetryPolicies <- SomeDelays
INVARIANTS NoJobIsMissed ChildWaitsForParent ResolvedWasMet DependencyTestsAgree RetriesBackOff
CHECK_DEADLOCK FALSE
