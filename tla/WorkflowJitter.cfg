\* The default retry settings: a failed job has no delay to be retried after.
SPECIFICATION WorkflowSpec
CONSTANTS
    grandparent = grandparent
    parent = parent
    child = child
    Jobs = {grandparent, parent, child}
    Dependents <- ChainDependents
    Pairs <- Chain
    Rules <- ChainRules
    Budgets = {2}
    Watched = {}
    RetryPolicies <- ShortDelays
INVARIANT RetryHasDelay
CHECK_DEADLOCK FALSE
