\* A user whose role, organization and activity change, with two tokens; and
\* three queues, a worker and a job that come and go while they are listed,
\* or while it is asked whose they are.
SPECIFICATION BothSpec
CONSTANTS
    ours = ours
    theirs = theirs
    p1 = p1
    p2 = p2
    Users = {u1}
    Orgs = {ours, theirs}
    ApiKeys = {a1}
    KeyPermissions <- SomeKeyPermissions
    Asked = {"admin"}
    TokenLife = 1
    RefreshLife = 2
    Leeway = 0
    MaxTokens = 1
    MaxCalls = 1
    MaxTime = 2
    Callers = {c1}
    Organizations = {ours, theirs}
    Projects = {p1, p2}
    ProjectOrg <- TwoProjects
    WorkerIds = {w1}
    WorkerProject <- WorkersOfFirst
    q1 = q1
    q2 = q2
    q3 = q3
    QueueIds = {q1, q2, q3}
    QueueProject <- QueuesOfBoth
    JobIds = {j1}
    MaxPuts = 1
    None = None
INVARIANTS TokensWereTrue GrantsAreRecent TokensFollowRows WalksAreRight ListingIsSound
SYMMETRY ResourceSymmetry
