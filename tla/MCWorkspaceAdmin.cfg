CONSTANTS
    Clients = {c1, c2}
    Workspaces = {w1, w2}
    Repositories = {alpha, beta}
    Checkouts = {main, worktree, clone, other}
    Plugins = {p1}
    alpha = alpha
    beta = beta
    main = main
    worktree = worktree
    clone = clone
    other = other
    git = git
    None = None
    IdentityOf <- MCIdentityOf
    Linked <- MCLinked
    Administrative <- MCAdministrative
    Selections <- MCSelections
    MaxRequests = 2
    MaxEvents = 1
    MaxFaults = 1
SPECIFICATION Spec
INVARIANTS
    StoredSelectionsResolve
    WatchedAsOwned
    OwnersCounted
PROPERTIES
    RegistrationsSurviveRestart
    RequestsAreAnswered
    RegisteredIsIndexed
CHECK_DEADLOCK FALSE
