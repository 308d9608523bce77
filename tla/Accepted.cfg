\* Two concurrent requests over two owners of one repository.
CONSTANTS
    alice = alice
    bob = bob
    a1 = a1
    a2 = a2
    u1 = u1
    b1 = b1
    f1 = f1
    f2 = f2
    repo = repo
    None = None
    Requests = {q1, q2}
    Users = {alice, bob}
    Reports = {a1, a2, u1, b1}
    Fingerprints = {f1, f2}
    Repositories = {repo}
    OwnerOf <- MCOwnerOf
    RepositoryOf <- MCRepositoryOf
    FindingsOf <- MCFindingsOf
    CreatedAt <- MCCreatedAt
    RefreshLimit = 1
    MayFail = TRUE
SPECIFICATION Spec
SYMMETRY RequestSymmetry
INVARIANTS
    CacheIsScoped
    DeletedStaysDeleted
PROPERTIES
    RefreshSettles
CHECK_DEADLOCK FALSE
