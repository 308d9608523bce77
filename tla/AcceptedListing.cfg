\* Requests one at a time, none of which fails.
CONSTANTS
    alice = alice
    bob = bob
    a1 = a1
    a2 = a2
    u1 = u1
    b1 = b1
    f1 = f1
    f2 = f2
    repo = repo
    None = None
    Requests = {q1}
    Users = {alice, bob}
    Reports = {a1, a2, u1, b1}
    Fingerprints = {f1, f2}
    Repositories = {repo}
    OwnerOf <- MCOwnerOf
    RepositoryOf <- MCRepositoryOf
    FindingsOf <- MCFindingsOf
    CreatedAt <- MCCreatedAt
    RefreshLimit = 100
    MayFail = FALSE
SPECIFICATION Spec
INVARIANTS
    ListingMatchesPage
CHECK_DEADLOCK FALSE
