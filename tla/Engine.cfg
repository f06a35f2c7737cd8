SPECIFICATION FairSpec
CONSTANTS
    a = a
    b = b
    r1 = r1
    r2 = r2
    s1 = s1
    s2 = s2
    None = None
    Controllers = {c1, c2}
    Ids = {a, b}
    Routes = {r1, r2}
    Servers = {s1, s2}
    Lists <- MCLists
    MaxAttempts = 2
    CallsEnd = FALSE
INVARIANTS TypeOK FrontendHasBackend AttemptsInOrder MakeBeforeBreak Settled
PROPERTIES UpdateKeepsLive RefinesTable LockReleased
