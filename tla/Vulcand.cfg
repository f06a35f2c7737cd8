SPECIFICATION Spec
CONSTANTS
    s1 = s1
    s2 = s2
    s3 = s3
    r1 = r1
    r2 = r2
    m1 = m1
    m2 = m2
    None = None
    Servers = {s1, s2, s3}
    Routes = {r1, r2}
    Mids = {m1, m2}
    Wants <- MCWants
INVARIANTS TypeOK MeetsContract CleanUpsertRepairs
PROPERTIES WantedServersStay
