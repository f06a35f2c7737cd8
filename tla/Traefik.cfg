SPECIFICATION Spec
CONSTANTS
    None = None
    Servers = {"a", "b"}
    Rules = {"host", "path"}
    Values = {"h1", "h2"}
    Wants <- MCWants
    Faulty = {"backends", "frontends"}
INVARIANTS NeverFewerServers CleanUpsertPublishes
