SPECIFICATION CacheSpec
CONSTANTS
    None = None
    BadRegexps = {"|(|"}
    Digits <- MCDigits
    Less <- MCLess
    Clusters <- Readme
    Reliable = TRUE
    MaxChanges = 4
    MaxDeltas = 3
INVARIANTS IngressRouteUsed
