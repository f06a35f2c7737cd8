SPECIFICATION FairLeftovers
CONSTANTS
    None = None
    BadRegexps = {"|(|"}
    Digits <- MCDigits
    Less <- MCLess
    Clusters <- Small
    Reliable = TRUE
    MaxChanges = 3
    MaxDeltas = 2
    Ids <- MoreIds
    Routes <- MCRoutes
    Servers <- MCServers
    MaxAttempts = 1
    Trouble = {"burst", "missed", "lag", "crash"}
INVARIANTS AccountedFor
PROPERTIES LiveIsPublished KnownConverges
