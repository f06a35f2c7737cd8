SPECIFICATION LeftoversSpec
CONSTANTS
    None = None
    BadRegexps = {"|(|"}
    Digits <- MCDigits
    Less <- MCLess
    Clusters <- Varied
    Reliable = TRUE
    MaxChanges = 3
    MaxDeltas = 2
    Ids <- MoreIds
    Routes <- MCRoutes
    Servers <- MCServers
    MaxAttempts = 1
    Trouble = {"fault"}
INVARIANTS AccountedFor OnlyGivenUpStays 
PROPERTIES RefinesTable
