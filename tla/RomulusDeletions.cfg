SPECIFICATION FairSpec
CONSTANTS
    None = None
    BadRegexps = {"|(|"}
    Digits <- MCDigits
    Less <- MCLess
    Clusters <- Small
    Reliable = TRUE
    MaxChanges = 3
    MaxDeltas = 3
    Ids <- MCIds
    Routes <- MCRoutes
    Servers <- MCServers
    MaxAttempts = 1
    Trouble = {"missed"}
PROPERTIES ToldConverges
