SPECIFICATION Spec
CONSTANTS
    None = None
    BadRegexps = {"|(|"}
    Digits <- MCDigits
    Less <- MCLess
    Clusters <- TwoPorts
    Reliable = TRUE
    MaxChanges = 4
    MaxDeltas = 3
    Ids <- MCIds
    Routes <- MCRoutes
    Servers <- MCServers
    MaxAttempts = 1
    Trouble = {}
INVARIANTS NoGhost
