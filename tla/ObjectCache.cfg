SPECIFICATION CacheSpec
CONSTANTS
    None = None
    BadRegexps = {"|(|"}
    Digits <- MCDigits
    Less <- MCLess
    Clusters <- AllClusters
    Reliable = FALSE
    MaxChanges = 3
    MaxDeltas = 3
INVARIANTS TypeOK LastEventIrrelevant QueueMatchesItems OldIsWhatWasTold
