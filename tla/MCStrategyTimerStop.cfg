CONSTANTS
    MaxSessions <- MCMaxSessions
    Weights <- MCWeights
    Averages <- MCAverages
    Draws <- MCDraws
    MaxTrades <- MCMaxTrades
SPECIFICATION Spec
INVARIANT LoopStopsAtEndOfSession
CHECK_DEADLOCK FALSE
