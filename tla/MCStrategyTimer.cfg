CONSTANTS
    MaxSessions <- MCMaxSessions
    Weights <- MCWeights
    Averages <- MCAverages
    Draws <- MCDraws
    MaxTrades <- MCMaxTrades
SPECIFICATION Spec
INVARIANT LoopAliveWhileRunning
INVARIANT ArbRunsWhileBothOpen
INVARIANT TradeSideWithinSides
PROPERTY LoopsConverge
CHECK_DEADLOCK FALSE
