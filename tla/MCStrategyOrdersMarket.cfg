CONSTANTS
    PriceBits <- MCPriceBits
    QuantityBits <- MCQuantityBits
    Sizes <- MCSizes
    Distances <- MCDistances
    DailySizes <- MCDailySizes
    IcebergSize <- MCIcebergSize
    Spread <- MCSpread

SPECIFICATION Spec

INVARIANT LimitOrdersArePriced
