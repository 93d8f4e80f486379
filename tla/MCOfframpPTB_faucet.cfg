CONSTANTS
    GasBudget   <- MCGasBudget
    LowBalance  <- MCLowBalance
    FaucetGrant <- MCFaucetGrant
    BalanceCap  <- MCBalanceCap

SPECIFICATION Spec

INVARIANT FaucetServesNetwork

CHECK_DEADLOCK FALSE
