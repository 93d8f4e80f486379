CONSTANTS
    GasBudget   <- MCGasBudget
    LowBalance  <- MCLowBalance
    FaucetGrant <- MCFaucetGrant
    BalanceCap  <- MCBalanceCap

SPECIFICATION Spec

INVARIANT MissingIdsFailEarly

CHECK_DEADLOCK FALSE
