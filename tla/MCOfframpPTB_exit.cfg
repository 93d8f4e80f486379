CONSTANTS
    GasBudget   <- MCGasBudget
    LowBalance  <- MCLowBalance
    FaucetGrant <- MCFaucetGrant
    BalanceCap  <- MCBalanceCap

SPECIFICATION Spec

INVARIANT ExitStatusMatchesOutcome

CHECK_DEADLOCK FALSE
