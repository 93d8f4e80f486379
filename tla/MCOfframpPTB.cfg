CONSTANTS
    GasBudget   <- MCGasBudget
    LowBalance  <- MCLowBalance
    FaucetGrant <- MCFaucetGrant
    BalanceCap  <- MCBalanceCap

SPECIFICATION Spec

INVARIANT TypeOK
INVARIANT BlockWellFormed
INVARIANT NotExecutedExitsOne

PROPERTY Termination
PROPERTY BatchRefinement

CHECK_DEADLOCK FALSE
