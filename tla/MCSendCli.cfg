CONSTANTS
    Width <- MCWidth
    Selectors <- MCSelectors
    Receivers <- MCReceivers
    Payloads <- MCPayloads
    Deployments <- MCAllLayouts

SPECIFICATION Spec

INVARIANT TypeOK
INVARIANT SignedOnlyWhenValid
INVARIANT BlockMatchesPoolKind
INVARIANT NotExecutedExitsOne

PROPERTY BatchRefinement

CHECK_DEADLOCK FALSE
