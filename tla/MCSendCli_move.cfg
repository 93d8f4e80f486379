CONSTANTS
    Width <- MCWidth
    Selectors <- MCSelectors
    Receivers <- MCReceivers
    Payloads <- MCPayloads
    Deployments <- MCSeparate

SPECIFICATION Spec

INVARIANT BlockWellFormed

CHECK_DEADLOCK FALSE
