CONSTANTS
    Width <- MCWidth
    Selectors <- MCSelectors
    Receivers <- MCReceivers
    Payloads <- MCPayloads
    Deployments <- MCSeparate

SPECIFICATION Spec

INVARIANT MissingKeyDiagnosed

CHECK_DEADLOCK FALSE
