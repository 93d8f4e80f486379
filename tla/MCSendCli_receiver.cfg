CONSTANTS
    Width <- MCWidth
    Selectors <- MCSelectors
    Receivers <- MCReceivers
    Payloads <- MCPayloads
    Deployments <- MCSeparate

SPECIFICATION Spec

INVARIANT BytesDelivered

CHECK_DEADLOCK FALSE
