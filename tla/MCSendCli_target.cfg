CONSTANTS
    Width <- MCWidth
    Selectors <- MCSelectors
    Receivers <- MCReceivers
    Payloads <- MCPayloads
    Deployments <- MCSeparate

SPECIFICATION Spec

INVARIANT SendInOnrampPackage

CHECK_DEADLOCK FALSE
