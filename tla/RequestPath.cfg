CONSTANTS
    Requests = {"call"}
    Surfaces = {"surface"}
    Emitters = {"call", "surface"}
    SinkOrder <- MCSinkOrder
    Gating <- MCGating
    AllowActions <- MCAllowActions
    DenyActions <- MCDenyActions
    OtherEvents <- MCOtherEvents
    PolicyOf <- MCPolicyOf
    InFlight = 1
    NodeId = TRUE
    Deployments <- MCDeployments
    Enforce = {"pay"}
    Payment = {"pay"}
SPECIFICATION Spec
INVARIANTS VerdictFollowsChain AcceptedCallsRecorded ChainOnRecord PermitsConserved NoPlainAttribute
PROPERTIES CallsEnd
CHECK_DEADLOCK FALSE
