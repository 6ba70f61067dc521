CONSTANTS
    Artifacts <- MCArtifacts
    SignedBy <- MCSignedBy
    Callers = {"x", "y"}
    QueueCap = 1
    Reserved = {"env"}
    Builtin = {"builtin"}
    Deployments <- MCDeployments
SPECIFICATION Spec
INVARIANTS LoadedBytesVerified InstancesFreedOnce InstanceOutlivesUse BridgeOutlivesCallbacks AnswersEarned IdentityDiesWithDispatch RegistryConsistent
PROPERTIES BoundedCallsEnd ShutdownMovesOn
CHECK_DEADLOCK FALSE
