CONSTANTS
    Requests <- MCRequests
    Deployments <- MCDeployments
    KindOf <- MCKindOf
    Routes <- MCRoutes
    HasTeam <- MCHasTeam
    BodyKinds = {"stream"}
    MaxTokens = 1
    MaxRefusals = 0
SPECIFICATION Spec
INVARIANT StreamFiledAtMostOnce
