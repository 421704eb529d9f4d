CONSTANTS
    Requests <- MCRequests
    Deployments <- MCDeployments
    KindOf <- MCKindOf
    Routes <- MCRoutes
    HasTeam <- MCHasTeam
    BodyKinds = {"stream", "full"}
    MaxTokens = 2
    MaxRefusals = 1
SPECIFICATION FairSpec
INVARIANTS
    TypeOK
    OneAuthor
    AnsweredIsFiledOnce
    FiledTwiceOnlyOnHangup
    AskedInOrder
PROPERTIES
    NoAskAfterCommit
    EveryTurnEnds
