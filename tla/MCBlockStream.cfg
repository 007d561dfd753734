SPECIFICATION FairSpec
CONSTANTS
    StartBlock = 4
    EndBlock = 7
    Slots = 2
INVARIANTS
    SlotsRespected
    OkMeansComplete
    QuietAfterReturn
PROPERTIES
    HandlerReturns
    ImplementsPromise
