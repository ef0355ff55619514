SPECIFICATION FairSpec
INVARIANTS TypeOK ReplacedOnlyOnSuccess EndIsClean
PROPERTIES RenderReturns ImplementsCall
CHECK_DEADLOCK FALSE
