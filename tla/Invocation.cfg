SPECIFICATION FairSpec
CONSTANT Calls = 3
INVARIANTS TypeOK ChildAccounted CancelHeard
PROPERTY CallReturns
CHECK_DEADLOCK FALSE
