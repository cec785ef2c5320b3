SPECIFICATION FairPoolSpec
CONSTANTS
    Calls = {"q1", "q2", "b1", "b2"}
    Batch = {"b1", "b2"}
    Slots = 2

PROPERTIES EveryCallReturns
CHECK_DEADLOCK FALSE
