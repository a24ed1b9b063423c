SPECIFICATION FairSpec
CONSTANTS
    Submitters = {s1, s2}
    Tryers = {}
    Finishers = {f1}
    Capacity = 1
    Reasons = {"ApplicationError"}
    Failure = "ApplicationError"
    NoCall = NoCall
PROPERTIES
    ShutdownCompletes
CHECK_DEADLOCK FALSE
