SPECIFICATION FairSpec
CONSTANTS
    Submitters = {s1}
    Tryers = {t1}
    Finishers = {f1, f2}
    Capacity = 2
    Reasons = {"UserQuit", "ApplicationError"}
    Failure = "ApplicationError"
    NoCall = NoCall
INVARIANTS
    TypeOK
    ReservationsCounted
    GracefulEndLosesNothing
    JoinersAgree
PROPERTIES
    NothingAfterFinish
    ImplementsTransport
    AdmittedCallsReturn
    ShutdownCompletes
    DroppedIsReaped
CHECK_DEADLOCK FALSE
