CONSTANTS
    Users = {u1, u2}
    Strangers = {u9}
    Pwd = {p1}
    ALL = ALL
    None = None
    Fd = {f1, f2, f3}
    Ops = {"username"}
    DbFaults = TRUE
    Crashes = TRUE
    RecordCnt = 1
    MaxQue = 2
    MaxRecords = 0
    MaxFiles = 0
SPECIFICATION FairSpec
INVARIANTS
    TypeOK
    SessionsInverse
    WritableIffQueued
    ClosedIsClean
    
    LoginReplyFirst
    NothingAfterShutdown
    
    UserlistFits
PROPERTIES
    TakeoverShutsDown
    SessionsSpec
    ShutdownCloses
    LoginAnswered
