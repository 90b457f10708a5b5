CONSTANTS
    Users = {u1, u2}
    Strangers = {}
    Pwd = {p1, p2}
    ALL = ALL
    None = None
    Fd = {f1, f2}
    Ops = {"change_pwd", "ask", "rep", "data", "ack"}
    DbFaults = FALSE
    Crashes = FALSE
    RecordCnt = 1
    MaxQue = 2
    MaxRecords = 0
    MaxFiles = 2
SPECIFICATION Spec
SYMMETRY Symmetry
INVARIANTS
    NoMisdelivery
PROPERTIES
    PasswordNeedsOld
    FileConsent
    PermittedKept
