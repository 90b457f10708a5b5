CONSTANTS
    Users = {u1, u2}
    Strangers = {}
    Pwd = {p1}
    ALL = ALL
    None = None
    Fd = {f1, f2}
    Ops = {"textmsg", "ask"}
    DbFaults = FALSE
    Crashes = FALSE
    RecordCnt = 1
    MaxQue = 2
    MaxRecords = 1
    MaxFiles = 1
SPECIFICATION Spec
INVARIANTS
    RequestAsserts
