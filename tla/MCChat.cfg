CONSTANTS
    Users = {u1, u2}
    Strangers = {}
    Pwd = {p1}
    ALL = ALL
    None = None
    Fd = {f1, f2, f3}
    Ops = {"textmsg", "chatrecord", "unknown"}
    DbFaults = TRUE
    Crashes = FALSE
    RecordCnt = 1
    MaxQue = 2
    MaxRecords = 2
    MaxFiles = 0
SPECIFICATION Spec
SYMMETRY Symmetry
INVARIANTS
    TextsDue
    AnswersTheLatest
