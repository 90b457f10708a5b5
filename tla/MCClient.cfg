CONSTANTS
    Users = {u1, u2, u3}
    Strangers = {}
    Pwd = {p1}
    ALL = ALL
    None = None
    Fd = {f1, f2}
    Ops = {"username", "chatrecord", "textmsg", "change_pwd"}
    DbFaults = FALSE
    Crashes = FALSE
    RecordCnt = 1
    MaxQue = 2
    MaxRecords = 1
    MaxFiles = 0
    Me = u1
SPECIFICATION MCSpec
SYMMETRY Symmetry
INVARIANTS
    AnswersMatch
    FiledRight
    NothingMissed
    ContactsOnce
    PrivateStaysPrivate
