------------------------------ MODULE Database ------------------------------
(***************************************************************************)
(* The queries of src/server/Database.cpp, as operators over the tables    *)
(* of src/design.sql.  A table is a value: `login` is a function from the  *)
(* registered uids to rows, `record` a sequence whose index is the         *)
(* AUTO_INCREMENT key rid, `filetrans` a set of rows keyed by tid.  An      *)
(* update returns the new table.                                           *)
(*                                                                         *)
(* Passwords are compared, never inspected: the MD5 digest stored in the   *)
(* table is abstracted to the password itself.                             *)
(*                                                                         *)
(* UpdateLegalUnchecked, SkippedOneMore, PermitSwapped and DeleteAnyRecord *)
(* are variants of the operator after them, as a slip in that place of the *)
(* code would make it. No behaviour uses a variant; the README says which  *)
(* property depends on the place.                                          *)
(***************************************************************************)
EXTENDS Naturals, Integers, Sequences, FiniteSets

CONSTANTS
    Users,      \* the uids with a row in table login
    Strangers,  \* uids a request may name that have no row
    Pwd,        \* passwords
    ALL,        \* uid 0xFFFF, the group everybody is in
    None        \* no value

ASSUME NamesAssumption ==
    /\ ALL \notin Users /\ ALL \notin Strangers
    /\ None \notin Users
    /\ Users \cap Strangers = {}
    /\ IsFiniteSet(Users)

(* The uids a sendid or recvid column, or a request, may hold.             *)
Uids == Users \cup Strangers \cup {ALL}

LoginRow     == [password : Pwd, first : BOOLEAN]
RecordRow    == [sendid : Users, recvid : Uids]
FiletransRow == [tid : Nat, sendid : Users, recvid : Users,
                 allsiz : Nat, succsiz : Nat, statue : {0, 1}]

-----------------------------------------------------------------------------
(* login_check when both queries succeed: legal is the comparison the      *)
(* first query counts.                                                     *)
LoginCheck(login, uid, passwd) == login[uid].password = passwd

(* check_uid: whether a row has this uid.                                  *)
CheckUid(uid) == uid \in Users

(* The values the local `legal` of update_passwd can have when its update  *)
(* is reached.  Neither return value of its two lookups is read.  When     *)
(* they succeed, legal is login_check's answer.  When login_check's query  *)
(* fails, legal still holds what check_uid stored in it: TRUE, the user    *)
(* exists.  When check_uid's query fails it holds FALSE (the name it did   *)
(* not fetch matches no row) or was never written.                         *)
UpdateLegalUnchecked(login, uid, oldpasswd, faults) == {TRUE}
UpdateLegal(login, uid, oldpasswd, faults) ==
    IF faults THEN BOOLEAN ELSE {LoginCheck(login, uid, oldpasswd)}

(* The update of update_passwd.                                            *)
SetPasswd(login, uid, newpasswd) ==
    [login EXCEPT ![uid] = [password |-> newpasswd, first |-> FALSE]]

-----------------------------------------------------------------------------
(* save_message: one more row.                                             *)
SaveMessage(record, sendid, recvid) ==
    Append(record, [sendid |-> sendid, recvid |-> recvid])

(* The where clause of serh_message: the group's rows, or those between    *)
(* the two users in either direction.                                      *)
Concerns(row, myid, srid) ==
    IF srid = ALL
    THEN row.recvid = ALL
    ELSE \/ row.sendid = myid /\ row.recvid = srid
         \/ row.sendid = srid /\ row.recvid = myid

(* The rids of a result set, order by rid asc.                             *)
Rows(record, myid, srid) ==
    SelectSeq([rid \in 1..Len(record) |-> rid],
              LAMBDA rid : Concerns(record[rid], myid, srid))

(* The loop of serh_message: tcnt rows were fetched before this one, which *)
(* is too old for an answer of `count` rows.                               *)
SkippedOneMore(tcnt, count, rownum) == tcnt + count <= rownum
Skipped(tcnt, count, rownum) == tcnt + count < rownum

SerhLoop(record, myid, srid, count) ==
    LET rows == Rows(record, myid, srid)
        records[tcnt \in 0..Len(rows)] ==
            IF tcnt = 0 THEN << >>
            ELSE IF Skipped(tcnt - 1, count, Len(rows)) THEN records[tcnt - 1]
            ELSE Append(records[tcnt - 1], rows[tcnt])
    IN  records[Len(rows)]

(* What the loop comes to, as a set of rids: the latest `count` rows the   *)
(* where clause selects.  get_record_cnt answers -1 when its query fails.  *)
SerhMessage(record, myid, srid, count) ==
    LET rows == {rid \in DOMAIN record : Concerns(record[rid], myid, srid)}
    IN  {rid \in rows : Cardinality({later \in rows : later > rid}) < count}

-----------------------------------------------------------------------------
(* insert_file_record: the foreign keys refuse a recvid that is not a user;*)
(* the handler does not look at the result.  statue and succsiz default    *)
(* to 0.                                                                   *)
InsertFileRecord(filetrans, tid, sendid, recvid, allsiz) ==
    IF recvid \in Users
    THEN filetrans \cup
            {[tid |-> tid, sendid |-> sendid, recvid |-> recvid,
              allsiz |-> allsiz, succsiz |-> 0, statue |-> 0]}
    ELSE filetrans

OfPair(row, sendid, recvid) == row.sendid = sendid /\ row.recvid = recvid

(* permit_file_record: every pending transfer of the pair is permitted.    *)
PermitSwapped(filetrans, sendid, recvid) ==
    {IF OfPair(row, recvid, sendid) /\ row.statue = 0
     THEN [row EXCEPT !.statue = 1] ELSE row : row \in filetrans}
PermitFileRecord(filetrans, sendid, recvid) ==
    {IF OfPair(row, sendid, recvid) /\ row.statue = 0
     THEN [row EXCEPT !.statue = 1] ELSE row : row \in filetrans}

(* delete_file_record: every pending transfer of the pair is dropped.      *)
DeleteAnyRecord(filetrans, sendid, recvid) ==
    {row \in filetrans : ~OfPair(row, sendid, recvid)}
DeleteFileRecord(filetrans, sendid, recvid) ==
    {row \in filetrans : ~(OfPair(row, sendid, recvid) /\ row.statue = 0)}

(* update_file_record: siz overwrites succsiz in every permitted transfer  *)
(* of the pair.                                                            *)
UpdateFileRecord(filetrans, sendid, recvid, siz) ==
    {IF OfPair(row, sendid, recvid) /\ row.statue = 1
     THEN [row EXCEPT !.succsiz = siz] ELSE row : row \in filetrans}
=============================================================================
