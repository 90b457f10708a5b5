--------------------------- MODULE ClientUIProofs --------------------------
(***************************************************************************)
(* The window of the client: the page on top fits the connection, and the  *)
(* user finds a way back from every end of one, for any number of frames   *)
(* under way.                                                              *)
(***************************************************************************)
EXTENDS ClientUI, SequenceTheorems, TLAPS

USE ClientUIAssumption

-----------------------------------------------------------------------------
(* The inductive invariant.                                                *)
Window ==
    [stack : Seq(Page), isLogin : BOOLEAN, isConnected : BOOLEAN, dialog : BOOLEAN,
     indicator : BOOLEAN, socket : {"unconnected", "connecting", "connected"},
     timer : BOOLEAN]

(* PagesMatch without its last line, of any state a of the window.         *)
Fits(a) ==
    /\ a.isConnected <=> a.socket = "connected"
    /\ a.stack = IF a.isConnected THEN <<"busy", Top(a)>> ELSE <<"busy">>
    /\ a.isConnected => Top(a) \in Page \ {"busy"}
    /\ a.isLogin <=> Top(a) \in {"changePwd", "main"}

Granted == {Frame(\h90, 0), Frame(\h90, 1), Frame(\h90, 2)}

(* Whatever is under way to the client and is no answer to its login was   *)
(* sent to a user who is logged in, or will be once a frame ahead of it is *)
(* read.  Such a frame may close the connection, and only the end of a     *)
(* session opens the dialog by itself.                                     *)
BehindLogin(a, frames) ==
    \A k \in 1..Len(frames) :
        frames[k] \notin LoginAnswers =>
            a.isLogin \/ \E j \in 1..(k - 1) : frames[j] \in Granted

UIInv ==
    /\ app \in Window /\ inbox \in Seq(LoginAnswers \cup ChangeAnswers \cup Others)
    /\ Fits(app)
    /\ asked \in {"nothing", "login", "password"}
    /\ app.indicator <=> asked # "nothing"
    /\ asked = "password" => app.isLogin
    /\ app.socket = "connecting" => ~app.dialog
    /\ app.socket # "connected" => peer = "none" /\ inbox = << >>
    /\ BehindLogin(app, inbox)

-----------------------------------------------------------------------------
(* Stacks of one page and of two.                                          *)
LEMMA OnePage ==
    ASSUME NEW S, NEW x \in S, NEW s \in Seq(S), Len(s) = 1, s[1] = x
    PROVE  s = <<x>>
<1> DEFINE t == <<x>>
<1>1. t \in Seq(S) /\ Len(t) = 1 /\ t[1] = x
  OBVIOUS
<1> HIDE DEF t
<1>2. \A k \in 1..1 : s[k] = t[k]
  BY <1>1
<1>3. s = t
  BY <1>1, <1>2, SeqEqual
<1> QED BY <1>3 DEF t

LEMMA TwoPages ==
    ASSUME NEW S, NEW x \in S, NEW y \in S, NEW s \in Seq(S), Len(s) = 2, s[1] = x, s[2] = y
    PROVE  s = <<x, y>>
<1> DEFINE t == <<x, y>>
<1>1. t \in Seq(S) /\ Len(t) = 2 /\ t[1] = x /\ t[2] = y
  OBVIOUS
<1> HIDE DEF t
<1>2. \A k \in 1..2 : k = 1 \/ k = 2
  OBVIOUS
<1>3. s = t
  BY <1>1, <1>2, SeqEqual
<1> QED BY <1>3 DEF t

LEMMA PageOnPage ==
    ASSUME NEW x \in Page, NEW y \in Page
    PROVE  /\ <<x>> \in Seq(Page) /\ <<x, y>> \in Seq(Page)
           /\ Len(<<x>>) = 1 /\ Len(<<x, y>>) = 2
           /\ Append(<<x>>, y) = <<x, y>>
           /\ SubSeq(<<x, y>>, 1, 1) = <<x>>
<1>1. <<x>> \in Seq(Page) /\ <<x, y>> \in Seq(Page) /\ Len(<<x>>) = 1 /\ Len(<<x, y>>) = 2
  OBVIOUS
<1>2. Append(<<x>>, y) = <<x, y>>
  <2>1. /\ Append(<<x>>, y) \in Seq(Page) /\ Len(Append(<<x>>, y)) = 2
        /\ Append(<<x>>, y)[1] = x /\ Append(<<x>>, y)[2] = y
    BY <1>1, AppendProperties
  <2> QED BY <2>1, TwoPages
<1>3. SubSeq(<<x, y>>, 1, 1) = <<x>>
  <2>1. /\ SubSeq(<<x, y>>, 1, 1) \in Seq(Page) /\ Len(SubSeq(<<x, y>>, 1, 1)) = 1
        /\ SubSeq(<<x, y>>, 1, 1)[1] = x
    BY <1>1, SubSeqProperties
  <2> QED BY <2>1, OnePage
<1> QED BY <1>1, <1>2, <1>3

LEMMA BusyPage == "busy" \in Page
BY DEF Page

-----------------------------------------------------------------------------
(* The handlers of the window.                                             *)

(* Never more than one page above the first.                               *)
Stacked(a) ==
    /\ a \in Window
    /\ a.stack = <<"busy">> \/ \E page \in Page : a.stack = <<"busy", page>>

LEMMA FitsStacked ==
    ASSUME NEW a \in Window, Fits(a)
    PROVE  Stacked(a)
BY DEF Fits, Stacked

LEMMA PopStacked ==
    ASSUME NEW a, Stacked(a)
    PROVE  Pop(a) = [a EXCEPT !.stack = <<"busy">>]
<1>1. CASE a.stack = <<"busy">>
  BY <1>1 DEF Pop, Stacked, Window
<1>2. ASSUME NEW page \in Page, a.stack = <<"busy", page>>
      PROVE  Pop(a) = [a EXCEPT !.stack = <<"busy">>]
  <2> DEFINE two == <<"busy", page>>
  <2>1. Len(two) = 2 /\ SubSeq(two, 1, 1) = <<"busy">>
    BY PageOnPage, BusyPage
  <2> HIDE DEF two
  <2>2. SubSeq(a.stack, 1, Len(a.stack) - 1) = <<"busy">> /\ Len(a.stack) # 1
    <3>1. a.stack = two
      BY <1>2 DEF two
    <3>2. 2 - 1 = 1 /\ 2 # 1
      OBVIOUS
    <3> QED BY <2>1, <3>1, <3>2
  <2> QED BY <2>2 DEF Pop
<1> QED BY <1>1, <1>2 DEF Stacked

(* A page of a session, or the login page.                                 *)
LEMMA PushFits ==
    ASSUME NEW a \in Window, a.stack = <<"busy">>, NEW page \in Page
    PROVE  /\ Push(a, page) \in Window
           /\ Push(a, page).stack = <<"busy", page>>
           /\ Top(Push(a, page)) = page
           /\ Push(a, page).isLogin = a.isLogin
           /\ Push(a, page).isConnected = a.isConnected
           /\ Push(a, page).dialog = a.dialog
           /\ Push(a, page).indicator = a.indicator
           /\ Push(a, page).socket = a.socket
<1> DEFINE two == <<"busy", page>>
<1>1. two \in Seq(Page) /\ Len(two) = 2 /\ two[2] = page
  BY PageOnPage, BusyPage
<1>2. Push(a, page) = [a EXCEPT !.stack = two]
  BY PageOnPage, BusyPage DEF Push
<1> HIDE DEF two
<1>3. Push(a, page).stack = two
  BY <1>2 DEF Window
<1>4. Top(Push(a, page)) = page
  BY <1>1, <1>3 DEF Top
<1>5. Push(a, page) \in Window
  BY <1>1, <1>2 DEF Window
<1> QED BY <1>2, <1>3, <1>4, <1>5 DEF Window, two

(* The window as it is without a connection.                               *)
Left(b) ==
    /\ b \in Window
    /\ b.stack = <<"busy">> /\ ~b.isLogin /\ ~b.isConnected /\ ~b.indicator

LEMMA LeftFits ==
    ASSUME NEW b, Left(b), b.socket # "connected"
    PROVE  Fits(b)
BY DEF Left, Fits, Top

LEMMA OnDisconnectedLeaves ==
    ASSUME NEW a, Stacked(a)
    PROVE  /\ Left(OnDisconnected(a)) /\ Stacked(OnDisconnected(a))
           /\ OnDisconnected(a).dialog <=> a.dialog \/ a.isLogin
           /\ OnDisconnected(a).socket = a.socket
<1> DEFINE off == [a EXCEPT !.isConnected = FALSE]
           popped == Idle(Pop(off))
<1>1. <<"busy">> \in Seq(Page)
  BY PageOnPage, BusyPage
<1>2. Stacked(off) /\ off.isLogin = a.isLogin /\ off.dialog = a.dialog /\ ~off.isConnected
      /\ off.socket = a.socket
  BY DEF Stacked, Window
<1> HIDE DEF off
<1>3. /\ popped \in Window /\ popped.stack = <<"busy">>
      /\ ~popped.isConnected /\ ~popped.indicator
      /\ popped.isLogin = a.isLogin /\ popped.dialog = a.dialog /\ popped.socket = a.socket
  <2>1. popped = [[off EXCEPT !.stack = <<"busy">>] EXCEPT !.indicator = FALSE]
    BY <1>2, PopStacked DEF Idle
  <2> QED BY <1>1, <1>2, <2>1 DEF Stacked, Window
<1>4. OnDisconnected(a) = IF a.isLogin THEN Popup([popped EXCEPT !.isLogin = FALSE]) ELSE popped
  BY DEF OnDisconnected, off
<1> HIDE DEF popped
<1>5. CASE a.isLogin
  BY <1>3, <1>4, <1>5 DEF Popup, Left, Stacked, Window
<1>6. CASE ~a.isLogin
  BY <1>3, <1>4, <1>6 DEF Left, Stacked, Window
<1> QED BY <1>5, <1>6 DEF Stacked, Window

(* closeConnection, whether its abort() emits disconnected or not.         *)
LEMMA CloseConnectionLeaves ==
    ASSUME NEW a, Stacked(a)
    PROVE  /\ Left(CloseConnection(a))
           /\ CloseConnection(a).dialog <=> a.dialog \/ a.isLogin
           /\ CloseConnection(a).socket = "unconnected"
<1> DEFINE closed == [a EXCEPT !.timer = FALSE, !.socket = "unconnected"]
           once   == OnDisconnected(closed)
<1>1. /\ Stacked(closed) /\ closed.socket = "unconnected"
      /\ closed.dialog = a.dialog /\ closed.isLogin = a.isLogin
  BY DEF Stacked, Window
<1> HIDE DEF closed
<1>2. /\ Left(once) /\ Stacked(once) /\ once.socket = "unconnected"
      /\ once.dialog <=> a.dialog \/ a.isLogin
  BY <1>1, OnDisconnectedLeaves
<1>3. CloseConnection(a) = IF a.socket = "connected" THEN OnDisconnected(once) ELSE once
  BY DEF CloseConnection, closed
<1> HIDE DEF once
<1>4. /\ Left(OnDisconnected(once)) /\ OnDisconnected(once).socket = "unconnected"
      /\ OnDisconnected(once).dialog <=> a.dialog \/ a.isLogin
  BY <1>2, OnDisconnectedLeaves DEF Left
<1> QED BY <1>2, <1>3, <1>4

(* onLoginSuccess and its like.                                            *)
LEMMA EnterFits ==
    ASSUME NEW a \in Window, Fits(a), a.socket = "connected",
           NEW page \in {"changePwd", "main"}
    PROVE  /\ Enter(a, page) \in Window /\ Fits(Enter(a, page))
           /\ Enter(a, page).isLogin /\ ~Enter(a, page).indicator
           /\ Enter(a, page).socket = "connected"
<1> DEFINE idle == Idle([a EXCEPT !.isLogin = TRUE])
           first == Pop(idle)
<1>1. /\ Stacked(idle) /\ idle.socket = "connected" /\ idle.isLogin /\ ~idle.indicator
      /\ idle.isConnected
  BY FitsStacked DEF Idle, Stacked, Window, Fits
<1> HIDE DEF idle
<1>2. /\ first \in Window /\ first.stack = <<"busy">>
      /\ first.socket = "connected" /\ first.isLogin /\ ~first.indicator /\ first.isConnected
  <2>1. <<"busy">> \in Seq(Page)
    BY PageOnPage, BusyPage
  <2> QED BY <1>1, <2>1, PopStacked DEF Stacked, Window
<1>3. Enter(a, page) = Push(first, page)
  BY DEF Enter, idle
<1> HIDE DEF first
<1>4. page \in Page
  BY DEF Page
<1> QED BY <1>2, <1>3, <1>4, PushFits DEF Fits

-----------------------------------------------------------------------------
(* Frames under way.                                                       *)
Frames == LoginAnswers \cup ChangeAnswers \cup Others

LEMMA FrameKinds ==
    /\ \A m \in Frames : m.type = \h90 /\ m.sub < \h10 => m \in Granted
    /\ Granted \subseteq LoginAnswers
    /\ \A m \in LoginAnswers : m.type = \h90
    /\ \A sub : Frame(\h95, sub) \notin LoginAnswers
    /\ \A m \in Others : m \notin LoginAnswers
BY DEF Frames, LoginAnswers, ChangeAnswers, Others, Granted, Frame

(* What is appended to the frames under way comes behind a granted login.  *)
LEMMA SendsBehindLogin ==
    ASSUME NEW a, NEW frames \in Seq(Frames), BehindLogin(a, frames), NEW m \in Frames,
           m \notin LoginAnswers => a.isLogin \/ \E j \in 1..Len(frames) : frames[j] \in Granted
    PROVE  BehindLogin(a, Append(frames, m))
<1> DEFINE more == Append(frames, m)
<1>1. /\ Len(more) = Len(frames) + 1 /\ Len(frames) \in Nat
      /\ \A j \in 1..Len(frames) : more[j] = frames[j]
      /\ more[Len(frames) + 1] = m
  OBVIOUS
<1> HIDE DEF more
<1>2. ASSUME NEW k \in 1..Len(more), more[k] \notin LoginAnswers, ~a.isLogin
      PROVE  \E j \in 1..(k - 1) : more[j] \in Granted
  <2>1. CASE k \in 1..Len(frames)
    <3>1. PICK j \in 1..(k - 1) : frames[j] \in Granted
      BY <1>1, <1>2, <2>1 DEF BehindLogin
    <3> QED BY <1>1, <2>1, <3>1
  <2>2. CASE k = Len(frames) + 1
    <3>1. PICK j \in 1..Len(frames) : frames[j] \in Granted
      BY <1>1, <1>2, <2>2
    <3> QED BY <1>1, <2>2, <3>1
  <2> QED BY <1>1, <2>1, <2>2
<1>3. BehindLogin(a, more)
  BY <1>2 DEF BehindLogin
<1> QED BY <1>3 DEF more

(* The first of them is read, and with a granted login the user is in.     *)
LEMMA ReadBehindLogin ==
    ASSUME NEW a, NEW b, NEW frames \in Seq(Frames), frames # << >>, BehindLogin(a, frames),
           a.isLogin \/ Head(frames) \in Granted => b.isLogin
    PROVE  BehindLogin(b, Tail(frames))
<1> DEFINE rest == Tail(frames)
<1>1. /\ Len(rest) = Len(frames) - 1 /\ Len(frames) \in Nat /\ Len(frames) >= 1
      /\ \A k \in 1..Len(rest) : rest[k] = frames[k + 1]
      /\ Head(frames) = frames[1]
  OBVIOUS
<1> HIDE DEF rest
<1>2. ASSUME NEW k \in 1..Len(rest), rest[k] \notin LoginAnswers, ~b.isLogin
      PROVE  \E j \in 1..(k - 1) : rest[j] \in Granted
  <2>1. k + 1 \in 1..Len(frames) /\ frames[k + 1] \notin LoginAnswers /\ ~a.isLogin
    BY <1>1, <1>2
  <2>2. PICK j \in 1..k : frames[j] \in Granted
    <3>1. PICK j \in 1..((k + 1) - 1) : frames[j] \in Granted
      BY <2>1 DEF BehindLogin
    <3> QED BY <3>1
  <2>3. j # 1
    BY <1>1, <1>2, <2>2
  <2>4. j - 1 \in 1..(k - 1) /\ j - 1 \in 1..Len(rest) /\ (j - 1) + 1 = j
    BY <1>1, <2>2, <2>3
  <2>5. rest[j - 1] \in Granted
    BY <1>1, <2>2, <2>4
  <2> QED BY <2>4, <2>5
<1>3. BehindLogin(b, rest)
  BY <1>2 DEF BehindLogin
<1> QED BY <1>3 DEF rest

-----------------------------------------------------------------------------
(* The steps.                                                              *)
LEMMA InitUIInv == Init => UIInv
<1> SUFFICES ASSUME Init PROVE UIInv
  OBVIOUS
<1>1. app \in Window /\ app.stack = <<"busy">> /\ app.socket # "connected"
      /\ ~app.isLogin /\ ~app.isConnected /\ ~app.dialog /\ ~app.indicator
  <2>1. <<"busy">> \in Seq(Page)
    BY PageOnPage, BusyPage
  <2>2. Start \in Window /\ Start.stack = <<"busy">> /\ Start.socket = "unconnected"
        /\ ~Start.isLogin /\ ~Start.isConnected /\ ~Start.dialog /\ ~Start.indicator
    BY <2>1 DEF Start, Window
  <2> QED BY <2>2 DEF Init, Connecting, Window
<1>2. Fits(app)
  BY <1>1, LeftFits DEF Left
<1> QED BY <1>1, <1>2 DEF Init, UIInv, BehindLogin

LEMMA InboxType == UIInv => inbox \in Seq(Frames)
BY DEF UIInv, Frames

LEMMA ServerUIInv ==
    ASSUME UIInv, Answers \/ Completes \/ Ends
    PROVE  UIInv'
<1>1. ASSUME NEW m \in Frames, Sends(m),
             m \notin LoginAnswers => app.isLogin \/ Serves
      PROVE  UIInv'
  <2>1. UNCHANGED <<app, asked>> /\ inbox' = Append(inbox, m) /\ peer = "open"
    BY <1>1 DEF Sends, client
  <2>2. app.socket = "connected"
    BY <2>1 DEF UIInv
  <2>3. m \notin LoginAnswers => app.isLogin \/ \E j \in 1..Len(inbox) : inbox[j] \in Granted
    BY <1>1, InboxType, FrameKinds DEF Serves
  <2>4. inbox' \in Seq(Frames) /\ BehindLogin(app', inbox')
    BY <2>1, <2>3, InboxType, SendsBehindLogin DEF UIInv
  <2> QED BY <2>1, <2>2, <2>4 DEF UIInv, Frames, Fits, Top
<1>2. CASE Answers
  <2>1. ASSUME NEW m \in LoginAnswers, Sends(m) PROVE UIInv'
    BY <1>1, <2>1 DEF Frames
  <2>2. ASSUME NEW m \in ChangeAnswers, asked = "password", Sends(m) PROVE UIInv'
    BY <1>1, <2>2 DEF Frames, UIInv
  <2>3. ASSUME NEW m \in Others, Serves, Sends(m) PROVE UIInv'
    BY <1>1, <2>3 DEF Frames
  <2> QED BY <1>2, <2>1, <2>2, <2>3 DEF Answers
<1>3. CASE Completes \/ Ends
  <2>1. UNCHANGED <<app, asked, inbox>> /\ peer = "open"
    BY <1>3 DEF Completes, Ends, client
  <2> QED BY <2>1 DEF UIInv, Fits, Top, BehindLogin
<1> QED BY <1>2, <1>3

(* The dialog and the timer say nothing about the page.                    *)
LEMMA DialogFits ==
    ASSUME NEW a \in Window, Fits(a), NEW b \in Window,
           b.stack = a.stack, b.isLogin = a.isLogin, b.isConnected = a.isConnected,
           b.socket = a.socket \/ (a.socket # "connected" /\ b.socket # "connected")
    PROVE  Fits(b)
BY DEF Fits, Top

LEMMA ConnectingUIInv ==
    ASSUME UIInv, ConnectionSuccess \/ ConnectionError \/ ConnectionTimeout \/ CloseDialog
    PROVE  UIInv'
<1>1. CASE ConnectionSuccess
  <2> DEFINE a == [[app EXCEPT !.timer = FALSE, !.socket = "connected"] EXCEPT !.isConnected = TRUE]
  <2>1. /\ app' = Push(a, "login")
        /\ UNCHANGED <<asked, inbox>> /\ app.socket = "connecting"
    BY <1>1 DEF ConnectionSuccess, OnConnected
  <2>2. /\ a \in Window /\ a.stack = <<"busy">> /\ a.socket = "connected" /\ a.isConnected
        /\ ~app.isLogin /\ ~a.isLogin /\ a.indicator = app.indicator
    <3>1. app.stack = <<"busy">> /\ ~app.isConnected
      BY <2>1 DEF UIInv, Fits
    <3>2. Top(app) = "busy"
      BY <3>1 DEF Top
    <3>3. ~app.isLogin
      BY <3>2 DEF UIInv, Fits
    <3> QED BY <3>1, <3>3 DEF UIInv, Window
  <2> HIDE DEF a
  <2>3. "login" \in Page
    BY DEF Page
  <2>4. /\ app' \in Window /\ app'.stack = <<"busy", "login">> /\ Top(app') = "login"
        /\ app'.socket = "connected" /\ app'.isConnected /\ ~app'.isLogin
        /\ app'.indicator = app.indicator
    BY <2>1, <2>2, <2>3, PushFits
  <2>5. inbox = << >>
    BY <2>1 DEF UIInv
  <2>6. Fits(app')
    BY <2>3, <2>4 DEF Fits
  <2> QED BY <2>1, <2>2, <2>4, <2>5, <2>6 DEF UIInv, BehindLogin
<1>2. CASE ConnectionError \/ ConnectionTimeout
  <2>1. /\ app' \in Window
        /\ app'.stack = app.stack /\ app'.isLogin = app.isLogin
        /\ app'.isConnected = app.isConnected /\ app'.indicator = app.indicator
        /\ \/ app'.socket = app.socket /\ app.socket # "connecting" /\ app'.dialog = app.dialog
           \/ app.socket = "connecting" /\ app'.socket = "unconnected"
        /\ UNCHANGED <<asked, peer, inbox>>
    BY <1>2 DEF ConnectionError, ConnectionTimeout, TimedOut, OnConnectFailed, Popup, UIInv,
                Window, server
  <2>2. Fits(app')
    BY <2>1, DialogFits DEF UIInv
  <2> QED BY <2>1, <2>2 DEF UIInv, BehindLogin
<1>3. CASE CloseDialog
  <2>1. /\ app' \in Window
        /\ app'.stack = app.stack /\ app'.isLogin = app.isLogin
        /\ app'.isConnected = app.isConnected /\ app'.indicator = app.indicator
        /\ \/ app'.socket = app.socket
           \/ ~app.isConnected /\ app'.socket = "connecting" /\ ~app'.dialog
        /\ app.dialog
        /\ UNCHANGED <<asked, peer, inbox>>
    BY <1>3 DEF CloseDialog, Connecting, FailedAtOnce, OnConnectFailed, Popup, UIInv, Window, server
  <2>2. app.socket # "connecting" /\ (~app.isConnected => app.socket # "connected")
    BY <2>1 DEF UIInv, Fits
  <2>3. Fits(app')
    BY <2>1, <2>2, DialogFits DEF UIInv
  <2> QED BY <2>1, <2>2, <2>3 DEF UIInv, BehindLogin
<1> QED BY <1>1, <1>2, <1>3

LEMMA SubmitUIInv ==
    ASSUME UIInv, Submit("login", "login") \/ Submit("changePwd", "password")
    PROVE  UIInv'
<1>1. /\ app' = [app EXCEPT !.indicator = TRUE]
      /\ \/ asked' = "login"
         \/ asked' = "password" /\ Top(app) = "changePwd"
      /\ UNCHANGED <<peer, inbox>>
  BY DEF Submit, server
<1>2. Fits(app') /\ app' \in Window
  BY <1>1, DialogFits DEF UIInv, Window
<1> QED BY <1>1, <1>2 DEF UIInv, Window, Fits, BehindLogin

LEMMA WaitUIInv ==
    ASSUME UIInv, StartsToWait \/ StillWaits
    PROVE  UIInv'
<1>1. CASE StartsToWait
  BY <1>1 DEF StartsToWait, UIInv, Fits, Top, BehindLogin, server
<1>2. CASE StillWaits
  <2>1. /\ app' = [app EXCEPT !.dialog = TRUE] /\ UNCHANGED <<asked, peer, inbox>>
        /\ app.socket = "connected"
    BY <1>2 DEF StillWaits, OnConnectFailed, Popup, server
  <2>2. Fits(app') /\ app' \in Window
    BY <2>1, DialogFits DEF UIInv, Window
  <2> QED BY <2>1, <2>2 DEF UIInv, Window, BehindLogin
<1> QED BY <1>1, <1>2

(* A frame is read: the window goes to a, or the connection is gone.       *)
LEMMA AfterUIInv ==
    ASSUME UIInv, inbox # << >>, NEW a \in Window, Fits(a), NEW request, After(a, request),
           \/ /\ a.socket = "connected"
              /\ app.isLogin \/ Head(inbox) \in Granted => a.isLogin
              /\ request \in {"nothing", "login", "password"}
              /\ request = "password" => a.isLogin
              /\ a.indicator <=> request # "nothing"
           \/ a.socket = "unconnected" /\ ~a.indicator
    PROVE  UIInv'
<1>1. app' = a
  BY DEF After
<1>2. CASE a.socket = "connected"
  <2>1. asked' = request /\ inbox' = Tail(inbox)
    BY <1>2 DEF After
  <2>2. inbox' \in Seq(Frames) /\ BehindLogin(app', inbox')
    BY <1>1, <1>2, <2>1, InboxType, ReadBehindLogin DEF UIInv
  <2> QED BY <1>1, <1>2, <2>1, <2>2 DEF UIInv, Frames, Fits, Top
<1>3. CASE a.socket = "unconnected"
  <2>1. asked' = "nothing" /\ inbox' = << >> /\ peer' = "none" /\ ~a.indicator
    BY <1>3 DEF After
  <2> QED BY <1>1, <1>3, <2>1 DEF UIInv, Fits, Top, BehindLogin
<1> QED BY <1>2, <1>3

(* A slot that ends the connection, of a window in whatever state.         *)
LEMMA ClosedUIInv ==
    ASSUME UIInv, inbox # << >>, NEW a, Stacked(a), NEW request,
           After(CloseConnection(a), request)
    PROVE  UIInv' /\ (app'.dialog <=> a.dialog \/ a.isLogin) /\ app'.socket = "unconnected"
<1> DEFINE b == CloseConnection(a)
<1>1. Left(b) /\ b.socket = "unconnected" /\ (b.dialog <=> a.dialog \/ a.isLogin)
  BY CloseConnectionLeaves
<1> HIDE DEF b
<1>2. b \in Window /\ Fits(b) /\ ~b.indicator
  BY <1>1, LeftFits DEF Left
<1>3. After(b, request)
  BY DEF b
<1>4. UIInv' /\ app' = b
  BY <1>1, <1>2, <1>3, AfterUIInv DEF After
<1> QED BY <1>1, <1>4

LEMMA EnteredUIInv ==
    ASSUME UIInv, inbox # << >>, app.socket = "connected", NEW page \in {"changePwd", "main"},
           \/ After(Enter(app, page), "nothing")
           \/ After(Popup(Enter(app, page)), "nothing")
    PROVE  UIInv' /\ app'.socket = "connected"
<1> DEFINE a == Enter(app, page)
<1>1. a \in Window /\ Fits(a) /\ a.isLogin /\ ~a.indicator /\ a.socket = "connected"
  BY EnterFits DEF UIInv
<1> HIDE DEF a
<1>2. /\ Popup(a) \in Window /\ Fits(Popup(a)) /\ Popup(a).isLogin /\ ~Popup(a).indicator
      /\ Popup(a).socket = "connected"
  BY <1>1, DialogFits DEF Popup, Window
<1>3. UIInv'
  BY <1>1, <1>2, AfterUIInv DEF a
<1> QED BY <1>1, <1>2, <1>3 DEF After, a

(* The three slots that read a frame.  A frame that ends the connection    *)
(* opens the dialog, or ends a session, which does: only the login may be  *)
(* answered 0xFF to a user who is not logged in.                           *)
LEMMA ParseUIInv ==
    ASSUME UIInv,
           \/ \E sub : ParseLoginInfos(sub) \/ ParseChangePasswordInfos(sub)
           \/ ParseLogoutInfos
           \/ \E m \in Others : ParseOther(m.type, m.sub)
    PROVE  /\ UIInv'
           /\ app'.socket = "unconnected" =>
                 app'.dialog \/ (ParseLoginInfos(\hFF) /\ ~app.dialog)
           /\ app'.socket # "connecting"
<1>1. /\ inbox # << >> /\ app.socket = "connected" /\ app \in Window /\ Fits(app) /\ Stacked(app)
      /\ Head(inbox) = inbox[1]
  BY FitsStacked DEF ParseLoginInfos, ParseChangePasswordInfos, ParseLogoutInfos, ParseOther,
                     Arrived, UIInv
<1>2. Head(inbox) \notin LoginAnswers => app.isLogin
  <2>1. 1 \in 1..Len(inbox) /\ 1..(1 - 1) = {}
    BY <1>1, InboxType
  <2> QED BY <1>1, <2>1 DEF UIInv, BehindLogin
<1>3. Idle(app) \in Window /\ Fits(Idle(app)) /\ Idle(app).isLogin = app.isLogin
      /\ ~Idle(app).indicator /\ Idle(app).socket = "connected"
  BY <1>1, DialogFits DEF Idle, Window
<1>4. /\ Popup(Idle(app)) \in Window /\ Fits(Popup(Idle(app)))
      /\ Popup(Idle(app)).isLogin = app.isLogin /\ Popup(Idle(app)).dialog
      /\ ~Popup(Idle(app)).indicator /\ Popup(Idle(app)).socket = "connected"
  <2> DEFINE a == Idle(app)
  <2>1. a \in Window /\ Fits(a) /\ a.isLogin = app.isLogin /\ ~a.indicator /\ a.socket = "connected"
    BY <1>3
  <2> HIDE DEF a
  <2>2. /\ Popup(a) \in Window /\ Fits(Popup(a)) /\ Popup(a).isLogin = app.isLogin
        /\ Popup(a).dialog /\ ~Popup(a).indicator /\ Popup(a).socket = "connected"
    BY <2>1, DialogFits DEF Popup, Window
  <2> QED BY <2>2 DEF a
<1>5. ASSUME NEW sub, ParseLoginInfos(sub)
      PROVE  /\ UIInv'
             /\ app'.socket = "unconnected" =>
                   app'.dialog \/ (ParseLoginInfos(\hFF) /\ ~app.dialog)
             /\ app'.socket # "connecting"
  <2>1. CASE \E page \in {"changePwd", "main"} :
                \/ After(Enter(app, page), "nothing")
                \/ After(Popup(Enter(app, page)), "nothing")
    BY <1>1, <2>1, EnteredUIInv
  <2>2. CASE After(CloseConnection(Popup(Idle(app))), "nothing")
    <3>1. Stacked(Popup(Idle(app)))
      BY <1>4, FitsStacked
    <3> QED BY <1>1, <1>4, <2>2, <3>1, ClosedUIInv
  <2>3. CASE sub = \hFF /\ After(CloseConnection(app), "nothing")
    BY <1>1, <1>5, <2>3, ClosedUIInv
  <2> QED BY <1>5, <2>1, <2>2, <2>3 DEF ParseLoginInfos
<1>6. ASSUME NEW sub, ParseChangePasswordInfos(sub)
      PROVE  /\ UIInv'
             /\ app'.socket = "unconnected" => app'.dialog
             /\ app'.socket # "connecting"
  <2>1. app.isLogin
    BY <1>2, <1>6, FrameKinds DEF ParseChangePasswordInfos, Arrived
  <2>2. CASE After(Enter(app, "main"), "nothing")
    BY <1>1, <2>2, EnteredUIInv
  <2>3. CASE After(Popup(Idle(app)), "nothing")
    <3>1. UIInv'
      BY <1>1, <1>4, <2>1, <2>3, AfterUIInv
    <3> QED BY <1>4, <2>3, <3>1 DEF After
  <2>4. CASE After(CloseConnection(app), "nothing")
    BY <1>1, <2>1, <2>4, ClosedUIInv
  <2> QED BY <1>6, <2>2, <2>3, <2>4 DEF ParseChangePasswordInfos
<1>7. ASSUME ParseLogoutInfos
      PROVE  UIInv' /\ app'.dialog /\ app'.socket # "connecting"
  <2> DEFINE a == [Popup(app) EXCEPT !.isLogin = FALSE]
  <2>1. Stacked(a) /\ a.dialog
    BY <1>1 DEF Stacked, Popup, Window
  <2> HIDE DEF a
  <2>2. After(CloseConnection(a), "nothing")
    BY <1>7 DEF ParseLogoutInfos, a
  <2> QED BY <1>1, <2>1, <2>2, ClosedUIInv
<1>8. ASSUME NEW m \in Others, ParseOther(m.type, m.sub)
      PROVE  /\ UIInv'
             /\ app'.socket = "unconnected" => app'.dialog
             /\ app'.socket # "connecting"
  <2>1. app.isLogin
    <3>1. Head(inbox) = m
      BY <1>8 DEF ParseOther, Arrived, Others, Frame
    <3> QED BY <1>2, <3>1, FrameKinds
  <2>2. CASE After(CloseConnection(app), asked)
    BY <1>1, <2>1, <2>2, ClosedUIInv
  <2>3. CASE After(app, asked)
    <3>1. UIInv'
      BY <1>1, <2>1, <2>3, AfterUIInv DEF UIInv
    <3> QED BY <1>1, <2>3, <3>1 DEF After
  <2> QED BY <1>8, <2>2, <2>3 DEF ParseOther
<1> QED BY <1>5, <1>6, <1>7, <1>8

LEMMA DisconnectsUIInv ==
    ASSUME UIInv, Disconnects
    PROVE  UIInv' /\ app'.dialog /\ app'.socket # "connecting"
<1> DEFINE a == [OnConnectFailed(app) EXCEPT !.socket = "unconnected"]
<1>1. Stacked(a) /\ a.dialog
  <2>1. Stacked(app)
    BY FitsStacked DEF UIInv
  <2> QED BY <2>1 DEF Stacked, OnConnectFailed, Popup, Window
<1> HIDE DEF a
<1>2. app' = CloseConnection(a)
  BY DEF Disconnects, RemoteHostClosed, a
<1>3. Left(app') /\ app'.socket = "unconnected" /\ app'.dialog
  BY <1>1, <1>2, CloseConnectionLeaves
<1>4. Fits(app') /\ app' \in Window /\ ~app'.indicator
  BY <1>3, LeftFits DEF Left
<1>5. asked' = "nothing" /\ peer' = "none" /\ inbox' = << >>
  BY DEF Disconnects
<1> QED BY <1>3, <1>4, <1>5 DEF UIInv, BehindLogin

LEMMA NextUIInv == UIInv /\ [Next]_vars => UIInv'
<1> SUFFICES ASSUME UIInv, [Next]_vars PROVE UIInv'
  OBVIOUS
<1>1. CASE UNCHANGED vars
  BY <1>1 DEF vars, client, server, UIInv, Fits, Top, BehindLogin
<1>2. CASE Next
  BY <1>2, ServerUIInv, ConnectingUIInv, SubmitUIInv, WaitUIInv, ParseUIInv, DisconnectsUIInv
     DEF Next
<1> QED BY <1>1, <1>2

LEMMA SpecUIInv == Init /\ [][Next]_vars => []UIInv
BY InitUIInv, NextUIInv, PTL

(* The step of WayBack.                                                    *)
LEMMA NextWayBack ==
    ASSUME UIInv, Next
    PROVE  /\ app.socket # "unconnected" /\ app'.socket = "unconnected" =>
                 app'.dialog \/ ParseLoginInfos(\hFF)
           /\ app.dialog /\ ~app'.dialog => app'.isConnected \/ app'.socket = "connecting"
           /\ app'.socket = "connecting" => ~app'.dialog
<1>1. /\ app' \in Window
      /\ app'.isConnected <=> app'.socket = "connected"
      /\ app'.socket = "connecting" => ~app'.dialog
  BY NextUIInv DEF UIInv, Fits
<1>2. ASSUME UNCHANGED app \/ app'.dialog
      PROVE  /\ app.socket # "unconnected" /\ app'.socket = "unconnected" => app'.dialog
             /\ app.dialog => app'.dialog
  BY <1>2
<1>3. CASE \/ Answers \/ Completes \/ Ends \/ StartsToWait
  BY <1>1, <1>2, <1>3 DEF Answers, Sends, Completes, Ends, StartsToWait, client
<1>4. CASE ConnectionSuccess
  <2>1. app'.isConnected
    BY <1>4 DEF ConnectionSuccess, OnConnected, Push, UIInv, Window
  <2> QED BY <1>1, <2>1
<1>5. CASE ConnectionError \/ StillWaits
  BY <1>1, <1>2, <1>5 DEF ConnectionError, StillWaits, OnConnectFailed, Popup, UIInv, Window
<1>6. CASE ConnectionTimeout
  <2>1. CASE app.socket = "connecting"
    BY <1>1, <1>2, <1>6, <2>1 DEF ConnectionTimeout, TimedOut, OnConnectFailed, Popup, UIInv, Window
  <2>2. CASE app.socket # "connecting"
    BY <1>1, <1>6, <2>2 DEF ConnectionTimeout, UIInv, Window
  <2> QED BY <2>1, <2>2
<1>7. CASE CloseDialog
  BY <1>1, <1>7 DEF CloseDialog, Connecting, FailedAtOnce, OnConnectFailed, Popup, UIInv, Window, Fits
<1>8. CASE Submit("login", "login") \/ Submit("changePwd", "password")
  BY <1>1, <1>8 DEF Submit, UIInv, Window
<1>9. CASE \/ \E sub : ParseLoginInfos(sub) \/ ParseChangePasswordInfos(sub)
           \/ ParseLogoutInfos
           \/ \E m \in Others : ParseOther(m.type, m.sub)
  BY <1>1, <1>9, ParseUIInv DEF Window
<1>10. CASE Disconnects
  BY <1>1, <1>10, DisconnectsUIInv
<1> QED BY <1>3, <1>4, <1>5, <1>6, <1>7, <1>8, <1>9, <1>10 DEF Next

-----------------------------------------------------------------------------
(* The theorems.  They need no fairness.                                   *)

(* main.qml over the slots of TcpClient: at every moment the page on top   *)
(* is the one the connection and the session allow.                        *)
THEOREM PagesAlwaysMatch == FairSpec => []PagesMatch
<1>1. UIInv => PagesMatch
  BY DEF UIInv, Fits, PagesMatch
<1> QED BY <1>1, SpecUIInv, PTL DEF FairSpec

(* main.qml's onClosed of systemDialog, and the slots that open it: there  *)
(* is a way back from every end of a connection but a login answered 0xFF. *)
THEOREM ThereIsAWayBack == FairSpec => WayBack
<1>1. UIInv /\ [Next]_vars =>
        [/\ app.socket # "unconnected" /\ app'.socket = "unconnected" =>
               app'.dialog \/ ParseLoginInfos(\hFF)
         /\ app.dialog /\ ~app'.dialog => app'.isConnected \/ app'.socket = "connecting"
         /\ app'.socket = "connecting" => ~app'.dialog]_vars
  BY NextWayBack
<1> QED BY <1>1, SpecUIInv, PTL DEF FairSpec, WayBack
=============================================================================
