------------------------------ MODULE ClientUI ------------------------------
(***************************************************************************)
(* The window of the client, src/chat_client/QML/main.qml, over the slots  *)
(* and signals of TcpClient.cpp: which page is on top, which of the two    *)
(* popups is open, and what becomes of them when the connection is made,   *)
(* refused, timed out, ended by either side or left in the middle of a     *)
(* frame.                                                                  *)
(*                                                                         *)
(* The client is one thread.  A slot runs to its end, with all signals it  *)
(* emits and all it makes the socket emit: they are one action.  Only      *)
(* blockRead lets other events in, those of the socket it waits for.       *)
(*                                                                         *)
(* Of QTcpSocket (external): connectToHost may fail at once; abort() emits *)
(* disconnected for a socket that was connected and nothing for one that   *)
(* was connecting; a close by the server is an error, then disconnected.   *)
(* Of StackView: pop() leaves the last page.                               *)
(*                                                                         *)
(* OnDisconnectedStillBusy, TimedOutNotAborted and ConnectingUntimed are   *)
(* variants of the operator after them, as a slip in that place of the     *)
(* code would make it.                                                     *)
(***************************************************************************)
EXTENDS Naturals, Sequences

CONSTANT MaxFrames      \* bound on the frames under way to the client

ASSUME ClientUIAssumption == MaxFrames \in Nat

VARIABLES
    app,        \* the window, m_socket's state and m_timeout_timer
    reading,    \* TRUE while receiveHeader waits for the rest of a frame
    asked,      \* the request that busyIndicator waits for, or "nothing"
    peer,       \* the server's end: "none", "open" or "closed"
    inbox,      \* frames sent to the client and not parsed
    partial     \* TRUE: of the last of them only a part was sent

client == <<app, reading, asked>>
server == <<peer, inbox, partial>>
vars   == <<client, server>>

Page == {"busy", "login", "changePwd", "main"}

Frame(type, sub) == [type |-> type, sub |-> sub]

(* The answers to a login and to a change of password, and what else comes *)
(* after a login: the end of the session, something for the models, an     *)
(* answer the client does not know.                                        *)
LoginAnswers  == {Frame(\h90, sub) : sub \in {0, 1, 2, \hF0, \hFF}}
ChangeAnswers == {Frame(\h95, sub) : sub \in {0, \hF0, \hFF}}
Others        == {Frame(\hA0, 0), Frame(\hA1, 0), Frame(\h92, \hFF)}

(* The server closes after these (Connections!Terminal).                   *)
Last(m) == m.type = \hA0 \/ m.sub = \hFF \/ (m.type = \h90 /\ m.sub = \hF0)

-----------------------------------------------------------------------------
(* The handlers of main.qml.                                               *)
Top(a)        == a.stack[Len(a.stack)]
Pop(a)        == IF Len(a.stack) = 1 THEN a
                 ELSE [a EXCEPT !.stack = SubSeq(@, 1, Len(@) - 1)]
Push(a, page) == [a EXCEPT !.stack = Append(@, page)]
Popup(a)      == [a EXCEPT !.dialog = TRUE]
Idle(a)       == [a EXCEPT !.indicator = FALSE]

OnConnected(a)     == Push([a EXCEPT !.isConnected = TRUE], "login")
OnConnectFailed(a) == Popup(a)

OnDisconnectedStillBusy(a) ==
    LET popped == Pop([a EXCEPT !.isConnected = FALSE])
    IN  IF a.isLogin THEN Popup([popped EXCEPT !.isLogin = FALSE]) ELSE popped
OnDisconnected(a) ==
    LET popped == Idle(Pop([a EXCEPT !.isConnected = FALSE]))
    IN  IF a.isLogin THEN Popup([popped EXCEPT !.isLogin = FALSE]) ELSE popped

(* onLoginSuccess, onNeedChangePassword, onPasswordChangedSucc.            *)
Enter(a, page) == Push(Pop(Idle([a EXCEPT !.isLogin = TRUE])), page)

-----------------------------------------------------------------------------
(* The slots of TcpClient that end a connection.                           *)

(* closeConnection: abort() of a connected socket emits disconnected, to   *)
(* which this very slot is connected; then it emits the window's signal a  *)
(* second time.                                                            *)
CloseConnection(a) ==
    LET closed == [a EXCEPT !.timer = FALSE, !.socket = "unconnected"]
    IN  IF a.socket = "connected" THEN OnDisconnected(OnDisconnected(closed))
        ELSE OnDisconnected(closed)

RemoteHostClosed(a) ==
    CloseConnection([OnConnectFailed(a) EXCEPT !.socket = "unconnected"])

(* connectionTimeout, for a socket that is still connecting.               *)
TimedOutNotAborted(a) == OnConnectFailed([a EXCEPT !.timer = FALSE])
TimedOut(a) ==
    OnConnectFailed([a EXCEPT !.timer = FALSE, !.socket = "unconnected"])

(* connect2Host: the timer is started (again) in any case.                 *)
ConnectingUntimed(a) == [a EXCEPT !.socket = "connecting"]
Connecting(a)        == [a EXCEPT !.timer = TRUE, !.socket = "connecting"]
FailedAtOnce(a)      == OnConnectFailed([a EXCEPT !.timer = TRUE])

-----------------------------------------------------------------------------
Start ==
    [stack |-> <<"busy">>, isLogin |-> FALSE, isConnected |-> FALSE,
     dialog |-> FALSE, indicator |-> FALSE, socket |-> "unconnected", timer |-> FALSE]

(* TcpClient's constructor connects.  An error it meets at once is emitted *)
(* before main.qml listens.                                                *)
Init ==
    /\ app \in {Connecting(Start), [Start EXCEPT !.timer = TRUE]}
    /\ reading = FALSE
    /\ asked = "nothing"
    /\ peer = "none"
    /\ inbox = << >>
    /\ partial = FALSE

-----------------------------------------------------------------------------
(* The server.                                                             *)

(* It lets a login in, or has done so.                                     *)
Serves ==
    \/ app.isLogin
    \/ \E i \in DOMAIN inbox : inbox[i].type = \h90 /\ inbox[i].sub < \h10

Unanswered(answers) == \A i \in DOMAIN inbox : inbox[i] \notin answers

Sends(m) ==
    /\ peer = "open" /\ ~partial /\ Len(inbox) < MaxFrames
    /\ inbox' = Append(inbox, m)
    /\ partial' \in BOOLEAN
    /\ peer' = IF Last(m) /\ ~partial' THEN "closed" ELSE peer
    /\ UNCHANGED client

Answers ==
    \/ \E m \in LoginAnswers  : asked = "login"    /\ Unanswered(LoginAnswers)  /\ Sends(m)
    \/ \E m \in ChangeAnswers : asked = "password" /\ Unanswered(ChangeAnswers) /\ Sends(m)
    \/ \E m \in Others : Serves /\ Sends(m)

(* The rest of a frame follows.                                            *)
Completes ==
    /\ peer = "open" /\ partial
    /\ partial' = FALSE
    /\ peer' = IF Last(inbox[Len(inbox)]) THEN "closed" ELSE peer
    /\ UNCHANGED <<client, inbox>>

(* The connection ends, from there or on the way, even within a frame.     *)
Ends ==
    /\ peer = "open"
    /\ peer' = "closed"
    /\ UNCHANGED <<client, inbox, partial>>

-----------------------------------------------------------------------------
(* The event loop runs: receiveHeader is not waiting.                      *)
Loop == ~reading

(* connectionSuccess, connectionError while connecting, connectionTimeout. *)
ConnectionSuccess ==
    /\ Loop /\ app.socket = "connecting"
    /\ app' = OnConnected([app EXCEPT !.timer = FALSE, !.socket = "connected"])
    /\ peer' = "open"
    /\ UNCHANGED <<reading, asked, inbox, partial>>

ConnectionError ==
    /\ Loop /\ app.socket = "connecting"
    /\ app' = OnConnectFailed([app EXCEPT !.socket = "unconnected"])
    /\ UNCHANGED <<reading, asked, server>>

ConnectionTimeout ==
    /\ Loop /\ app.timer
    /\ app' = IF app.socket = "connecting" THEN TimedOut(app)
              ELSE [app EXCEPT !.timer = FALSE]
    /\ UNCHANGED <<reading, asked, server>>

(* systemDialog's onClosed.                                                *)
CloseDialog ==
    /\ Loop /\ app.dialog
    /\ LET closed == [app EXCEPT !.dialog = FALSE]
       IN  app' \in IF app.isConnected THEN {closed}
                    ELSE {Connecting(closed), FailedAtOnce(closed)}
    /\ UNCHANGED <<reading, asked, server>>

(* The user presses a page's button, which both popups keep from it.       *)
Submit(page, request) ==
    /\ Loop /\ ~app.dialog /\ ~app.indicator
    /\ Top(app) = page
    /\ app' = [app EXCEPT !.indicator = TRUE]
    /\ asked' = request
    /\ UNCHANGED <<reading, server>>

-----------------------------------------------------------------------------
(* receiveHeader.  blockRead waits when the frame is not there yet, and    *)
(* emits an error whenever it has waited for 30 seconds.                   *)
OnlyAPart == partial /\ Len(inbox) = 1

StartsToWait ==
    /\ Loop /\ app.socket = "connected" /\ OnlyAPart
    /\ reading' = TRUE
    /\ UNCHANGED <<app, asked, server>>

StillWaits ==
    /\ reading /\ app.socket = "connected" /\ OnlyAPart
    /\ app' = OnConnectFailed(app)
    /\ UNCHANGED <<reading, asked, server>>

(* The connection is gone: what the client had not read is too.            *)
After(a, request) ==
    /\ app' = a
    /\ IF a.socket = "connected"
       THEN asked' = request /\ inbox' = Tail(inbox) /\ UNCHANGED <<peer, partial>>
       ELSE asked' = "nothing" /\ inbox' = << >> /\ partial' = FALSE /\ peer' = "none"

(* A frame is there, m.                                                    *)
Arrived(m) ==
    /\ app.socket = "connected"
    /\ inbox # << >> /\ ~OnlyAPart
    /\ m = Head(inbox)
    /\ reading' = FALSE

ParseLoginInfos(sub) ==
    /\ Arrived(Frame(\h90, sub))
    /\ \/ sub = 0    /\ After(Enter(app, "main"), "nothing")
       \/ sub = 1    /\ After(Enter(app, "changePwd"), "nothing")
       \/ sub = 2    /\ After(Popup(Enter(app, "main")), "nothing")
       \/ sub = \hF0 /\ After(CloseConnection(Popup(Idle(app))), "nothing")
       \/ sub = \hFF /\ After(CloseConnection(app), "nothing")

ParseLogoutInfos ==
    /\ Arrived(Frame(\hA0, 0))
    /\ After(CloseConnection([Popup(app) EXCEPT !.isLogin = FALSE]), "nothing")

ParseChangePasswordInfos(sub) ==
    /\ Arrived(Frame(\h95, sub))
    /\ \/ sub = 0    /\ After(Enter(app, "main"), "nothing")
       \/ sub = \hF0 /\ After(Popup(Idle(app)), "nothing")
       \/ sub = \hFF /\ After(CloseConnection(app), "nothing")

(* Names, histories, presence and texts: an answer that is not granted     *)
(* closes the connection, the others are the models' (Client).             *)
ParseOther(type, sub) ==
    /\ Arrived(Frame(type, sub))
    /\ After(IF sub = \hFF THEN CloseConnection(app) ELSE app, asked)

(* The server's close reaches the client behind everything it was sent.    *)
(* When that ends within a frame, blockRead still waits for the rest, now  *)
(* from a socket that has none: it never comes back.                       *)
Disconnects ==
    /\ app.socket = "connected" /\ peer = "closed"
    /\ inbox = << >> \/ (reading /\ OnlyAPart)
    /\ app' = RemoteHostClosed(app)
    /\ asked' = "nothing"
    /\ peer' = "none" /\ inbox' = << >> /\ partial' = FALSE
    /\ UNCHANGED reading

Next ==
    \/ Answers \/ Completes \/ Ends
    \/ ConnectionSuccess \/ ConnectionError \/ ConnectionTimeout
    \/ CloseDialog
    \/ Submit("login", "login") \/ Submit("changePwd", "password")
    \/ StartsToWait \/ StillWaits
    \/ \E sub \in {0, 1, 2, \hF0, \hFF} : ParseLoginInfos(sub) \/ ParseChangePasswordInfos(sub)
    \/ ParseLogoutInfos
    \/ \E m \in Others : m.type # \hA0 /\ ParseOther(m.type, m.sub)
    \/ Disconnects

(* Fairness: the timer that connect2Host starts goes off.  Nothing is      *)
(* assumed of the network, the server or the user.                         *)
FairSpec == Init /\ [][Next]_vars /\ WF_vars(ConnectionTimeout)

-----------------------------------------------------------------------------
(* Properties.                                                             *)

(* The page on top is the one the connection allows, however signals nest: *)
(* a page that sends is there exactly while the socket is connected        *)
(* (sendWholeFrame never ends on one that is not), closeConnection's       *)
(* second signal pops nothing, the pages of a session are there exactly    *)
(* while the user is logged in, and the indicator, which nobody can close, *)
(* is open exactly while an answer that closes it is under way.            *)
PagesMatch ==
    /\ app.isConnected <=> app.socket = "connected"
    /\ app.stack = IF app.isConnected THEN <<"busy", Top(app)>> ELSE <<"busy">>
    /\ app.isConnected => Top(app) \in Page \ {"busy"}
    /\ app.isLogin <=> Top(app) \in {"changePwd", "main"}
    /\ app.indicator <=> asked # "nothing"

(* The user gets back from everything: a connection that cannot be made or *)
(* that ends, by whomever, leaves the dialog, and closing it starts an     *)
(* attempt, or fails at once and shows it again.  No dialog is open        *)
(* during an attempt: closing it would start a second one on a socket that *)
(* is busy.  Only a login answered 0xFF ends in a window that shows the    *)
(* busy page and nothing else, for good.                                   *)
WayBack ==
    [][/\ app.socket # "unconnected" /\ app'.socket = "unconnected" =>
             app'.dialog \/ ParseLoginInfos(\hFF)
       /\ app.dialog /\ ~app'.dialog => app'.isConnected \/ app'.socket = "connecting"
       /\ app'.socket = "connecting" => ~app'.dialog]_vars

(* An attempt to connect ends, by success, by an error or by the timer.    *)
ConnectResolves == app.socket = "connecting" ~> app.socket # "connecting"
=============================================================================
