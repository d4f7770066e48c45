------------------------------ MODULE WebSignIn ------------------------------
(***************************************************************************)
(* Sign-in on a page: useChatGPTAuth (typescript/src/react/index.tsx) with *)
(* its popup window, over the handler's routes.  Each refresh, login and   *)
(* logout takes the next number, and only the newest may settle the view;  *)
(* the older ones still run, hold requests and a window.                   *)
(*                                                                         *)
(* A request is one step at the server and one when its answer arrives.    *)
(***************************************************************************)
EXTENDS HttpHandler

CONSTANTS
  MaxPolls,  \* the polls that fit in pollTimeoutMs
  Buttons    \* do the library's buttons call the hook, or an application's own?

ASSUME HookAssumption == MaxLogins > 0 /\ MaxPolls \in Nat \ {0} /\ Buttons \in BOOLEAN

VARIABLES
  operation,  \* the newest operation's number: operation.current
  op,         \* what each operation's code holds
  popup,      \* popup.current: the operation that opened it, or None
  window,     \* the sign-in window that is open: who opened it, whose login it shows
  view,       \* the view: its status and session
  seen        \* history: the rows there were since the newest operation began

hook == <<operation, op, popup, window, view, seen>>
vars == <<handler, hook>>

Ops == Logins
Kinds == {"none", "refresh", "login", "logout", "unmount"}

(* win is loginWindow; got is the answer of the server, not yet arrived.    *)
Operation ==
  [kind: Kinds, pc: {"idle", "fetch", "reply", "poll", "polled", "pause", "done"},
   win: Ops \cup {None}, ok: BOOLEAN, got: Logins \cup {None}, polls: 0..MaxPolls]
OpAt(kind, pc, win) ==
  [kind |-> kind, pc |-> pc, win |-> win, ok |-> FALSE, got |-> None, polls |-> 0]

Busy == {"loading", "connecting"}

TypeOK ==
  /\ HandlerTypeOK
  /\ operation \in Ops
  /\ op \in [Ops -> Operation]
  /\ popup \in Ops \cup {None}
  /\ window \in [id: Ops \cup {None}, shows: Logins \cup {None}]
  /\ view \in [status: Busy \cup {"signed-out", "connected", "error"}, session: Logins \cup {None}]
  /\ seen \subseteq Logins \cup {None}

NoWindow == [id |-> None, shows |-> None]

(* The mount effect has begun the first refresh.                           *)
Init ==
  /\ HandlerInit
  /\ operation = 1
  /\ op = [i \in Ops |-> IF i = 1 THEN OpAt("refresh", "fetch", None) ELSE OpAt("none", "idle", None)]
  /\ popup = None
  /\ window = NoWindow
  /\ view = [status |-> "loading", session |-> None]
  /\ seen = {None}

Closed(w) == IF window.id = w THEN NoWindow ELSE window
Newest(i) == operation = i
Goes(i, pc) == op' = [op EXCEPT ![i] =
  IF pc = "done" THEN OpAt(@.kind, pc, None)
  ELSE [@ EXCEPT !.pc = pc, !.ok = FALSE, !.got = None]]
Shows(status, session) == view' = [status |-> status, session |-> session]

(* Mutant: whatever arrives settles the view.                              *)
SettlesAnyway(i, status, session) == Shows(status, session)

(* settle, by the newest operation; an older one leaves the view alone.    *)
Settles(i, status, session) == IF Newest(i) THEN Shows(status, session) ELSE UNCHANGED view

------------------------------------------------------------------------------
(* What the page does.                                                     *)
Mounted == op[operation].kind # "unmount"

(* The component's buttons: one is shown, and none while the page is busy.  *)
MaySignIn  == Buttons => view.status \in {"signed-out", "error"}
MaySignOut == Buttons => view.status = "connected"

Begin(kind) ==
  /\ Mounted
  /\ operation < MaxLogins
  /\ operation' = operation + 1
  /\ op' = [op EXCEPT ![operation + 1] =
       OpAt(kind, IF kind = "unmount" THEN "done" ELSE "fetch", None)]
  /\ seen' = {row}

(* Mutant: a refresh or a sign-out forgets the window without closing it.  *)
DropPopupOpen == popup' = None /\ UNCHANGED window

DropPopup ==
  /\ window' = Closed(popup)
  /\ popup' = None

Refresh ==
  /\ Begin("refresh")
  /\ DropPopup
  /\ Shows("loading", view.session)
  /\ UNCHANGED handler

(* The effect's cleanup as the page goes.  An effect that runs again is a  *)
(* cleanup with a refresh in the same turn, which is a refresh.            *)
Unmount ==
  /\ Begin("unmount")
  /\ DropPopup
  /\ UNCHANGED <<handler, view>>

SignOut ==
  /\ MaySignOut
  /\ Begin("logout")
  /\ DropPopup
  /\ Shows("loading", view.session)
  /\ UNCHANGED handler

(* window.open gives the window of that name, if there is one.             *)
SignIn ==
  /\ Mounted
  /\ MaySignIn
  /\ operation < MaxLogins
  /\ LET i == operation + 1
         w == IF window.id = None THEN i ELSE window.id
     IN /\ op' = [op EXCEPT ![i] = OpAt("login", "fetch", w)]
        /\ popup' = w
        /\ window' = [window EXCEPT !.id = w]
  /\ operation' = operation + 1
  /\ seen' = {row}
  /\ Shows("connecting", None)
  /\ UNCHANGED handler

(* The browser blocks the window: an error at once.                        *)
SignInBlocked ==
  /\ Mounted
  /\ MaySignIn
  /\ window.id = None
  /\ operation < MaxLogins
  /\ operation' = operation + 1
  /\ op' = [op EXCEPT ![operation + 1] = OpAt("login", "done", None)]
  /\ popup' = None
  /\ seen' = {row}
  /\ Shows("error", None)
  /\ UNCHANGED <<handler, window>>

------------------------------------------------------------------------------
(* The server handles the request of operation i.                          *)
Answered(i, ok, got) ==
  op' = [op EXCEPT ![i].pc = IF op[i].pc = "fetch" THEN "reply" ELSE "polled",
                   ![i].ok = ok, ![i].got = got]
AtServer == UNCHANGED <<operation, popup, window, view>>

AsksSession(i) == op[i].pc = "poll" \/ (op[i].pc = "fetch" /\ op[i].kind = "refresh")

ServeSession(i) ==
  /\ AsksSession(i)
  /\ Answered(i, TRUE, row)
  /\ AtServer
  /\ UNCHANGED <<handler, seen>>

ServeLogin(i) ==
  /\ op[i].pc = "fetch" /\ op[i].kind = "login"
  /\ SaveLogin(i)
  /\ \E ok \in BOOLEAN : Answered(i, ok, None)   \* the answer may be lost
  /\ AtServer
  /\ UNCHANGED <<custody, row, spent, callback, seen>>

ServeLogout(i) ==
  /\ op[i].pc = "fetch" /\ op[i].kind = "logout"
  /\ Logout
  /\ \E ok \in BOOLEAN : Answered(i, ok, None)   \* the answer may be lost
  /\ seen' = seen \cup {None}
  /\ AtServer
  /\ UNCHANGED <<custody, kept, spent, callback>>

ServeFails(i) ==
  /\ op[i].pc \in {"fetch", "poll"}
  /\ Answered(i, FALSE, None)
  /\ AtServer
  /\ UNCHANGED <<handler, seen>>

------------------------------------------------------------------------------
(* The answer arrives at operation i, and its code goes on.                *)
Status(session) == IF session = None THEN "signed-out" ELSE "connected"

RefreshArrives(i) ==
  /\ op[i].pc = "reply" /\ op[i].kind = "refresh"
  /\ Settles(i, IF op[i].ok THEN Status(op[i].got) ELSE "error", op[i].got)
  /\ Goes(i, "done")
  /\ UNCHANGED <<handler, operation, popup, window, seen>>

(* A failed sign-out shows what was there before it: the session of the    *)
(* view stays during the operation.                                        *)
LogoutArrives(i) ==
  /\ op[i].pc = "reply" /\ op[i].kind = "logout"
  /\ IF op[i].ok THEN Settles(i, "signed-out", None) ELSE Settles(i, "error", view.session)
  /\ Goes(i, "done")
  /\ UNCHANGED <<handler, operation, popup, window, seen>>

(* Mutant: the catch block of login leaves the view as it is.              *)
LoginThrowsSilently(i) ==
  /\ window' = Closed(op[i].win)
  /\ popup' = IF popup = op[i].win THEN None ELSE popup
  /\ UNCHANGED view
  /\ Goes(i, "done")

(* Mutant: the catch block closes the popup of the hook, not its own.      *)
LoginThrowsAtPopup(i) ==
  /\ window' = Closed(popup)
  /\ popup' = None
  /\ Settles(i, "error", None)
  /\ Goes(i, "done")

(* The catch block of login.                                               *)
LoginThrows(i) ==
  /\ window' = Closed(op[i].win)
  /\ popup' = IF popup = op[i].win THEN None ELSE popup
  /\ Settles(i, "error", None)
  /\ Goes(i, "done")

LoginArrives(i) ==
  /\ op[i].pc = "reply" /\ op[i].kind = "login"
  /\ op[i].ok
  /\ ReceiveLogin(i)
  /\ IF Newest(i)
       THEN /\ Goes(i, "poll")
            /\ window' = IF window.id = op[i].win THEN [window EXCEPT !.shows = i] ELSE window
       ELSE /\ Goes(i, "done")
            /\ window' = Closed(op[i].win)
  /\ UNCHANGED <<custody, row, spent, callback, operation, popup, view, seen>>

LoginFails(i) ==
  /\ op[i].pc \in {"reply", "polled"} /\ op[i].kind = "login"
  /\ ~op[i].ok
  /\ LoginThrows(i)
  /\ UNCHANGED <<handler, operation, seen>>

(* A poll finds a session, a closed window, or neither.                    *)
PollConnects(i) ==
  /\ op[i].pc = "polled" /\ op[i].ok /\ Newest(i)
  /\ op[i].got # None
  /\ window' = Closed(op[i].win)
  /\ popup' = None
  /\ Shows("connected", op[i].got)
  /\ Goes(i, "done")
  /\ UNCHANGED <<handler, operation, seen>>

PollFindsClosed(i) ==
  /\ op[i].pc = "polled" /\ op[i].ok /\ Newest(i)
  /\ op[i].got = None
  /\ window.id # op[i].win
  /\ LoginThrows(i)
  /\ UNCHANGED <<handler, operation, seen>>

PollPauses(i) ==
  /\ op[i].pc = "polled" /\ op[i].ok /\ Newest(i)
  /\ op[i].got = None
  /\ window.id = op[i].win
  /\ Goes(i, "pause")
  /\ UNCHANGED <<handler, operation, popup, window, view, seen>>

(* A superseded login stops polling without a word.                        *)
PollStops(i) ==
  /\ op[i].pc \in {"polled", "pause"}
  /\ op[i].pc = "polled" => op[i].ok
  /\ ~Newest(i)
  /\ Goes(i, "done")
  /\ UNCHANGED <<handler, operation, popup, window, view, seen>>

(* Mutant: polling has no deadline.                                        *)
PollForever(i) ==
  /\ op[i].pc = "pause" /\ Newest(i)
  /\ Goes(i, "poll")
  /\ UNCHANGED <<handler, operation, popup, window, view, seen>>

PollAgain(i) ==
  /\ op[i].pc = "pause" /\ Newest(i)
  /\ op[i].polls < MaxPolls
  /\ op' = [op EXCEPT ![i].pc = "poll", ![i].polls = @ + 1]
  /\ UNCHANGED <<handler, operation, popup, window, view, seen>>

PollTimesOut(i) ==
  /\ op[i].pc = "pause" /\ Newest(i)
  /\ LoginThrows(i)
  /\ UNCHANGED <<handler, operation, seen>>

------------------------------------------------------------------------------
(* What the user does in the window, and the callback's requests.          *)
Approve ==
  /\ window.shows # None
  /\ SendCallback(window.shows)
  /\ UNCHANGED <<custody, kept, row, spent, hook>>

CloseWindow ==
  /\ window.id # None
  /\ window' = NoWindow
  /\ UNCHANGED <<handler, operation, op, popup, view, seen>>

Callback(r) ==
  /\ CallbackStep(r)
  /\ seen' = seen \cup {row'}
  /\ UNCHANGED <<operation, op, popup, window, view>>

Serve(i) == ServeSession(i) \/ ServeLogin(i) \/ ServeLogout(i) \/ ServeFails(i)

Arrive(i) ==
  \/ RefreshArrives(i) \/ LogoutArrives(i) \/ LoginArrives(i) \/ LoginFails(i)
  \/ PollConnects(i) \/ PollFindsClosed(i) \/ PollPauses(i) \/ PollStops(i)
  \/ PollAgain(i) \/ PollTimesOut(i)

Next ==
  \/ Refresh \/ Unmount \/ SignIn \/ SignInBlocked \/ SignOut
  \/ \E i \in Ops : Serve(i) \/ Arrive(i)
  \/ Approve \/ CloseWindow
  \/ \E r \in Requests : Callback(r)

(* While a request is out or an answer has come, one of them goes on: the  *)
(* server answers or the request fails, and the event loop runs.           *)
Fairness == WF_vars(\E i \in Ops : Serve(i) \/ Arrive(i))
Spec == Init /\ [][Next]_vars /\ Fairness

------------------------------------------------------------------------------
(* Running(i): the code of operation i has begun and not returned.         *)
Running(i) == op[i].pc \notin {"idle", "done"}

(* The page is busy exactly while its newest operation runs: no late answer*)
(* of an older one ends the wait early, and no way out of an operation     *)
(* (a failure, a closed window, a timeout) leaves the spinner turning.     *)
BusyWhileNewestRuns ==
  Mounted => (view.status \in Busy <=> Running(operation))

(* What a settled page says was so at some moment since its newest         *)
(* operation began: the session it shows was stored, or there was none.    *)
ViewWasTrue ==
  (Mounted /\ ~Running(operation)) =>
    /\ view.status = "connected" => view.session # None /\ view.session \in seen
    /\ view.status = "signed-out" => None \in seen

(* No sign-in window is left behind: one is open only for a login that is  *)
(* the newest operation and still runs, which can close it.                *)
WindowIsAttended ==
  window.id # None =>
    /\ popup = window.id
    /\ Running(operation) /\ op[operation].win = window.id

(* A superseded operation that fails or is answered late does not close    *)
(* the window of the newest login: a window goes by the user, by a new     *)
(* operation or by a step of its own login.                                *)
NewestKeepsItsWindow ==
  [][(window.id # None /\ window'.id # window.id /\ op' # op) =>
       op'[operation'] # op[operation']]_vars

(* Every operation returns: requests are answered or fail, and polling has *)
(* a deadline.  Operations are bounded here, so that a moment without any  *)
(* comes again and again.                                                  *)
OperationsEnd == []<>(\A i \in Ops : ~Running(i))

------------------------------------------------------------------------------
==============================================================================
