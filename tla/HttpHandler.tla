----------------------------- MODULE HttpHandler -----------------------------
(***************************************************************************)
(* The routes of the fetch handler (typescript/src/http/index.ts) for one  *)
(* subject and one browser: the login that is under way is kept between    *)
(* the redirect and the callback, by a PendingLoginStore or in a sealed    *)
(* cookie, and a callback completes the login it finds there.  A login is  *)
(* known by a number, which stands for its state, verifier and code.       *)
(***************************************************************************)
EXTENDS Naturals

CONSTANTS
  MaxLogins,  \* logins, and operations of the browser
  MaxRequests, \* requests of callback URLs, at most
  Custodies   \* who may keep the pending login: store, cookie

ASSUME CustodyAssumption == Custodies \subseteq {"store", "cookie"}
ASSUME CountsAssumption  == MaxLogins \in Nat /\ MaxRequests \in Nat

Logins == 1..MaxLogins
None   == 0   \* no login, no session

VARIABLES
  custody,   \* who keeps the pending login in this deployment
  kept,      \* the pending login that is kept: a row of the store, or the browser's cookie
  row,       \* the login that stored the subject's credentials, or None
  spent,     \* logins whose code the token endpoint has exchanged
  callback   \* the requests of callback URLs

handler == <<custody, kept, row, spent, callback>>

Requests == 1..MaxRequests
Answers  == {"refused", "redirect", "rejected", "broken"}

(* login is whose state and code the URL has, cookie what the browser sent *)
(* along; a request ends over, or used if it took the login it was about.  *)
CallbackType ==
  [login: Logins \cup {None}, at: {"unsent", "sent", "taken", "over", "used"} \cup Answers, cookie: Logins \cup {None}]
Unsent == [login |-> None, at |-> "unsent", cookie |-> None]

HandlerTypeOK ==
  /\ custody \in Custodies
  /\ kept \in Logins \cup {None}
  /\ row \in Logins \cup {None}
  /\ spent \subseteq Logins
  /\ callback \in [Requests -> CallbackType]

HandlerInit ==
  /\ custody \in Custodies
  /\ kept = None
  /\ row = None
  /\ spent = {}
  /\ callback = [r \in Requests |-> Unsent]

(* POST /login begins a login and hands it over to its keeper; a cookie is *)
(* with the browser only when the answer is.                               *)
SaveLogin(l)   == IF custody = "store" THEN kept' = l ELSE UNCHANGED kept
ReceiveLogin(l) == IF custody = "cookie" THEN kept' = l ELSE UNCHANGED kept

(* The browser requests the callback URL of l, and sends its cookie along. *)
SendCallback(l) ==
  \E r \in Requests :
    /\ callback[r].at = "unsent"
    /\ \A q \in 1..(r - 1) : callback[q].at # "unsent"
    /\ callback' = [callback EXCEPT ![r] =
         [login |-> l, at |-> "sent", cookie |-> IF custody = "cookie" THEN kept ELSE None]]

Reaches(r, at) == callback' = [callback EXCEPT ![r].at = at, ![r].cookie = None]

(* GET /callback takes the pending login, which is gone from a store then. *)
(* No pending login, or one with another state, is an error of the request.*)
Taken(r)  == IF custody = "store" THEN kept ELSE callback[r].cookie

(* Mutant: take reads the pending login and leaves it there.               *)
PeekPending(r) ==
  /\ callback[r].at = "sent"
  /\ Reaches(r, IF Taken(r) = callback[r].login THEN "taken" ELSE "refused")
  /\ UNCHANGED <<custody, kept, row, spent>>

TakePending(r) ==
  /\ callback[r].at = "sent"
  /\ Reaches(r, IF Taken(r) = callback[r].login THEN "taken" ELSE "refused")
  /\ kept' = IF custody = "store" THEN None ELSE kept
  /\ UNCHANGED <<custody, row, spent>>

(* A sealed cookie is worth nothing after ten minutes.                     *)
CookieExpired(r) ==
  /\ custody = "cookie"
  /\ callback[r].at = "sent"
  /\ Reaches(r, "refused")
  /\ UNCHANGED <<custody, kept, row, spent>>

(* completeLogin: the code is exchanged, and the credentials are stored.   *)
CompleteLogin(r) ==
  /\ callback[r].at = "taken"
  /\ callback[r].login \notin spent
  /\ spent' = spent \cup {callback[r].login}
  /\ row' = callback[r].login
  /\ Reaches(r, "redirect")
  /\ UNCHANGED <<custody, kept>>

(* The user or the endpoint said no, or the exchange did not come through. *)
RejectLogin(r) ==
  /\ callback[r].at = "taken"
  /\ \E answer \in {"rejected", "broken"} : Reaches(r, answer)
  /\ UNCHANGED <<custody, kept, row, spent>>

(* The answer reaches the browser, which forgets the cookie unless the     *)
(* handler threw; or the browser has dropped the request.                  *)
AnswerCallback(r) ==
  /\ callback[r].at \in Answers
  /\ kept' \in IF custody = "cookie" /\ callback[r].at # "broken" THEN {kept, None} ELSE {kept}
  /\ Reaches(r, IF callback[r].at = "refused" THEN "over" ELSE "used")
  /\ UNCHANGED <<custody, row, spent>>

(* POST /logout *)
Logout == row' = None

CallbackStep(r) ==
  \/ TakePending(r)
  \/ CookieExpired(r)
  \/ CompleteLogin(r)
  \/ RejectLogin(r)
  \/ AnswerCallback(r)

------------------------------------------------------------------------------
(* A PendingLoginStore hands a login out once (http/index.ts:8): however   *)
(* often the browser requests a callback URL, and whatever logins began in *)
(* between, one request at most goes on to exchange the code.              *)
Proceeded(r) == callback[r].at \in {"taken", "redirect", "rejected", "broken", "used"}
TakenOnce ==
  custody = "store" =>
    \A q, r \in Requests :
      Proceeded(q) /\ Proceeded(r) /\ q # r => callback[q].login # callback[r].login

==============================================================================
