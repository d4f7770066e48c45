------------------------------ MODULE CodexCall ------------------------------
(***************************************************************************)
(* A live call that a codex app-server owns: the route                     *)
(* examples/gpt-live/app/api/call-codex/route.ts over startLiveCall        *)
(* (app-server/realtime.ts).  POST closes the call before it, starts a     *)
(* thread and a realtime session on the one client of the app, and waits   *)
(* for the answer SDP, which arrives as a notification or never.           *)
(*                                                                         *)
(* A step goes from one await to the next.  Codex is the environment: it   *)
(* answers requests, and sends notifications whenever it likes.            *)
(***************************************************************************)
EXTENDS Naturals

CONSTANT MaxCalls   \* the calls there are; each has one POST

ASSUME CodexCallAssumption == MaxCalls \in Nat \ {0}

Calls == 1..MaxCalls
NoCall == 0

VARIABLES
  post,        \* the handler of each POST: where it stands, whose stop it awaits
  answer,      \* the promise of the answer SDP, with its timer while pending
  subscribed,  \* the calls whose notification listener is subscribed
  closed,      \* the calls whose closed flag is set
  session,     \* codex: the realtime session of each call's thread
  activeCall,  \* the call a later POST will close
  deleting,    \* a DELETE in flight: the call whose stop it awaits
  client,      \* clientPromise and the process behind it
  overlapped   \* history: two requests to the route were in flight at once

route == <<post, answer, subscribed, closed, session, activeCall, deleting, client, overlapped>>

RouteTypeOK ==
  /\ post \in [Calls -> [pc: {"none", "stop", "client", "thread", "start", "answer", "ok", "failed"},
                         stops: Calls \cup {NoCall}]]
  /\ answer \in [Calls -> {"none", "pending", "sdp", "failed"}]
  /\ subscribed \subseteq Calls
  /\ closed \subseteq Calls
  /\ session \in [Calls -> {"none", "open", "over"}]
  /\ activeCall \in Calls \cup {NoCall}
  /\ deleting \in Calls \cup {NoCall}
  /\ client \in {"none", "starting", "up", "broken"}
  /\ overlapped \in BOOLEAN

RouteInit ==
  /\ post = [c \in Calls |-> [pc |-> "none", stops |-> NoCall]]
  /\ answer = [c \in Calls |-> "none"]
  /\ subscribed = {}
  /\ closed = {}
  /\ session = [c \in Calls |-> "none"]
  /\ activeCall = NoCall
  /\ deleting = NoCall
  /\ client = "none"
  /\ overlapped = FALSE

InFlight(c) == post[c].pc \notin {"none", "ok", "failed"}
Busy == deleting # NoCall \/ \E c \in Calls : InFlight(c)
Goes(c, pc) == post' = [post EXCEPT ![c] = [pc |-> pc, stops |-> NoCall]]

------------------------------------------------------------------------------
(* The handlers.                                                           *)

(* clientPromise ??= createAppServerClient(...), once for good.            *)
AsksClient == client' = IF client = "none" THEN "starting" ELSE client

(* close() of the active call: there is one to be stopped, or nothing to do*)
Stoppable == activeCall # NoCall /\ activeCall \notin closed

(* Mutant: the call before is forgotten, not closed.                       *)
PostForgetsCall(c) ==
  /\ post[c].pc = "none"
  /\ overlapped' = (overlapped \/ Busy)
  /\ activeCall' = NoCall
  /\ Goes(c, "client")
  /\ AsksClient
  /\ UNCHANGED <<subscribed, closed, answer, session, deleting>>

PostArrives(c) ==
  /\ post[c].pc = "none"
  /\ overlapped' = (overlapped \/ Busy)
  /\ subscribed' = subscribed \ {activeCall}
  /\ IF Stoppable
       THEN /\ closed' = closed \cup {activeCall}
            /\ post' = [post EXCEPT ![c] = [pc |-> "stop", stops |-> activeCall]]
            /\ UNCHANGED <<activeCall, client>>
       ELSE /\ activeCall' = NoCall
            /\ Goes(c, "client")
            /\ AsksClient
            /\ UNCHANGED closed
  /\ UNCHANGED <<answer, session, deleting>>

(* thread/realtime/stop is answered, or fails, which is caught.            *)
Stopped(c) == session' = [session EXCEPT ![c] = IF @ = "open" THEN "over" ELSE @]

StopAnswered(c) ==
  /\ post[c].pc = "stop"
  /\ Stopped(post[c].stops)
  /\ activeCall' = NoCall
  /\ Goes(c, "client")
  /\ AsksClient
  /\ UNCHANGED <<answer, subscribed, closed, deleting, overlapped>>

(* The client is there and the thread is asked for, or it is not.          *)
GetsClient(c) ==
  /\ post[c].pc = "client"
  /\ client \in {"up", "broken"}
  /\ Goes(c, IF client = "up" THEN "thread" ELSE "failed")
  /\ UNCHANGED <<answer, subscribed, closed, session, activeCall, deleting, client, overlapped>>

(* The listener is attached, and the timer set, before the start is sent.  *)
ThreadStarted(c) ==
  /\ post[c].pc = "thread"
  /\ client = "up"
  /\ answer' = [answer EXCEPT ![c] = "pending"]
  /\ subscribed' = subscribed \cup {c}
  /\ Goes(c, "start")
  /\ UNCHANGED <<closed, session, activeCall, deleting, client, overlapped>>

ThreadFails(c) ==
  /\ post[c].pc = "thread"
  /\ Goes(c, "failed")
  /\ UNCHANGED <<answer, subscribed, closed, session, activeCall, deleting, client, overlapped>>

StartAnswered(c) ==
  /\ post[c].pc = "start"
  /\ client = "up"
  /\ session[c] # "none"
  /\ Goes(c, "answer")
  /\ UNCHANGED <<answer, subscribed, closed, session, activeCall, deleting, client, overlapped>>

(* The catch block; a pending answer keeps its timer.                      *)
StartRefused(c) ==
  /\ post[c].pc = "start"
  /\ session[c] = "none" \/ client = "broken"
  /\ subscribed' = subscribed \ {c}
  /\ Goes(c, "failed")
  /\ UNCHANGED <<answer, closed, session, activeCall, deleting, client, overlapped>>

(* await answer, and what the route does with it.                          *)
Answered(c) ==
  /\ post[c].pc = "answer"
  /\ answer[c] = "sdp"
  /\ activeCall' = c
  /\ Goes(c, "ok")
  /\ UNCHANGED <<answer, subscribed, closed, session, deleting, client, overlapped>>

AnswerFailed(c) ==
  /\ post[c].pc = "answer"
  /\ answer[c] = "failed"
  /\ subscribed' = subscribed \ {c}
  /\ Goes(c, "failed")
  /\ UNCHANGED <<answer, closed, session, activeCall, deleting, client, overlapped>>

DeleteArrives ==
  /\ Stoppable => deleting = NoCall   \* bound: one DELETE waits at a time
  /\ overlapped' = (overlapped \/ Busy)
  /\ activeCall # NoCall
  /\ subscribed' = subscribed \ {activeCall}
  /\ closed' = closed \cup {activeCall}
  /\ IF Stoppable
       THEN deleting' = activeCall /\ UNCHANGED activeCall
       ELSE activeCall' = NoCall /\ UNCHANGED deleting
  /\ UNCHANGED <<post, answer, session, client>>

DeleteDone ==
  /\ deleting # NoCall
  /\ Stopped(deleting)
  /\ activeCall' = NoCall
  /\ deleting' = NoCall
  /\ UNCHANGED <<post, answer, subscribed, closed, client, overlapped>>

------------------------------------------------------------------------------
(* The timer, and the listener's notifications.                            *)
Settle(c, how) == answer' = [answer EXCEPT ![c] = how]

(* Mutant: the timer marks the answer as settled and rejects nothing.      *)
TimerGivesUp(c) ==
  /\ answer[c] = "pending"
  /\ Settle(c, "none")
  /\ UNCHANGED <<post, subscribed, closed, session, activeCall, deleting, client, overlapped>>

TimerFires(c) ==
  /\ answer[c] = "pending"
  /\ Settle(c, "failed")
  /\ UNCHANGED <<post, subscribed, closed, session, activeCall, deleting, client, overlapped>>

(* The timer, or an error of codex, rejects an answer that the handler does*)
(* not await: it is at the start request, or past its catch block.  No one *)
(* handles that rejection, which may end the route's process (if not, the  *)
(* answer has just failed).  Requests in flight are lost, what the route   *)
(* and the SDK remember is gone, codex ends with its stdin; the next       *)
(* request finds the route as it began.                                    *)
RejectionUnheard(c) ==
  /\ answer[c] = "pending"
  /\ post[c].pc # "answer"
  /\ post' = [d \in Calls |-> IF InFlight(d) THEN [pc |-> "failed", stops |-> NoCall] ELSE post[d]]
  /\ answer' = [d \in Calls |-> "none"]
  /\ session' = [d \in Calls |-> IF session[d] = "open" THEN "over" ELSE session[d]]
  /\ subscribed' = {} /\ closed' = {}
  /\ activeCall' = NoCall /\ deleting' = NoCall
  /\ client' = "none"
  /\ UNCHANGED overlapped

(* thread/realtime/sdp, or thread/realtime/error.                          *)
Notified(c) ==
  /\ session[c] = "open"
  /\ c \in subscribed
  /\ answer[c] = "pending"
  /\ \E how \in {"sdp", "failed"} : Settle(c, how)
  /\ UNCHANGED <<post, subscribed, closed, session, activeCall, deleting, client, overlapped>>

(* thread/realtime/closed: codex has ended the session.                    *)
SessionCloses(c) ==
  /\ session[c] = "open"
  /\ session' = [session EXCEPT ![c] = "over"]
  /\ closed' = IF c \in subscribed THEN closed \cup {c} ELSE closed
  /\ UNCHANGED <<post, answer, subscribed, activeCall, deleting, client, overlapped>>

(* Codex takes thread/realtime/start.                                      *)
SessionOpens(c) ==
  /\ post[c].pc = "start"
  /\ client = "up"
  /\ session[c] = "none"
  /\ session' = [session EXCEPT ![c] = "open"]
  /\ UNCHANGED <<post, answer, subscribed, closed, activeCall, deleting, client, overlapped>>

ClientStarts ==
  /\ client = "starting"
  /\ \E how \in {"up", "broken"} : client' = how
  /\ UNCHANGED <<post, answer, subscribed, closed, session, activeCall, deleting, overlapped>>

(* The app-server dies, and its sessions with it: requests fail from now.  *)
ClientDies ==
  /\ client = "up"
  /\ client' = "broken"
  /\ session' = [c \in Calls |-> IF session[c] = "open" THEN "over" ELSE session[c]]
  /\ UNCHANGED <<post, answer, subscribed, closed, activeCall, deleting, overlapped>>

Handles(c) ==
  \/ StopAnswered(c) \/ GetsClient(c) \/ ThreadStarted(c) \/ ThreadFails(c)
  \/ StartAnswered(c) \/ StartRefused(c) \/ Answered(c) \/ AnswerFailed(c)

RouteStep ==
  \/ \E c \in Calls :
       \/ Handles(c) \/ TimerFires(c) \/ RejectionUnheard(c)
       \/ Notified(c) \/ SessionCloses(c) \/ SessionOpens(c)
  \/ DeleteArrives \/ DeleteDone \/ ClientStarts \/ ClientDies

(* Requests are answered (a start is taken or refused) and timers fire.    *)
RouteRuns == (\E c \in Calls : Handles(c) \/ TimerFires(c)) \/ DeleteDone \/ ClientStarts

------------------------------------------------------------------------------
(* A call whose POST succeeded is closed by the next one (route.ts: "a new *)
(* offer replaces the previous session"): while its session is open, it is *)
(* the active call or its stop is awaited.  Requests that overlap break it,*)
(* which is why the history is there.                                      *)
OpenCallsAreReplaced ==
  ~overlapped => \A c \in Calls :
    (post[c].pc = "ok" /\ session[c] = "open") =>
      activeCall = c \/ deleting = c \/ \E d \in Calls : post[d].stops = c

(* Every POST is answered, though codex may never send an SDP, may close   *)
(* the session without a word to the promise, or may die.                  *)
PostsEnd == \A c \in Calls : InFlight(c) ~> ~InFlight(c)

==============================================================================
