---------------------------- MODULE LiveCallProofs ----------------------------
(* Proofs about the codex route (CodexCall) and the live call's page        *)
(* (LiveCall), for any number of calls, delegations and turns.  The second  *)
(* part is about the HTTP call that an offer is sent with, as is every other*)
(* request of the client (ApiClient), for bodies and chunks of any length.  *)
EXTENDS LiveCall, ApiClient, SequenceTheorems, WellFoundedInduction, TLAPS

(***************************************************************************)
(* The inductive invariant.                                                *)
(***************************************************************************)

(* A request that has got past stop has a session to show for it, and only *)
(* sessions that were there are closed.                                    *)
SessionsFit ==
  /\ \A c \in Calls : post[c].pc = "stop" <=> post[c].stops # NoCall
  /\ \A c \in Calls : post[c].pc \in {"answer", "ok"} => session[c] # "none"
  /\ \A c \in closed : session[c] # "none"
  /\ activeCall # NoCall => session[activeCall] # "none"

(* While no two requests overlapped: one is in flight at a time, and the   *)
(* active call is the one it stops, or there is none.                      *)
OneRequest ==
  /\ \A c, d \in Calls : InFlight(c) /\ InFlight(d) => c = d
  /\ deleting # NoCall => activeCall = deleting /\ \A c \in Calls : ~InFlight(c)
  /\ \A c \in Calls : InFlight(c) => activeCall = post[c].stops

(* A session that was asked to close is over, or its stop is awaited.      *)
Stopping(c) == deleting = c \/ \E d \in Calls : post[d].stops = c
ClosedFits == \A c \in closed : session[c] = "open" => Stopping(c)

RouteFits == SessionsFit /\ (~overlapped => OneRequest /\ ClosedFits) /\ OpenCallsAreReplaced

(* What was sent back for a delegation, by where it stands.                *)
ItemFits(i) ==
  /\ item[i].pc = "none" => item[i].sent = <<>> /\ ~item[i].timer
  /\ item[i].timer => item[i].sent = <<>> /\ item[i].pc = "running"
  /\ item[i].pc # "answered" => item[i].sent \in {<<>>, <<"commentary">>}
  /\ item[i].pc = "answered" => item[i].sent \in {<<"speakable">>, <<"commentary", "speakable">>}
ItemsFit == \A i \in Items : ItemFits(i)

TurnsFit == \A t \in Turns : turn[t].pc = "open" => turn[t].call \in Calls

(* A channel does not open before the answer is applied.  Unless a call    *)
(* was ended while it was connecting: one call at most is connecting, with *)
(* no other to refer to, and all that is on belongs to it or to the call   *)
(* the page refers to.                                                     *)
On(c) == call[c].mic \/ call[c].connection \/ call[c].channel \in {"connecting", "open"}
ChannelsFit == \A c \in Calls : call[c].pc \notin {"up", "failed"} => call[c].channel # "open"
OneCall ==
  /\ \A c, d \in Calls : Connecting(c) /\ Connecting(d) => c = d
  /\ \A c \in Calls : Connecting(c) => phase = "connecting" /\ callRef = NoCall
  /\ \A c \in Calls : On(c) => c = callRef \/ Connecting(c)
  /\ phase = "idle" => callRef = NoCall
  /\ openTurns # {} => callRef # NoCall /\ call[callRef].started
PageFits == ChannelsFit /\ (~cut => OneCall) /\ PhaseTellsTruth

IInv == TypeOK /\ RouteFits /\ ItemsFit /\ TurnsFit /\ PageFits

LEMMA CallsTyped == NoCall \notin Calls /\ Calls \subseteq Nat /\ MaxCalls \in Nat
BY CodexCallAssumption DEF Calls, NoCall

(***************************************************************************)
(* The codex route.                                                        *)
(***************************************************************************)

RouteInv == RouteTypeOK /\ RouteFits

LEMMA GoesTyped ==
  ASSUME RouteTypeOK, NEW c \in Calls,
         NEW pc \in {"none", "client", "thread", "start", "answer", "ok", "failed"}, Goes(c, pc)
  PROVE  /\ post' \in [Calls -> [pc: {"none", "stop", "client", "thread", "start", "answer", "ok", "failed"},
                                 stops: Calls \cup {NoCall}]]
         /\ post'[c].pc = pc /\ post'[c].stops = NoCall
         /\ \A d \in Calls \ {c} : post'[d] = post[d]
BY DEF Goes, RouteTypeOK

(* A handler goes on, from one await to the next or to a failure.          *)
LEMMA MoveKeeps ==
  ASSUME RouteInv, RouteTypeOK', NEW c \in Calls, NEW pc \in {"client", "thread", "start", "answer", "failed"},
         post[c].pc \in {"client", "thread", "start", "answer"},
         post'[c].pc = pc, post'[c].stops = NoCall, \A d \in Calls \ {c} : post'[d] = post[d],
         pc = "answer" => session[c] # "none",
         UNCHANGED <<closed, session, activeCall, deleting, overlapped>>
  PROVE  RouteInv'
<1> USE CallsTyped DEF RouteInv, RouteFits
<1>1. post[c].stops = NoCall
  BY DEF SessionsFit
<1>2. \A d \in Calls : post'[d].stops = post[d].stops /\ (InFlight(d)' => InFlight(d))
                       /\ (post'[d].pc \in {"stop", "ok"} => post'[d] = post[d])
  BY <1>1 DEF InFlight
<1>3. SessionsFit'
  BY <1>2 DEF SessionsFit
<1>4. ASSUME ~overlapped PROVE OneRequest' /\ ClosedFits'
  BY <1>2, <1>4 DEF OneRequest, ClosedFits, Stopping
<1>5. OpenCallsAreReplaced'
  <2> SUFFICES ASSUME ~overlapped, NEW x \in Calls, post'[x].pc = "ok", session'[x] = "open"
               PROVE  activeCall = x \/ deleting = x \/ \E d \in Calls : post'[d].stops = x
    BY DEF OpenCallsAreReplaced
  <2>1. activeCall = x \/ deleting = x \/ \E d \in Calls : post[d].stops = x
    BY <1>2 DEF OpenCallsAreReplaced
  <2> QED
    BY <1>2, <2>1
<1> QED
  BY <1>3, <1>4, <1>5

(* Codex, its timers and its notifications: requests stay where they are,  *)
(* and a session that is open was open, or is opened by a start.           *)
LEMMA CodexKeeps ==
  ASSUME RouteInv, RouteTypeOK',
         UNCHANGED <<post, activeCall, deleting, overlapped>>,
         \A c \in Calls : session'[c] = "open" => session[c] = "open" \/ (session[c] = "none" /\ post[c].pc = "start"),
         \A c \in Calls : session[c] # "none" => session'[c] # "none",
         \A c \in closed' : c \in closed \/ session'[c] = "over"
  PROVE  RouteInv'
<1> USE CallsTyped DEF RouteInv, RouteFits
<1>1. \A c \in Calls : InFlight(c)' <=> InFlight(c)
  BY DEF InFlight
<1>2. closed \subseteq Calls /\ activeCall \in Calls \cup {NoCall} /\ closed' \subseteq Calls
  BY DEF RouteTypeOK
<1>3. SessionsFit'
  BY <1>2 DEF SessionsFit
<1>4. ASSUME ~overlapped PROVE OneRequest' /\ ClosedFits'
  <2>1. OneRequest'
    BY <1>1, <1>4 DEF OneRequest
  <2>2. \A c \in Calls : Stopping(c)' <=> Stopping(c)
    BY DEF Stopping
  <2>3. ClosedFits'
    BY <1>2, <1>4, <2>2 DEF ClosedFits, SessionsFit
  <2> QED
    BY <2>1, <2>3
<1>5. OpenCallsAreReplaced'
  BY DEF OpenCallsAreReplaced
<1> QED
  BY <1>3, <1>4, <1>5

(* A stop is answered: the POST that awaits it goes on, or the DELETE ends.*)
LEMMA StopKeeps ==
  ASSUME RouteInv, RouteTypeOK', NEW s \in Calls, Stopped(s), activeCall' = NoCall,
         UNCHANGED <<closed, overlapped>>,
         \/ deleting = s /\ deleting' = NoCall /\ post' = post
         \/ /\ deleting' = deleting
            /\ \E c \in Calls : /\ post[c].pc = "stop" /\ post[c].stops = s
                                /\ post'[c].pc = "client" /\ post'[c].stops = NoCall
                                /\ \A d \in Calls \ {c} : post'[d] = post[d]
  PROVE  RouteInv'
<1> USE CallsTyped DEF RouteInv, RouteFits
<1>1. /\ \A d \in Calls \ {s} : session'[d] = session[d]
      /\ session'[s] # "open" /\ (session[s] # "none" => session'[s] # "none")
  BY DEF Stopped, RouteTypeOK
<1>2. \A d \in Calls : /\ post'[d].pc # post[d].pc => post[d].pc = "stop" /\ post'[d].pc = "client"
                       /\ post'[d].stops = post[d].stops \/ (post[d].stops = s /\ post'[d].stops = NoCall)
                       /\ post'[d].stops = NoCall \/ post'[d] = post[d]
                       /\ post'[d].pc = "stop" => post'[d] = post[d]
  OBVIOUS
<1>3. \A d \in Calls : InFlight(d)' <=> InFlight(d)
  BY <1>2 DEF InFlight
<1>4. SessionsFit'
  BY <1>1, <1>2 DEF SessionsFit, RouteTypeOK
<1>5. \A d \in Calls \ {s} : Stopping(d) => Stopping(d)'
  BY <1>2 DEF Stopping
<1>6. ASSUME ~overlapped PROVE OneRequest' /\ ClosedFits'
  <2>1. OneRequest
    BY <1>6
  <2>2. OneRequest'
    BY <1>2, <1>3, <2>1 DEF OneRequest, InFlight, SessionsFit
  <2>3. ClosedFits'
    BY <1>1, <1>5, <1>6 DEF ClosedFits, RouteTypeOK
  <2> QED
    BY <2>2, <2>3
<1>7. OpenCallsAreReplaced'
  <2> SUFFICES ASSUME ~overlapped, NEW c \in Calls, post'[c].pc = "ok", session'[c] = "open"
               PROVE  deleting' = c \/ \E d \in Calls : post'[d].stops = c
    BY DEF OpenCallsAreReplaced
  <2>1. c # s /\ post[c].pc = "ok" /\ session[c] = "open"
    BY <1>1, <1>2
  <2>2. activeCall = c \/ deleting = c \/ \E d \in Calls : post[d].stops = c
    BY <2>1 DEF OpenCallsAreReplaced
  <2>3. activeCall = s
    <3>1. OneRequest
      OBVIOUS
    <3>2. CASE deleting = s
      BY <3>1, <3>2 DEF OneRequest
    <3>3. CASE \E d \in Calls : post[d].pc = "stop" /\ post[d].stops = s
      BY <3>1, <3>3 DEF OneRequest, InFlight
    <3> QED
      BY <3>2, <3>3
  <2>4. Stopping(c)
    BY <2>1, <2>2, <2>3 DEF Stopping
  <2> QED
    BY <1>5, <2>1, <2>4 DEF Stopping
<1> QED
  BY <1>4, <1>6, <1>7

(* A POST arrives: the active call is stopped, or there is none to stop.   *)
LEMMA PostKeeps ==
  ASSUME RouteInv, RouteTypeOK', NEW c \in Calls, PostArrives(c)
  PROVE  RouteInv'
<1> USE CallsTyped DEF RouteInv, RouteFits
<1>1. /\ post[c].pc = "none" /\ overlapped' = (overlapped \/ Busy) /\ UNCHANGED <<session, deleting>>
      /\ activeCall \in Calls \cup {NoCall} /\ closed \subseteq Calls
  BY DEF PostArrives, RouteTypeOK
<1>2. post[c].stops = NoCall /\ \A d \in Calls : post[d].pc # "stop" => post[d].stops = NoCall
  BY <1>1 DEF SessionsFit
<1>3. ASSUME ~overlapped'
      PROVE  /\ ~overlapped /\ deleting = NoCall /\ \A d \in Calls : ~InFlight(d) /\ post[d].stops = NoCall
             /\ \A d \in closed : session[d] # "open"
             /\ \A d \in Calls : post[d].pc = "ok" /\ session[d] = "open" => activeCall = d
  <2>1. ~overlapped /\ deleting = NoCall /\ \A d \in Calls : ~InFlight(d)
    BY <1>1, <1>3 DEF Busy
  <2>2. \A d \in Calls : post[d].stops = NoCall
    BY <1>2, <2>1 DEF InFlight
  <2>3. \A d \in Calls : ~Stopping(d)
    BY <2>1, <2>2 DEF Stopping
  <2> QED
    BY <1>1, <2>1, <2>2, <2>3 DEF ClosedFits, OpenCallsAreReplaced, Stopping
<1>4. CASE Stoppable
  <2>1. /\ activeCall \in Calls /\ activeCall' = activeCall /\ closed' = closed \cup {activeCall}
        /\ post'[c].pc = "stop" /\ post'[c].stops = activeCall
        /\ \A d \in Calls \ {c} : post'[d] = post[d]
    BY <1>1, <1>4 DEF PostArrives, Stoppable, RouteTypeOK
  <2>2. SessionsFit'
    BY <1>1, <2>1 DEF SessionsFit
  <2>3. ASSUME ~overlapped' PROVE OneRequest'
    BY <1>1, <1>3, <2>1, <2>3 DEF OneRequest, InFlight
  <2>4. ASSUME ~overlapped' PROVE ClosedFits'
    BY <1>1, <1>3, <2>1, <2>4 DEF ClosedFits, Stopping
  <2>5. OpenCallsAreReplaced'
    BY <1>1, <1>3, <2>1 DEF OpenCallsAreReplaced
  <2> QED
    BY <2>2, <2>3, <2>4, <2>5
<1>5. CASE ~Stoppable
  <2>1. activeCall' = NoCall /\ closed' = closed /\ Goes(c, "client")
    BY <1>5 DEF PostArrives
  <2>2. /\ post'[c].pc = "client" /\ post'[c].stops = NoCall
        /\ \A d \in Calls \ {c} : post'[d] = post[d]
    BY <2>1, GoesTyped
  <2>3. SessionsFit'
    BY <1>1, <2>1, <2>2 DEF SessionsFit
  <2>4. ASSUME ~overlapped' PROVE OneRequest'
    BY <1>1, <1>3, <2>1, <2>2, <2>4 DEF OneRequest, InFlight
  <2>5. ASSUME ~overlapped' PROVE ClosedFits'
    BY <1>1, <1>3, <2>1, <2>5 DEF ClosedFits
  <2>6. OpenCallsAreReplaced'
    BY <1>1, <1>3, <1>5, <2>1, <2>2 DEF OpenCallsAreReplaced, Stoppable
  <2> QED
    BY <2>3, <2>4, <2>5, <2>6
<1> QED
  BY <1>4, <1>5

(* The same for a DELETE.                                                  *)
LEMMA DeleteKeeps ==
  ASSUME RouteInv, RouteTypeOK', DeleteArrives
  PROVE  RouteInv'
<1> USE CallsTyped DEF RouteInv, RouteFits
<1>1. /\ activeCall \in Calls /\ overlapped' = (overlapped \/ Busy) /\ UNCHANGED <<post, session>>
      /\ closed' = closed \cup {activeCall} /\ closed \subseteq Calls
      /\ IF Stoppable THEN deleting' = activeCall /\ activeCall' = activeCall
                      ELSE activeCall' = NoCall /\ deleting' = deleting
  BY DEF DeleteArrives, RouteTypeOK
<1>2. SessionsFit'
  BY <1>1 DEF SessionsFit
<1>3. ASSUME ~overlapped'
      PROVE  /\ ~overlapped /\ deleting = NoCall /\ \A d \in Calls : ~InFlight(d) /\ post[d].stops = NoCall
             /\ \A d \in closed : session[d] # "open"
             /\ \A d \in Calls : post[d].pc = "ok" /\ session[d] = "open" => activeCall = d
  <2>1. ~overlapped /\ deleting = NoCall /\ \A d \in Calls : ~InFlight(d)
    BY <1>1, <1>3 DEF Busy
  <2>2. \A d \in Calls : post[d].stops = NoCall
    BY <2>1 DEF InFlight, SessionsFit
  <2>3. \A d \in Calls : ~Stopping(d)
    BY <2>1, <2>2 DEF Stopping
  <2> QED
    BY <1>1, <2>1, <2>2, <2>3 DEF ClosedFits, OpenCallsAreReplaced, Stopping
<1>4. ASSUME ~overlapped' PROVE OneRequest'
  BY <1>1, <1>3, <1>4 DEF OneRequest, InFlight
<1>5. ASSUME ~overlapped' PROVE ClosedFits'
  BY <1>1, <1>3, <1>5 DEF ClosedFits, Stopping, Stoppable
<1>6. OpenCallsAreReplaced'
  BY <1>1, <1>3 DEF OpenCallsAreReplaced, Stoppable
<1> QED
  BY <1>2, <1>4, <1>5, <1>6

(* Every step of the route keeps its types and the invariant.              *)
LEMMA RouteTyped ==
  ASSUME RouteInv, RouteStep \/ \E c \in Calls : PostArrives(c)
  PROVE  RouteTypeOK'
<1> USE CallsTyped
<1>1. RouteTypeOK
  BY DEF RouteInv
<1>2. ASSUME NEW c \in Calls, PostArrives(c)
      PROVE  RouteTypeOK'
  <2>1. CASE Stoppable
    <3>1. /\ activeCall \in Calls /\ UNCHANGED <<activeCall, client, answer, session, deleting>>
          /\ closed' = closed \cup {activeCall} /\ subscribed' = subscribed \ {activeCall}
          /\ post' = [post EXCEPT ![c] = [pc |-> "stop", stops |-> activeCall]]
          /\ overlapped' = (overlapped \/ Busy)
      BY <1>1, <1>2, <2>1 DEF RouteTypeOK, PostArrives, Stoppable
    <3>2. overlapped' \in BOOLEAN
      BY <3>1
    <3> QED
      BY <1>1, <3>1, <3>2 DEF RouteTypeOK
  <2>2. CASE ~Stoppable
    BY <1>1, <1>2, <2>2, GoesTyped DEF RouteTypeOK, PostArrives, AsksClient, Busy
  <2> QED
    BY <2>1, <2>2
<1>3. ASSUME NEW c \in Calls, Handles(c)
      PROVE  RouteTypeOK'
  <2>1. CASE StopAnswered(c)
    BY <1>1, <2>1, GoesTyped DEF RouteTypeOK, StopAnswered, Stopped, AsksClient
  <2>2. CASE GetsClient(c)
    BY <1>1, <2>2, GoesTyped DEF RouteTypeOK, GetsClient
  <2>3. CASE ThreadStarted(c)
    BY <1>1, <2>3, GoesTyped DEF RouteTypeOK, ThreadStarted
  <2>4. CASE ThreadFails(c)
    BY <1>1, <2>4, GoesTyped DEF RouteTypeOK, ThreadFails
  <2>5. CASE StartAnswered(c)
    BY <1>1, <2>5, GoesTyped DEF RouteTypeOK, StartAnswered
  <2>6. CASE StartRefused(c)
    BY <1>1, <2>6, GoesTyped DEF RouteTypeOK, StartRefused
  <2>7. CASE Answered(c)
    BY <1>1, <2>7, GoesTyped DEF RouteTypeOK, Answered
  <2>8. CASE AnswerFailed(c)
    BY <1>1, <2>8, GoesTyped DEF RouteTypeOK, AnswerFailed
  <2> QED
    BY <1>3, <2>1, <2>2, <2>3, <2>4, <2>5, <2>6, <2>7, <2>8 DEF Handles
<1>4. ASSUME NEW c \in Calls, TimerFires(c) \/ Notified(c) \/ SessionCloses(c) \/ SessionOpens(c)
      PROVE  RouteTypeOK'
  BY <1>1, <1>4 DEF RouteTypeOK, TimerFires, Notified, SessionCloses, SessionOpens, Settle
<1>5. CASE DeleteArrives \/ DeleteDone
  BY <1>1, <1>5 DEF RouteTypeOK, DeleteArrives, DeleteDone, Stopped, Busy
<1>6. CASE ClientStarts \/ ClientDies
  BY <1>1, <1>6 DEF RouteTypeOK, ClientStarts, ClientDies
<1>7. ASSUME NEW c \in Calls, RejectionUnheard(c)
      PROVE  RouteTypeOK'
  BY <1>1, <1>7, CallsTyped DEF RouteTypeOK, RejectionUnheard
<1> QED
  BY <1>2, <1>3, <1>4, <1>5, <1>6, <1>7 DEF RouteStep

(* A route that begins anew has no request in flight and nothing to close. *)
LEMMA BeginsAnew ==
  ASSUME RouteInv, RouteTypeOK', NEW c \in Calls, RejectionUnheard(c)
  PROVE  RouteInv'
<1> USE CallsTyped DEF RouteInv, RouteFits
<1>1. /\ RouteTypeOK /\ activeCall' = NoCall /\ deleting' = NoCall /\ closed' = {} /\ UNCHANGED overlapped
      /\ \A d \in Calls : /\ post'[d] = IF InFlight(d) THEN [pc |-> "failed", stops |-> NoCall] ELSE post[d]
                          /\ session'[d] = IF session[d] = "open" THEN "over" ELSE session[d]
  BY DEF RejectionUnheard
<1>2. \A d \in Calls : ~InFlight(d)' /\ post'[d].stops = NoCall /\ session'[d] # "open" /\ post'[d].pc # "stop"
  <2> SUFFICES ASSUME NEW d \in Calls PROVE ~InFlight(d)' /\ post'[d].stops = NoCall /\ session'[d] # "open" /\ post'[d].pc # "stop"
    OBVIOUS
  <2>1. CASE InFlight(d)
    <3>1. post'[d] = [pc |-> "failed", stops |-> NoCall]
      BY <1>1, <2>1
    <3>2. post'[d].pc = "failed" /\ post'[d].stops = NoCall
      BY <3>1
    <3> QED
      BY <1>1, <3>2 DEF InFlight
  <2>2. CASE ~InFlight(d)
    BY <1>1, <2>2 DEF InFlight, SessionsFit
  <2> QED
    BY <2>1, <2>2
<1>3. \A d \in Calls : post'[d].pc \in {"answer", "ok"} => session'[d] # "none"
  BY <1>1, <1>2 DEF InFlight, SessionsFit
<1>4. SessionsFit'
  BY <1>1, <1>2, <1>3 DEF SessionsFit
<1>5. OneRequest' /\ ClosedFits' /\ OpenCallsAreReplaced'
  BY <1>1, <1>2 DEF OneRequest, ClosedFits, OpenCallsAreReplaced
<1> QED
  BY <1>1, <1>4, <1>5

LEMMA AnsweredKeeps ==
  ASSUME RouteInv, RouteTypeOK', NEW c \in Calls, Answered(c)
  PROVE  RouteInv'
<1> USE CallsTyped DEF RouteInv, RouteFits
<1>1. /\ post[c].pc = "answer" /\ activeCall' = c /\ session[c] # "none"
      /\ UNCHANGED <<closed, session, deleting, overlapped>>
      /\ post'[c].pc = "ok" /\ post'[c].stops = NoCall /\ post[c].stops = NoCall
      /\ \A d \in Calls \ {c} : post'[d] = post[d]
  BY GoesTyped DEF Answered, SessionsFit
<1>2. SessionsFit'
  BY <1>1 DEF SessionsFit
<1>3. ASSUME ~overlapped
      PROVE  deleting = NoCall /\ activeCall = NoCall /\ \A d \in Calls : ~InFlight(d)' /\ post[d].stops = NoCall
  <2>1. InFlight(c) /\ OneRequest
    BY <1>1, <1>3 DEF InFlight
  <2>2. \A d \in Calls \ {c} : ~InFlight(d)
    BY <2>1 DEF OneRequest
  <2> QED
    BY <1>1, <2>1, <2>2 DEF OneRequest, InFlight, SessionsFit
<1>4. ASSUME ~overlapped PROVE OneRequest' /\ ClosedFits'
  <2>1. OneRequest'
    BY <1>1, <1>3, <1>4 DEF OneRequest, InFlight
  <2>2. ClosedFits'
    BY <1>1, <1>3, <1>4 DEF ClosedFits, Stopping, RouteTypeOK
  <2> QED
    BY <2>1, <2>2
<1>5. OpenCallsAreReplaced'
  BY <1>1, <1>3 DEF OpenCallsAreReplaced
<1> QED
  BY <1>1, <1>2, <1>4, <1>5

LEMMA RouteKeeps ==
  ASSUME RouteInv, RouteStep \/ \E c \in Calls : PostArrives(c)
  PROVE  RouteInv'
<1> USE CallsTyped
<1>1. RouteTypeOK /\ RouteTypeOK'
  BY RouteTyped DEF RouteInv
<1>2. ASSUME NEW c \in Calls, Handles(c)
      PROVE  RouteInv'
  <2>1. CASE StopAnswered(c)
    <3>1. post[c].pc = "stop" /\ Stopped(post[c].stops) /\ activeCall' = NoCall /\ Goes(c, "client")
          /\ UNCHANGED <<closed, deleting, overlapped>>
      BY <2>1 DEF StopAnswered
    <3>2. post'[c].pc = "client" /\ post'[c].stops = NoCall /\ \A d \in Calls \ {c} : post'[d] = post[d]
      BY <1>1, <3>1, GoesTyped
    <3>3. post[c].stops \in Calls
      BY <3>1 DEF RouteInv, RouteFits, RouteTypeOK, SessionsFit
    <3> QED
      BY <1>1, <3>1, <3>2, <3>3, StopKeeps
  <2>2. CASE Answered(c)
    BY <1>1, <2>2, AnsweredKeeps
  <2>3. CASE ~(StopAnswered(c) \/ Answered(c))
    <3>1. PICK pc \in {"client", "thread", "start", "answer", "failed"} :
            /\ Goes(c, pc) /\ post[c].pc \in {"client", "thread", "start", "answer"}
            /\ pc = "answer" => session[c] # "none"
            /\ UNCHANGED <<closed, session, activeCall, deleting, overlapped>>
      BY <1>2, <2>3 DEF Handles, GetsClient, ThreadStarted, ThreadFails, StartAnswered, StartRefused, AnswerFailed
    <3>2. post'[c].pc = pc /\ post'[c].stops = NoCall /\ \A d \in Calls \ {c} : post'[d] = post[d]
      BY <1>1, <3>1, GoesTyped
    <3> QED
      BY <1>1, <3>1, <3>2, MoveKeeps
  <2> QED
    BY <2>1, <2>2, <2>3
<1>3. ASSUME NEW c \in Calls, TimerFires(c) \/ Notified(c) \/ ClientStarts \/ ClientDies
      PROVE  RouteInv'
  <2>1. UNCHANGED <<post, activeCall, deleting, overlapped, closed>>
    BY <1>3 DEF TimerFires, Notified, ClientStarts, ClientDies
  <2>2. session' = session \/ session' = [d \in Calls |-> IF session[d] = "open" THEN "over" ELSE session[d]]
    BY <1>3 DEF TimerFires, Notified, ClientStarts, ClientDies
  <2>3. \A d \in Calls : session'[d] = session[d] \/ (session[d] = "open" /\ session'[d] = "over")
    BY <2>2
  <2> QED
    BY <1>1, <2>1, <2>3, CodexKeeps
<1>4. ASSUME NEW c \in Calls, SessionCloses(c)
      PROVE  RouteInv'
  <2>1. /\ UNCHANGED <<post, activeCall, deleting, overlapped>>
        /\ session[c] = "open" /\ session'[c] = "over" /\ \A d \in Calls \ {c} : session'[d] = session[d]
        /\ \A d \in closed' : d \in closed \/ d = c
    BY <1>1, <1>4 DEF SessionCloses, RouteTypeOK
  <2> QED
    BY <1>1, <2>1, CodexKeeps
<1>5. ASSUME NEW c \in Calls, SessionOpens(c)
      PROVE  RouteInv'
  <2>1. /\ UNCHANGED <<post, activeCall, deleting, overlapped, closed>>
        /\ session[c] = "none" /\ session'[c] = "open" /\ post[c].pc = "start"
        /\ \A d \in Calls \ {c} : session'[d] = session[d]
    BY <1>1, <1>5 DEF SessionOpens, RouteTypeOK
  <2> QED
    BY <1>1, <2>1, CodexKeeps
<1>6. CASE DeleteDone
  <2>1. deleting \in Calls /\ Stopped(deleting) /\ activeCall' = NoCall /\ deleting' = NoCall
        /\ UNCHANGED <<post, closed, overlapped>>
    BY <1>1, <1>6 DEF DeleteDone, RouteTypeOK
  <2> QED
    BY <1>1, <2>1, StopKeeps
<1>7. \E c \in Calls : TRUE
  BY CodexCallAssumption DEF Calls
<1>8. ASSUME NEW c \in Calls, RejectionUnheard(c)
      PROVE  RouteInv'
  BY <1>1, <1>8, BeginsAnew
<1> QED
  BY <1>1, <1>2, <1>3, <1>4, <1>5, <1>6, <1>7, <1>8, PostKeeps, DeleteKeeps DEF RouteStep

LEMMA RouteStays == RouteInv /\ UNCHANGED route => RouteInv'
<1> SUFFICES ASSUME RouteInv, UNCHANGED route PROVE RouteInv'
  OBVIOUS
<1>1. UNCHANGED <<post, answer, subscribed, closed, session, activeCall, deleting, client, overlapped>>
  BY DEF route
<1>2. RouteTypeOK'
  BY <1>1 DEF RouteInv, RouteTypeOK
<1>3. SessionsFit' /\ (~overlapped => OneRequest' /\ ClosedFits')
  BY <1>1 DEF RouteInv, RouteFits, SessionsFit, OneRequest, ClosedFits, InFlight, Stopping
<1>4. OpenCallsAreReplaced'
  BY <1>1 DEF RouteInv, RouteFits, OpenCallsAreReplaced
<1> QED
  BY <1>1, <1>2, <1>3, <1>4 DEF RouteInv, RouteFits

LEMMA RouteStarts == RouteInit => RouteInv
<1> SUFFICES ASSUME RouteInit PROVE RouteInv
  OBVIOUS
<1> USE CallsTyped DEF RouteInit
<1>1. RouteTypeOK
  BY DEF RouteTypeOK
<1>2. SessionsFit /\ OpenCallsAreReplaced
  BY DEF SessionsFit, OpenCallsAreReplaced
<1>3. OneRequest /\ ClosedFits
  BY DEF OneRequest, ClosedFits, InFlight
<1> QED
  BY <1>1, <1>2, <1>3 DEF RouteInv, RouteFits

(***************************************************************************)
(* The page: what its steps leave to the invariant.                        *)
(***************************************************************************)

PageInv == ItemsFit /\ TurnsFit /\ PageFits

CallType == [pc: {"none", "mic", "gather", "negotiate", "apply", "up", "failed"},
             via: Routes, mic: BOOLEAN, connection: BOOLEAN,
             channel: {"none", "connecting", "open", "closed"}, started: BOOLEAN]
Messages == UNION {[1..n -> Message] : n \in 0..2}
ItemType == [call: Calls \cup {NoCall}, pc: {"none", "running", "answered", "unsent"},
             timer: BOOLEAN, sent: Messages]
TurnType == [call: Calls \cup {NoCall}, pc: {"none", "open", "done"}]
PageTypeOK ==
  /\ call \in [Calls -> CallType]
  /\ callRef \in Calls \cup {NoCall}
  /\ phase \in {"idle", "connecting", "listening", "delegating", "speaking"}
  /\ openTurns \subseteq Turns
  /\ mounted \in BOOLEAN
  /\ item \in [Items -> ItemType]
  /\ turn \in [Turns -> TurnType]
  /\ cut \in BOOLEAN

LEMMA Typed == TypeOK <=> RouteTypeOK /\ PageTypeOK
BY DEF TypeOK, PageTypeOK, CallType, Messages, ItemType, TurnType

LEMMA AppendsSecond == ASSUME NEW S, NEW a \in S, NEW b \in S PROVE Append(<<a>>, b) = <<a, b>>
<1>1. <<a>> \in Seq(S) /\ <<a, b>> \in Seq(S) /\ Len(<<a>>) = 1 /\ Len(<<a, b>>) = 2
  OBVIOUS
<1>2. Append(<<a>>, b) \in Seq(S) /\ Len(Append(<<a>>, b)) = 2
  BY <1>1
<1>3. Append(<<a>>, b)[1] = a /\ Append(<<a>>, b)[2] = b
  BY <1>1
<1>4. \A i \in 1..2 : Append(<<a>>, b)[i] = <<a, b>>[i]
  BY <1>3
<1> QED
  BY <1>1, <1>2, <1>4, SeqEqual

LEMMA SentTyped ==
  /\ <<>> \in Messages /\ <<"commentary">> \in Messages /\ <<"speakable">> \in Messages
  /\ <<"commentary", "speakable">> \in Messages
  /\ Append(<<>>, "commentary") = <<"commentary">> /\ Append(<<>>, "speakable") = <<"speakable">>
  /\ Append(<<"commentary">>, "speakable") = <<"commentary", "speakable">>
<1>1. <<>> \in [1..0 -> Message]
  BY DEF Message
<1>2. <<"commentary">> \in [1..1 -> Message] /\ <<"speakable">> \in [1..1 -> Message]
  BY DEF Message
<1>3. <<"commentary", "speakable">> \in [1..2 -> Message]
  BY DEF Message
<1>4. 0 \in 0..2 /\ 1 \in 0..2 /\ 2 \in 0..2
  OBVIOUS
<1>5. <<>> \in Messages /\ <<"commentary">> \in Messages /\ <<"speakable">> \in Messages
      /\ <<"commentary", "speakable">> \in Messages
  BY <1>1, <1>2, <1>3, <1>4 DEF Messages
<1>6. Append(<<>>, "commentary") = <<"commentary">> /\ Append(<<>>, "speakable") = <<"speakable">>
  OBVIOUS
<1>7. Append(<<"commentary">>, "speakable") = <<"commentary", "speakable">>
  <2>1. "commentary" \in Message /\ "speakable" \in Message
    BY DEF Message
  <2> QED
    BY <2>1, AppendsSecond
<1> QED
  BY <1>5, <1>6, <1>7

(* The calls change: one is taken up, goes on, is hung up or fails.  The   *)
(* delegations and the turns stay.                                         *)
LEMMA CallsKeep ==
  ASSUME PageInv, PageTypeOK, PageTypeOK',
         UNCHANGED <<item, turn>>, ChannelsFit', cut => cut',
         ~cut' => OneCall' /\ (phase' = "speaking" <=> openTurns' # {})
                           /\ (phase' = "delegating" => phase = "delegating" /\ callRef' = callRef)
  PROVE  PageInv'
<1> USE DEF PageInv
<1>1. ItemsFit' /\ TurnsFit'
  BY DEF ItemsFit, ItemFits, TurnsFit, PageTypeOK
<1>2. \A c : Pending(c)' = Pending(c)
  BY DEF Pending
<1>3. PhaseTellsTruth'
  BY <1>2 DEF PageFits, PhaseTellsTruth
<1> QED
  BY <1>1, <1>3 DEF PageFits

(* The calls stay as they are: a turn or a delegation comes or ends.       *)
LEMMA TalkKeeps ==
  ASSUME PageInv, PageTypeOK, UNCHANGED <<call, callRef, cut>>, ItemsFit', TurnsFit',
         ~cut => /\ (\E c \in Calls : Connecting(c)) => phase' = phase
                 /\ phase' = "idle" => phase = "idle"
                 /\ openTurns' # {} => openTurns # {} \/ (callRef # NoCall /\ call[callRef].started)
                 /\ phase' = "speaking" <=> openTurns' # {}
                 /\ phase' = "delegating" => Pending(callRef)' # {}
  PROVE  PageInv'
<1>1. \A c : (On(c)' <=> On(c)) /\ (Connecting(c)' <=> Connecting(c))
  BY DEF On, Connecting
<1>2. ChannelsFit'
  BY DEF PageInv, PageFits, ChannelsFit
<1>3. ASSUME ~cut PROVE OneCall'
  BY <1>1, <1>3 DEF PageInv, PageFits, OneCall
<1>4. PhaseTellsTruth'
  BY DEF PhaseTellsTruth, Pending
<1> QED
  BY <1>2, <1>3, <1>4 DEF PageInv, PageFits

(* What the invariant says when no call was ended while it was connecting. *)
LEMMA WhenUncut ==
  ASSUME PageInv, PageTypeOK, ~cut
  PROVE  /\ \A c, d \in Calls : Connecting(c) /\ Connecting(d) => c = d
         /\ \A c \in Calls : Connecting(c) => phase = "connecting" /\ callRef = NoCall
         /\ \A c \in Calls : On(c) => c = callRef \/ Connecting(c)
         /\ \A c \in Calls : Sends(c) => c = callRef /\ \A d \in Calls : ~Connecting(d)
         /\ phase = "idle" => callRef = NoCall /\ \A c \in Calls : ~Connecting(c)
         /\ openTurns # {} => callRef # NoCall /\ call[callRef].started /\ phase = "speaking"
         /\ phase = "speaking" => openTurns # {}
<1>1. OneCall /\ ChannelsFit /\ (phase = "speaking" <=> openTurns # {})
  BY DEF PageInv, PageFits, PhaseTellsTruth
<1>2. \A c \in Calls : Sends(c) => c = callRef /\ \A d \in Calls : ~Connecting(d)
  BY <1>1, CallsTyped DEF OneCall, ChannelsFit, Sends, On, Connecting
<1> QED
  BY <1>1, <1>2 DEF OneCall

(***************************************************************************)
(* The actions of the page.                                                *)
(***************************************************************************)

(* The call a page refers to is hung up.                                   *)
LEMMA HungUpTyped ==
  ASSUME NEW d \in CallType
  PROVE  /\ HungUp(d) \in CallType /\ HungUp(d).pc = d.pc /\ ~HungUp(d).mic /\ ~HungUp(d).connection
         /\ HungUp(d).channel \in {"none", "closed"}
BY DEF HungUp, CallType

LEMMA StartKeeps ==
  ASSUME PageInv, PageTypeOK, NEW c \in Calls, NEW via \in Routes, Start(c, via)
  PROVE  PageInv' /\ PageTypeOK'
<1>1. /\ phase = "idle" /\ call[c].pc = "none" /\ phase' = "connecting"
      /\ call' = [call EXCEPT ![c].pc = "mic", ![c].via = via, ![c].connection = TRUE]
      /\ UNCHANGED <<callRef, openTurns, mounted, item, turn, cut>>
  BY DEF Start
<1>2. PageTypeOK'
  <2>1. call \in [Calls -> CallType] /\ call[c] \in CallType
    BY DEF PageTypeOK
  <2>2. [call[c] EXCEPT !.pc = "mic", !.via = via, !.connection = TRUE] \in CallType
    BY <2>1 DEF CallType
  <2>3. call' = [call EXCEPT ![c] = [call[c] EXCEPT !.pc = "mic", !.via = via, !.connection = TRUE]]
    BY <1>1, <2>1 DEF CallType
  <2>4. call' \in [Calls -> CallType]
    BY <2>1, <2>2, <2>3
  <2> QED
    BY <1>1, <2>4 DEF PageTypeOK
<1>3. /\ call'[c].pc = "mic" /\ call'[c].channel = call[c].channel
      /\ \A d \in Calls \ {c} : call'[d] = call[d]
  BY <1>1 DEF PageTypeOK, CallType
<1>4. ChannelsFit'
  BY <1>1, <1>3 DEF PageInv, PageFits, ChannelsFit
<1>5. ASSUME ~cut PROVE OneCall' /\ openTurns = {}
  <2>1. \A d \in Calls : (Connecting(d)' <=> d = c) /\ (On(d)' => d = c)
    BY <1>1, <1>3, <1>5, WhenUncut, CallsTyped DEF Connecting, On
  <2>2. openTurns = {} /\ callRef = NoCall
    BY <1>1, <1>5, WhenUncut
  <2> QED
    BY <1>1, <2>1, <2>2 DEF OneCall
<1> QED
  BY <1>1, <1>2, <1>4, <1>5, CallsKeep

LEMMA EndsKeeps ==
  ASSUME PageInv, PageTypeOK, Ends, mounted' \in BOOLEAN
  PROVE  PageInv' /\ PageTypeOK'
<1>1. /\ call' = [c \in Calls |-> IF c = callRef THEN HungUp(call[c]) ELSE call[c]]
      /\ callRef' = NoCall /\ openTurns' = {} /\ phase' = "idle"
      /\ cut' = (cut \/ \E c \in Calls : Connecting(c)) /\ UNCHANGED <<item, turn>>
  BY DEF Ends, PageHangsUp
<1>2. \A c \in Calls : /\ call'[c] \in CallType /\ call'[c].pc = call[c].pc
                       /\ c = callRef => ~On(c)' /\ call'[c].channel # "open"
                       /\ c # callRef => call'[c] = call[c]
  BY <1>1, HungUpTyped DEF PageTypeOK, On
<1>3. PageTypeOK'
  BY <1>1, <1>2 DEF PageTypeOK
<1>4. ChannelsFit'
  BY <1>2 DEF PageInv, PageFits, ChannelsFit
<1>5. ASSUME ~cut' PROVE OneCall'
  <2>1. ~cut /\ \A c \in Calls : ~Connecting(c) /\ ~Connecting(c)'
    BY <1>1, <1>2, <1>5 DEF Connecting
  <2>2. \A c \in Calls : ~On(c)'
    BY <1>2, <2>1, WhenUncut DEF On
  <2> QED
    BY <1>1, <2>1, <2>2 DEF OneCall
<1> QED
  BY <1>1, <1>3, <1>4, <1>5, CallsKeep

(* A call that is connecting goes on to its next await.                    *)
LEMMA ConnectingKeeps ==
  ASSUME PageInv, PageTypeOK, NEW c \in Calls, Granted(c) \/ Gathered(c) \/ AnswerArrives(c)
  PROVE  PageInv' /\ PageTypeOK'
<1>1. /\ Connecting(c) /\ UNCHANGED <<callRef, phase, openTurns, mounted, item, turn, cut>>
  BY DEF Granted, Gathered, AnswerArrives, Connecting
<1>2. call' \in [Calls -> CallType]
  BY DEF Granted, Gathered, AnswerArrives, Advances, PageTypeOK, CallType
<1>3. /\ call'[c].pc \in {"gather", "negotiate", "apply"}
      /\ call'[c].channel = call[c].channel \/ call'[c].channel = "connecting"
      /\ \A d \in Calls \ {c} : call'[d] = call[d]
  BY DEF Granted, Gathered, AnswerArrives, Advances, PageTypeOK, CallType
<1>4. PageTypeOK'
  BY <1>1, <1>2 DEF PageTypeOK
<1>5. ChannelsFit'
  BY <1>1, <1>3 DEF PageInv, PageFits, ChannelsFit, Connecting
<1>6. ASSUME ~cut PROVE OneCall'
  <2>1. \A d \in Calls : (Connecting(d)' <=> Connecting(d)) /\ (On(d)' => On(d) \/ d = c)
    BY <1>1, <1>3 DEF Connecting, On
  <2>2. callRef = NoCall /\ openTurns = {}
    BY <1>1, <1>6, WhenUncut
  <2> QED
    BY <1>1, <1>6, <2>1, <2>2, WhenUncut DEF OneCall
<1> QED
  BY <1>1, <1>4, <1>5, <1>6, WhenUncut, CallsKeep

LEMMA ConnectedKeeps ==
  ASSUME PageInv, PageTypeOK, NEW c \in Calls, Connected(c)
  PROVE  PageInv' /\ PageTypeOK'
<1>1. /\ Connecting(c) /\ call[c].pc = "apply" /\ callRef' = c
      /\ UNCHANGED <<phase, openTurns, mounted, item, turn, cut>>
  BY DEF Connected, Connecting
<1>2. /\ call' \in [Calls -> CallType]
      /\ call'[c].pc = "up" /\ \A d \in Calls \ {c} : call'[d] = call[d]
  BY DEF Connected, Advances, PageTypeOK, CallType
<1>3. PageTypeOK'
  BY <1>1, <1>2 DEF PageTypeOK
<1>4. ChannelsFit'
  BY <1>1, <1>2 DEF PageInv, PageFits, ChannelsFit
<1>5. ASSUME ~cut PROVE OneCall' /\ openTurns = {} /\ phase = "connecting"
  <2>1. callRef = NoCall /\ openTurns = {} /\ phase = "connecting"
    BY <1>1, <1>5, WhenUncut
  <2>2. \A d \in Calls : ~Connecting(d)'
    BY <1>1, <1>2, <1>5, WhenUncut DEF Connecting
  <2>3. \A d \in Calls : On(d)' => d = c
    <3>1. \A d \in Calls \ {c} : On(d)' <=> On(d)
      BY <1>2 DEF On
    <3> QED
      BY <1>1, <1>5, <2>1, <3>1, WhenUncut, CallsTyped
  <2> QED
    BY <1>1, <2>1, <2>2, <2>3 DEF OneCall
<1> QED
  BY <1>1, <1>3, <1>4, <1>5, CallsKeep

LEMMA ConnectFailsKeeps ==
  ASSUME PageInv, PageTypeOK, NEW c \in Calls, ConnectFails(c)
  PROVE  PageInv' /\ PageTypeOK'
<1>1. /\ Connecting(c) /\ callRef' = NoCall /\ openTurns' = {} /\ phase' = "idle"
      /\ UNCHANGED <<mounted, item, turn, cut>>
      /\ call' = [d \in Calls |-> IF d = c THEN [HungUp(call[d]) EXCEPT !.pc = "failed"]
                                  ELSE IF d = callRef THEN HungUp(call[d]) ELSE call[d]]
  BY DEF ConnectFails, PageHangsUp
<1>2. /\ call'[c] \in CallType /\ call'[c].pc = "failed" /\ ~On(c)'
  <2>1. PICK h : h = HungUp(call[c])
    OBVIOUS
  <2>2. h \in CallType /\ ~h.mic /\ ~h.connection /\ h.channel \in {"none", "closed"}
    BY <2>1, HungUpTyped DEF PageTypeOK
  <2>3. call'[c] = [h EXCEPT !.pc = "failed"]
    BY <1>1, <2>1
  <2> QED
    BY <2>2, <2>3 DEF CallType, On
<1>3. \A d \in Calls \ {c} : /\ call'[d] \in CallType /\ call'[d].pc = call[d].pc
                             /\ d = callRef => call'[d].channel # "open"
                             /\ d # callRef => call'[d] = call[d]
  BY <1>1, HungUpTyped DEF PageTypeOK
<1>4. PageTypeOK'
  BY <1>1, <1>2, <1>3 DEF PageTypeOK
<1>5. ChannelsFit'
  BY <1>2, <1>3 DEF PageInv, PageFits, ChannelsFit
<1>6. ASSUME ~cut PROVE OneCall'
  <2>1. callRef = NoCall /\ \A d \in Calls \ {c} : ~Connecting(d)
    BY <1>1, <1>6, WhenUncut
  <2>2. \A d \in Calls \ {c} : ~On(d) /\ call'[d] = call[d]
    BY <1>3, <1>6, <2>1, WhenUncut, CallsTyped
  <2>3. \A d \in Calls : ~Connecting(d)' /\ ~On(d)'
    BY <1>2, <2>1, <2>2 DEF Connecting, On
  <2> QED
    BY <1>1, <2>3 DEF OneCall
<1> QED
  BY <1>1, <1>4, <1>5, <1>6, CallsKeep

(* A channel opens or drops, and the session starts.                       *)
LEMMA ChannelKeeps ==
  ASSUME PageInv, PageTypeOK, NEW c \in Calls, ChannelOpens(c) \/ ChannelDrops(c) \/ SessionStarted(c)
  PROVE  PageInv' /\ PageTypeOK'
<1>1. /\ UNCHANGED <<callRef, openTurns, mounted, item, turn, cut>>
      /\ phase' = phase \/ (phase' = "listening" /\ Sends(c) /\ ~call[c].started)
      /\ phase' \in {"idle", "connecting", "listening", "delegating", "speaking"}
  BY DEF ChannelOpens, ChannelDrops, SessionStarted, PageTypeOK
<1>2. /\ call' \in [Calls -> CallType]
      /\ call'[c].pc = call[c].pc
      /\ call'[c].channel = "open" => call[c].channel = "open" \/ call[c].pc = "up"
      /\ On(c)' => On(c)
      /\ call[c].started => call'[c].started
      /\ \A d \in Calls \ {c} : call'[d] = call[d]
  <2>1. call \in [Calls -> CallType]
    BY DEF PageTypeOK
  <2>2. CASE ChannelOpens(c)
    BY <2>1, <2>2 DEF ChannelOpens, CallType, On
  <2>3. CASE ChannelDrops(c)
    BY <2>1, <2>3 DEF ChannelDrops, CallType, On
  <2>4. CASE SessionStarted(c)
    BY <2>1, <2>4 DEF SessionStarted, CallType, On
  <2> QED
    BY <2>2, <2>3, <2>4
<1>3. PageTypeOK'
  BY <1>1, <1>2 DEF PageTypeOK
<1>4. ChannelsFit'
  BY <1>1, <1>2 DEF PageInv, PageFits, ChannelsFit
<1>5. ASSUME ~cut PROVE OneCall' /\ (phase' = "listening" /\ phase' # phase => openTurns = {})
  <2>1. \A d \in Calls : (Connecting(d)' <=> Connecting(d)) /\ (On(d)' => On(d))
    BY <1>2 DEF Connecting, On
  <2>2. phase' # phase => openTurns = {} /\ \A d \in Calls : ~Connecting(d)
    BY <1>1, <1>5, WhenUncut
  <2>3. openTurns # {} => callRef \in Calls /\ call'[callRef].started
    BY <1>2, <1>5, WhenUncut DEF PageTypeOK
  <2> QED
    BY <1>1, <1>5, <2>1, <2>2, <2>3, WhenUncut DEF OneCall
<1> QED
  BY <1>1, <1>3, <1>4, <1>5, WhenUncut, CallsKeep

(* Turns.                                                                  *)
LEMMA TurnsKeep ==
  ASSUME PageInv, PageTypeOK, NEW t \in Turns, TurnDone(t) \/ \E c \in Calls : TurnCreated(c, t)
  PROVE  PageInv' /\ PageTypeOK'
<1>1. UNCHANGED <<call, callRef, mounted, item, cut>>
  BY DEF TurnDone, TurnCreated
<1>2. ItemsFit'
  BY <1>1 DEF PageInv, ItemsFit, ItemFits
<1>3. \A x : Pending(x)' = Pending(x)
  BY <1>1 DEF Pending
<1>4. ASSUME NEW c \in Calls, TurnCreated(c, t)
      PROVE  PageInv' /\ PageTypeOK'
  <2>1. Sends(c) /\ call[c].started /\ openTurns' = openTurns \cup {t} /\ phase' = "speaking"
        /\ turn' = [turn EXCEPT ![t] = [call |-> c, pc |-> "open"]]
    BY <1>4 DEF TurnCreated, Receives
  <2>2. PageTypeOK'
    BY <1>1, <2>1 DEF PageTypeOK, TurnType
  <2>3. TurnsFit'
    BY <2>1 DEF PageInv, TurnsFit, PageTypeOK
  <2>4. ~cut => callRef = c /\ \A d \in Calls : ~Connecting(d)
    BY <2>1, WhenUncut
  <2> QED
    BY <1>1, <1>2, <2>1, <2>2, <2>3, <2>4, CallsTyped, TalkKeeps
<1>5. CASE TurnDone(t)
  <2>1. /\ turn[t].pc = "open" /\ Receives(turn[t].call) /\ turn' = [turn EXCEPT ![t].pc = "done"]
        /\ openTurns' = openTurns \ {t}
        /\ openTurns' # {} => phase' = phase
        /\ openTurns' = {} => phase' \in {"delegating", "listening"} /\ (phase' = "delegating" => Pending(callRef) # {})
    BY <1>5 DEF TurnDone
  <2>2. PageTypeOK'
    BY <1>1, <2>1 DEF PageTypeOK, TurnType
  <2>3. TurnsFit' /\ turn[t].call \in Calls
    BY <2>1 DEF PageInv, TurnsFit, PageTypeOK, TurnType
  <2>4. ~cut => \A d \in Calls : ~Connecting(d)
    BY <2>1, <2>3, WhenUncut DEF Receives
  <2>5. ~cut /\ openTurns' # {} => phase = "speaking"
    BY <2>1, WhenUncut
  <2> QED
    BY <1>1, <1>2, <1>3, <2>1, <2>2, <2>3, <2>4, <2>5, TalkKeeps
<1> QED
  BY <1>4, <1>5

(* Delegations: one comes, its timer fires, its work ends.                 *)
LEMMA ItemsKeep ==
  ASSUME PageInv, PageTypeOK, NEW i \in Items,
         Nudge(i) \/ WorkEnds(i) \/ \E c \in Calls : Delegated(c, i)
  PROVE  PageInv' /\ PageTypeOK'
<1>1. UNCHANGED <<call, callRef, openTurns, mounted, turn, cut>>
  BY DEF Nudge, WorkEnds, Delegated
<1>2. TurnsFit'
  BY <1>1 DEF PageInv, TurnsFit
<1>3. item \in [Items -> ItemType] /\ item[i] \in ItemType /\ ItemFits(i) /\ item[i].sent \in Messages
  BY DEF PageInv, PageTypeOK, ItemsFit, ItemType
<1>4. ASSUME NEW o \in ItemType, item' = [item EXCEPT ![i] = o],
             o.pc # "none", o.timer => o.sent = <<>> /\ o.pc = "running",
             o.pc # "answered" => o.sent \in {<<>>, <<"commentary">>},
             o.pc = "answered" => o.sent \in {<<"speakable">>, <<"commentary", "speakable">>},
             phase' \in {"idle", "connecting", "listening", "delegating", "speaking"}
      PROVE  ItemsFit' /\ PageTypeOK' /\ item'[i] = o
  <2>1. item'[i] = o /\ \A j \in Items \ {i} : item'[j] = item[j]
    BY <1>3, <1>4
  <2>2. ItemFits(i)'
    BY <1>4, <2>1 DEF ItemFits
  <2>3. \A j \in Items \ {i} : ItemFits(j)'
    BY <2>1 DEF PageInv, ItemsFit, ItemFits
  <2>4. PageTypeOK'
    BY <1>1, <1>3, <1>4 DEF PageTypeOK
  <2> QED
    BY <2>1, <2>2, <2>3, <2>4 DEF ItemsFit
<1>5. ASSUME NEW c \in Calls, Delegated(c, i)
      PROVE  PageInv' /\ PageTypeOK'
  <2>1. PICK o : o = [item[i] EXCEPT !.call = c, !.pc = "running", !.timer = TRUE]
    OBVIOUS
  <2>2. /\ Sends(c) /\ item[i].pc = "none"
        /\ item' = [item EXCEPT ![i].call = c, ![i].pc = "running", ![i].timer = TRUE]
        /\ phase' = IF phase = "speaking" THEN phase ELSE "delegating"
    BY <1>5 DEF Delegated, Receives
  <2>3. item[i].sent = <<>>
    BY <1>3, <2>2 DEF ItemFits
  <2>4. o \in ItemType /\ o.call = c /\ o.pc = "running" /\ o.timer = TRUE /\ o.sent = <<>>
    BY <1>3, <2>1, <2>3 DEF ItemType
  <2>5. item' = [item EXCEPT ![i] = o]
    BY <1>3, <2>1, <2>2 DEF ItemType
  <2>6. phase' \in {"idle", "connecting", "listening", "delegating", "speaking"}
    BY <2>2
  <2>7. ItemsFit' /\ PageTypeOK' /\ item'[i] = o
    BY <1>4, <2>4, <2>5, <2>6
  <2>8. ~cut => c = callRef /\ (\A d \in Calls : ~Connecting(d)) /\ (phase = "speaking" <=> openTurns # {})
    BY <2>2, WhenUncut
  <2>9. i \in Pending(c)'
    BY <2>4, <2>7 DEF Pending
  <2>10. ~cut => i \in Pending(callRef)'
    BY <1>1, <2>8, <2>9 DEF Pending
  <2> QED
    BY <1>1, <1>2, <2>2, <2>7, <2>8, <2>10, TalkKeeps
<1>6. CASE Nudge(i)
  <2>1. PICK o : o = [item[i] EXCEPT !.timer = FALSE, !.sent = Sent(i, "commentary")]
    OBVIOUS
  <2>2. /\ item[i].timer /\ phase' = phase
        /\ item' = [item EXCEPT ![i].timer = FALSE, ![i].sent = Sent(i, "commentary")]
    BY <1>6 DEF Nudge
  <2>3. item[i].sent = <<>> /\ item[i].pc = "running"
    BY <1>3, <2>2 DEF ItemFits
  <2>4. Sent(i, "commentary") \in {<<>>, <<"commentary">>} /\ Sent(i, "commentary") \in Messages
    BY <2>3, SentTyped DEF Sent
  <2>5. o \in ItemType /\ o.call = item[i].call /\ o.pc = "running" /\ o.timer = FALSE /\ o.sent = Sent(i, "commentary")
    BY <1>3, <2>1, <2>3, <2>4 DEF ItemType
  <2>6. item' = [item EXCEPT ![i] = o]
    BY <1>3, <2>1, <2>2 DEF ItemType
  <2>7. phase' \in {"idle", "connecting", "listening", "delegating", "speaking"}
    BY <2>2 DEF PageTypeOK
  <2>8. ItemsFit' /\ PageTypeOK' /\ item'[i] = o
    BY <1>4, <2>4, <2>5, <2>6, <2>7
  <2>9. \A j \in Items : item'[j].call = item[j].call /\ item'[j].pc = item[j].pc
    BY <1>3, <2>3, <2>5, <2>6
  <2>10. Pending(callRef)' = Pending(callRef)
    BY <1>1, <2>9 DEF Pending
  <2> QED
    BY <1>1, <1>2, <2>2, <2>8, <2>10, TalkKeeps DEF PageInv, PageFits, PhaseTellsTruth
<1>7. CASE WorkEnds(i)
  <2>1. PICK s : s = IF Sends(item[i].call) THEN "answered" ELSE "unsent"
    OBVIOUS
  <2>2. PICK o : o = [item[i] EXCEPT !.pc = s, !.timer = FALSE, !.sent = Sent(i, "speakable")]
    OBVIOUS
  <2>3. /\ item[i].pc = "running" /\ phase' = IF phase = "delegating" THEN "listening" ELSE phase
        /\ item' = [item EXCEPT ![i].pc = s, ![i].timer = FALSE, ![i].sent = Sent(i, "speakable")]
    BY <1>7, <2>1 DEF WorkEnds, Settled
  <2>4. item[i].sent \in {<<>>, <<"commentary">>}
    BY <1>3, <2>3 DEF ItemFits
  <2>5. /\ s \in {"answered", "unsent"} /\ Sent(i, "speakable") \in Messages
        /\ s = "answered" => Sent(i, "speakable") \in {<<"speakable">>, <<"commentary", "speakable">>}
        /\ s # "answered" => Sent(i, "speakable") \in {<<>>, <<"commentary">>}
    BY <1>3, <2>1, <2>4, SentTyped DEF Sent
  <2>6. o \in ItemType /\ o.pc = s /\ o.timer = FALSE /\ o.sent = Sent(i, "speakable")
    BY <1>3, <2>2, <2>5 DEF ItemType
  <2>7. item' = [item EXCEPT ![i] = o]
    BY <1>3, <2>2, <2>3 DEF ItemType
  <2>8. phase' \in {"idle", "connecting", "listening", "delegating", "speaking"} /\ phase' # "delegating"
    BY <2>3 DEF PageTypeOK
  <2>9. ItemsFit' /\ PageTypeOK'
    BY <1>4, <2>5, <2>6, <2>7, <2>8
  <2>10. ~cut => (phase = "speaking" <=> openTurns # {}) /\ ((\E d \in Calls : Connecting(d)) => phase = "connecting")
    BY WhenUncut
  <2> QED
    BY <1>1, <1>2, <2>3, <2>8, <2>9, <2>10, TalkKeeps
<1> QED
  BY <1>5, <1>6, <1>7

(***************************************************************************)
(* The invariant holds in every state.                                     *)
(***************************************************************************)

LEMMA Parts == IInv <=> RouteInv /\ PageTypeOK /\ PageInv
BY Typed DEF IInv, RouteInv, PageInv

LEMMA PartsNext == RouteInv' /\ PageTypeOK' /\ PageInv' => IInv'
BY DEF IInv, RouteInv, PageInv, TypeOK, PageTypeOK, CallType, Messages, ItemType, TurnType

LEMMA PageStays == PageInv /\ PageTypeOK /\ UNCHANGED page => PageInv' /\ PageTypeOK'
<1> SUFFICES ASSUME PageInv, PageTypeOK, UNCHANGED page PROVE PageInv' /\ PageTypeOK'
  OBVIOUS
<1>1. UNCHANGED <<call, callRef, phase, openTurns, mounted, item, turn, cut>>
  BY DEF page
<1>2. PageTypeOK'
  BY <1>1 DEF PageTypeOK
<1>3. ItemsFit' /\ TurnsFit' /\ PageFits'
  BY <1>1 DEF PageInv, ItemsFit, ItemFits, TurnsFit, PageFits, ChannelsFit, OneCall, PhaseTellsTruth, Pending, On, Connecting
<1> QED
  BY <1>2, <1>3 DEF PageInv

LEMMA InitFits == Init => IInv
<1> SUFFICES ASSUME Init PROVE IInv
  OBVIOUS
<1>1. RouteInv
  BY RouteStarts DEF Init
<1>2. PageTypeOK
  BY SentTyped DEF Init, PageTypeOK, CallType, ItemType, TurnType, Routes
<1>3. ItemsFit /\ TurnsFit
  BY DEF Init, ItemsFit, ItemFits, TurnsFit
<1>4. \A c \in Calls : ~Connecting(c) /\ ~On(c) /\ call[c].channel = "none"
  BY DEF Init, Connecting, On
<1>5. PageFits
  BY <1>4 DEF Init, PageFits, ChannelsFit, OneCall, PhaseTellsTruth
<1> QED
  BY <1>1, <1>2, <1>3, <1>5, Parts DEF PageInv

LEMMA NextHolds == IInv /\ [Next]_vars => IInv'
<1> SUFFICES ASSUME IInv, [Next]_vars PROVE IInv'
  OBVIOUS
<1>1. RouteInv /\ PageTypeOK /\ PageInv
  BY Parts
<1>2. CASE (RouteStep \/ \E c \in Calls : PostArrives(c)) /\ UNCHANGED page
  BY <1>1, <1>2, RouteKeeps, PageStays, PartsNext
<1>3. ASSUME NEW c \in Calls, Offers(c)
      PROVE  IInv'
  BY <1>2, <1>3 DEF Offers
<1>4. ASSUME UNCHANGED route, PageInv', PageTypeOK'
      PROVE  IInv'
  BY <1>1, <1>4, RouteStays, PartsNext
<1>5. ASSUME NEW c \in Calls, NEW via \in Routes, Start(c, via)
      PROVE  IInv'
  BY <1>1, <1>4, <1>5, StartKeeps DEF Start
<1>6. CASE End \/ Unmount
  <2>1. Ends /\ mounted' \in BOOLEAN /\ UNCHANGED route
    BY <1>1, <1>6 DEF End, Unmount, Ends, PageTypeOK
  <2> QED
    BY <1>1, <1>4, <2>1, EndsKeeps
<1>7. ASSUME NEW c \in Calls, Connects(c)
      PROVE  IInv'
  <2>1. CASE Granted(c) \/ Gathered(c) \/ AnswerArrives(c)
    BY <1>1, <1>4, <2>1, ConnectingKeeps DEF Granted, Gathered, AnswerArrives
  <2>2. CASE Connected(c)
    BY <1>1, <1>4, <2>2, ConnectedKeeps DEF Connected
  <2>3. CASE ConnectFails(c)
    BY <1>1, <1>4, <2>3, ConnectFailsKeeps DEF ConnectFails
  <2>4. CASE ChannelOpens(c) \/ ChannelDrops(c)
    BY <1>1, <1>4, <2>4, ChannelKeeps DEF ChannelOpens, ChannelDrops
  <2> QED
    BY <1>3, <1>7, <2>1, <2>2, <2>3, <2>4 DEF Connects
<1>8. ASSUME NEW c \in Calls, Talks(c)
      PROVE  IInv'
  <2>1. CASE SessionStarted(c)
    BY <1>1, <1>4, <2>1, ChannelKeeps DEF SessionStarted
  <2>2. ASSUME NEW t \in Turns, TurnCreated(c, t) PROVE IInv'
    BY <1>1, <1>4, <2>2, TurnsKeep DEF TurnCreated
  <2>3. ASSUME NEW i \in Items, Delegated(c, i) PROVE IInv'
    BY <1>1, <1>4, <2>3, ItemsKeep DEF Delegated
  <2> QED
    BY <1>8, <2>1, <2>2, <2>3 DEF Talks
<1>9. ASSUME NEW t \in Turns, TurnDone(t) PROVE IInv'
  BY <1>1, <1>4, <1>9, TurnsKeep DEF TurnDone
<1>10. ASSUME NEW i \in Items, Nudge(i) \/ WorkEnds(i) PROVE IInv'
  BY <1>1, <1>4, <1>10, ItemsKeep DEF Nudge, WorkEnds
<1>11. CASE UNCHANGED vars
  BY <1>1, <1>11, RouteStays, PageStays, PartsNext DEF vars
<1> QED
  BY <1>2, <1>5, <1>6, <1>7, <1>8, <1>9, <1>10, <1>11 DEF Next

THEOREM Invariance == Spec => []IInv
<1>1. Init => IInv
  BY InitFits
<1>2. IInv /\ [Next]_vars => IInv'
  BY NextHolds
<1> QED
  BY <1>1, <1>2, PTL DEF Spec

(***************************************************************************)
(* What follows.                                                           *)
(***************************************************************************)

(* The page and the route keep the shapes of their state.                  *)
THEOREM CallTypeCorrect == Spec => []TypeOK
<1>1. IInv => TypeOK
  BY DEF IInv
<1> QED
  BY <1>1, Invariance, PTL

(* What the model is told of a delegation: at most one nudge, and only     *)
(* before the answer; one answer, if it was answered.                      *)
THEOREM DelegationsGetOneAnswer == Spec => []DelegationsAreAnswered
<1>1. IInv => DelegationsAreAnswered
  BY DEF IInv, ItemsFit, ItemFits, DelegationsAreAnswered
<1> QED
  BY <1>1, Invariance, PTL

(* The orb speaks exactly while a turn is open, and thinks only while a    *)
(* delegation of the call is pending.                                      *)
THEOREM OrbTellsTruth == Spec => []PhaseTellsTruth
<1>1. IInv => PhaseTellsTruth
  BY DEF IInv, PageFits
<1> QED
  BY <1>1, Invariance, PTL

(* A microphone or a connection that is on belongs to the call the page    *)
(* refers to, or to one that is still connecting.                          *)
THEOREM CallsAreTurnedOff == Spec => []NothingIsLeftOn
<1>1. IInv => NothingIsLeftOn
  BY DEF IInv, PageFits, OneCall, On, NothingIsLeftOn
<1> QED
  BY <1>1, Invariance, PTL

(* While requests do not overlap, a codex session that was answered to is  *)
(* the active one, or its stop is awaited.                                 *)
THEOREM CodexCallsAreReplaced == Spec => []OpenCallsAreReplaced
<1>1. IInv => OpenCallsAreReplaced
  BY DEF IInv, RouteFits
<1> QED
  BY <1>1, Invariance, PTL

(***************************************************************************)
(* Second part: calls of the client.  First, sequences and recursion.      *)
(***************************************************************************)

(* What holds of 0, and of n + 1 if of n, holds of every number: a set that *)
(* lacks some would lack a least one.                                       *)
Less == OpToRel(<, Nat)

LEMMA NaturalsFromZero ==
  ASSUME NEW T \in SUBSET Nat, 0 \in T, \A n \in T : n + 1 \in T
  PROVE  T = Nat
<1>1. IsWellFoundedOn(Less, Nat)
  BY NatLessThanWellFounded, Zenon DEF Less
<1>2. \A m, n \in Nat : <<m, n>> \in Less <=> m < n
  BY Zenon DEF Less, OpToRel
<1> SUFFICES ASSUME Nat \ T # {} PROVE FALSE
  OBVIOUS
<1>3. PICK x \in Nat \ T : \A y \in Nat \ T : ~ (<<y, x>> \in Less)
  BY <1>1, WFMin
<1>4. x - 1 \in Nat /\ x - 1 < x
  OBVIOUS
<1>5. x - 1 \in T
  BY <1>2, <1>3, <1>4
<1> QED
  BY <1>4, <1>5

(* A sequence is empty, or the one before it and its last element.          *)
LEMMA Appended ==
  ASSUME NEW A, NEW q \in Seq(A), NEW a \in A
  PROVE  /\ Append(q, a) \in Seq(A) /\ Append(q, a) # <<>>
         /\ Front(Append(q, a)) = q /\ Last(Append(q, a)) = a
<1>1. /\ Append(q, a) \in Seq(A) /\ Append(q, a) # <<>> /\ Len(Append(q, a)) = Len(q) + 1
      /\ \A i \in 1..Len(q) : Append(q, a)[i] = q[i]
      /\ Append(q, a)[Len(q) + 1] = a
  BY AppendProperties
<1>2. Last(Append(q, a)) = a
  BY <1>1 DEF Last
<1>3. Front(Append(q, a)) = SubSeq(Append(q, a), 1, Len(q))
  BY <1>1 DEF Front
<1>4. \A i \in 1..Len(q) : Append(q, a)[i] \in A
  BY <1>1, ElementOfSeq
<1>5. /\ SubSeq(Append(q, a), 1, Len(q)) \in Seq(A)
      /\ Len(SubSeq(Append(q, a), 1, Len(q))) = Len(q)
      /\ \A i \in 1..Len(q) : SubSeq(Append(q, a), 1, Len(q))[i] = q[i]
  BY <1>1, <1>4, SubSeqProperties, LenProperties
<1>6. SubSeq(Append(q, a), 1, Len(q)) = q
  BY <1>5, SeqEqual
<1> QED
  BY <1>1, <1>2, <1>3, <1>6

LEMMA FrontAndLast ==
  ASSUME NEW A, NEW q \in Seq(A), q # <<>>
  PROVE  /\ Front(q) \in Seq(A) /\ Last(q) \in A
         /\ q = Append(Front(q), Last(q)) /\ Len(Front(q)) = Len(q) - 1
         /\ Len(q) \in Nat \ {0}
<1>1. PICK p \in Seq(A), a \in A : q = Append(p, a)
  BY SequenceEmptyOrAppend
<1>2. Len(q) = Len(p) + 1 /\ Len(p) \in Nat
  BY <1>1, AppendProperties, LenProperties
<1> QED
  BY <1>1, <1>2, Appended

(* What holds of <<>>, and of a sequence with one more element, holds of   *)
(* all.                                                                    *)
LEMMA SequencesFromEmpty ==
  ASSUME NEW A, NEW T \in SUBSET Seq(A), <<>> \in T,
         \A q \in T, a \in A : Append(q, a) \in T
  PROVE  T = Seq(A)
<1> DEFINE N == {n \in Nat : \A q \in Seq(A) : Len(q) = n => q \in T}
<1>1. 0 \in N
  BY EmptySeq
<1>2. ASSUME NEW n \in N PROVE n + 1 \in N
  <2> SUFFICES ASSUME NEW q \in Seq(A), Len(q) = n + 1 PROVE q \in T
    OBVIOUS
  <2>1. q # <<>>
    BY EmptySeq
  <2>2. /\ Front(q) \in Seq(A) /\ Last(q) \in A /\ q = Append(Front(q), Last(q))
        /\ Len(Front(q)) = n
    <3>1. /\ Front(q) \in Seq(A) /\ Last(q) \in A /\ q = Append(Front(q), Last(q))
          /\ Len(Front(q)) = Len(q) - 1
      BY <2>1, FrontAndLast
    <3>2. n \in Nat
      OBVIOUS
    <3>3. Len(Front(q)) = n
      <4> HIDE DEF N
      <4> QED
        BY <3>1, <3>2
    <3> QED
      BY <3>1, <3>3
  <2>3. Front(q) \in T
    BY <2>2
  <2> QED
    BY <2>2, <2>3
<1>3. N = Nat
  <2> HIDE DEF N
  <2>1. N \in SUBSET Nat
    BY DEF N
  <2> QED
    BY <1>1, <1>2, <2>1, NaturalsFromZero
<1> QED
  BY <1>3, LenProperties

(* A recursion over sequences: first for the empty one, step after.       *)
Recursion(f, A, S, first, step) ==
  /\ f \in [Seq(A) -> S]
  /\ f = [q \in Seq(A) |-> IF q = <<>> THEN first ELSE step[<<f[Front(q)], Front(q), Last(q)>>]]

IsStep(step, A, S) == step \in [S \X Seq(A) \X A -> S]

(* There is such a function, whatever first and step are.                  *)
LEMMA RecursionIsDefined ==
  ASSUME NEW A, NEW S, NEW first, NEW step, first \in S, IsStep(step, A, S)
  PROVE  \E f : Recursion(f, A, S, first, step)
<1>0. step \in [S \X Seq(A) \X A -> S] /\ first \in S
  BY DEF IsStep
<1> DEFINE Trace(q, g) ==
      /\ g \in [0..Len(q) -> S] /\ g[0] = first
      /\ \A i \in 1..Len(q) : g[i] = step[<<g[i - 1], SubSeq(q, 1, i - 1), q[i]>>]
    Longer(q, a, g) == [i \in 0..Len(q) + 1 |-> IF i = Len(q) + 1 THEN step[<<g[Len(q)], q, a>>] ELSE g[i]]
    Traced == {q \in Seq(A) : \E g \in [0..Len(q) -> S] : Trace(q, g)}
    f == [q \in Seq(A) |-> (CHOOSE g \in [0..Len(q) -> S] : Trace(q, g))[Len(q)]]
<1>1. ASSUME NEW q \in Seq(A), NEW a \in A, NEW g, Trace(q, g)
      PROVE  Trace(Append(q, a), Longer(q, a, g))
  <2> DEFINE h == Longer(q, a, g)
             r == Append(q, a)
  <2>1. /\ Len(r) = Len(q) + 1 /\ Len(q) \in Nat /\ r[Len(q) + 1] = a
        /\ \A i \in 1..Len(q) : r[i] = q[i]
    BY AppendProperties, LenProperties
  <2>2. h \in [0..Len(r) -> S] /\ h[0] = first
    <3>1. Len(q) \in 0..Len(q) /\ \A i \in 0..Len(q) + 1 : i = Len(q) + 1 \/ i \in 0..Len(q)
      BY <2>1
    <3>2. g[Len(q)] \in S /\ step[<<g[Len(q)], q, a>>] \in S
      BY <1>0, <1>1, <3>1
    <3>3. \A i \in 0..Len(q) + 1 : h[i] \in S
      BY <1>1, <3>1, <3>2
    <3>4. h \in [0..Len(q) + 1 -> S]
      BY <3>3
    <3>5. 0..Len(r) = 0..Len(q) + 1
      BY <2>1
    <3>6. h[0] = g[0] /\ g[0] = first
      <4>1. 0 \in 0..Len(q) + 1 /\ 0 # Len(q) + 1
        BY <2>1
      <4> QED
        BY <1>1, <4>1
    <3> HIDE DEF h, r
    <3> QED
      BY <3>4, <3>5, <3>6
  <2>3. \A i \in 1..Len(r) : SubSeq(r, 1, i - 1) = SubSeq(q, 1, i - 1)
    <3> SUFFICES ASSUME NEW i \in 1..Len(r) PROVE SubSeq(r, 1, i - 1) = SubSeq(q, 1, i - 1)
      OBVIOUS
    <3>1. \A j \in 1..(i - 1) : r[j] = q[j] /\ q[j] \in A
      BY <2>1, ElementOfSeq
    <3>2. /\ SubSeq(r, 1, i - 1) \in Seq(A) /\ SubSeq(q, 1, i - 1) \in Seq(A)
          /\ Len(SubSeq(r, 1, i - 1)) = Len(SubSeq(q, 1, i - 1))
          /\ \A j \in 1..(i - 1) : SubSeq(r, 1, i - 1)[j] = r[j] /\ SubSeq(q, 1, i - 1)[j] = q[j]
          /\ Len(SubSeq(q, 1, i - 1)) = i - 1
      BY <2>1, <3>1, SubSeqProperties
    <3> QED
      BY <3>1, <3>2, SeqEqual
  <2>4. SubSeq(q, 1, Len(q)) = q
    BY SubSeqFull
  <2>5. ASSUME NEW i \in 1..Len(r) PROVE h[i] = step[<<h[i - 1], SubSeq(r, 1, i - 1), r[i]>>]
    <3>1. CASE i = Len(q) + 1
      <4>1. i - 1 = Len(q) /\ i \in 0..Len(q) + 1 /\ i - 1 \in 0..Len(q) + 1 /\ i - 1 # Len(q) + 1
        BY <2>1, <3>1
      <4>2. h[i] = step[<<g[Len(q)], q, a>>] /\ h[i - 1] = g[Len(q)]
        BY <3>1, <4>1
      <4>3. SubSeq(r, 1, i - 1) = q /\ r[i] = a
        BY <2>1, <2>3, <2>4, <3>1, <4>1
      <4> HIDE DEF h, r
      <4> QED
        BY <4>2, <4>3
    <3>2. CASE i # Len(q) + 1
      <4>1. i \in 1..Len(q) /\ h[i] = g[i] /\ h[i - 1] = g[i - 1] /\ r[i] = q[i]
        BY <2>1, <3>2
      <4> QED
        BY <1>1, <2>3, <4>1
    <3> QED
      BY <3>1, <3>2
  <2> QED
    BY <2>2, <2>5
<1>2. ASSUME NEW q \in Seq(A), NEW p \in Seq(A), NEW g, NEW h, Trace(q, g), Trace(p, h),
             Len(q) \in {Len(p), Len(p) + 1}, \A i \in 1..Len(p) : p[i] = q[i]
      PROVE  g[Len(p)] = h[Len(p)]
  <2> DEFINE N == {n \in Nat : n <= Len(p) => g[n] = h[n]}
  <2>1. 0 \in N
    BY <1>2
  <2>2. ASSUME NEW n \in N PROVE n + 1 \in N
    <3> SUFFICES ASSUME n + 1 <= Len(p) PROVE g[n + 1] = h[n + 1]
      OBVIOUS
    <3>1. n + 1 \in 1..Len(p) /\ n + 1 \in 1..Len(q) /\ g[n] = h[n] /\ (n + 1) - 1 = n
      BY LenProperties, <1>2
    <3>2. \A j \in 1..n : p[j] = q[j] /\ q[j] \in A /\ p[j] \in A
      BY <1>2, <3>1, ElementOfSeq
    <3>3. SubSeq(p, 1, n) = SubSeq(q, 1, n)
      <4>1. /\ SubSeq(p, 1, n) \in Seq(A) /\ SubSeq(q, 1, n) \in Seq(A)
            /\ Len(SubSeq(p, 1, n)) = n /\ Len(SubSeq(q, 1, n)) = n
            /\ \A j \in 1..n : SubSeq(p, 1, n)[j] = p[j] /\ SubSeq(q, 1, n)[j] = q[j]
        BY <3>2, SubSeqProperties
      <4> QED
        BY <3>2, <4>1, SeqEqual
    <3>4. /\ g[n + 1] = step[<<g[n], SubSeq(q, 1, n), q[n + 1]>>]
          /\ h[n + 1] = step[<<h[n], SubSeq(p, 1, n), p[n + 1]>>]
      BY <1>2, <3>1
    <3> QED
      BY <1>2, <3>1, <3>3, <3>4
  <2>3. N = Nat
    <3> HIDE DEF N
    <3>1. N \in SUBSET Nat
      BY DEF N
    <3> QED
      BY <2>1, <2>2, <3>1, NaturalsFromZero
  <2> QED
    BY <2>3, LenProperties
<1>3. Traced = Seq(A)
  <2>1. <<>> \in Traced
    <3>1. Trace(<<>>, [i \in 0..0 |-> first])
      BY EmptySeq
    <3> QED
      BY <3>1, EmptySeq
  <2>2. ASSUME NEW q \in Traced, NEW a \in A PROVE Append(q, a) \in Traced
    <3>1. PICK g \in [0..Len(q) -> S] : Trace(q, g)
      OBVIOUS
    <3> DEFINE h == Longer(q, a, g)
    <3>2. Trace(Append(q, a), h) /\ Append(q, a) \in Seq(A)
      <4> HIDE DEF Trace, Longer
      <4> QED
        BY <1>1, <3>1, AppendProperties
    <3>3. h \in [0..Len(Append(q, a)) -> S]
      BY <3>2
    <3> HIDE DEF Trace, h
    <3> QED
      BY <3>2, <3>3
  <2> HIDE DEF Traced
  <2>3. Traced \in SUBSET Seq(A)
    BY DEF Traced
  <2> QED
    BY <2>1, <2>2, <2>3, SequencesFromEmpty
<1> DEFINE G(q) == CHOOSE g \in [0..Len(q) -> S] : Trace(q, g)
<1>4. \A q \in Seq(A) : Trace(q, G(q)) /\ f[q] = G(q)[Len(q)]
  <2> SUFFICES ASSUME NEW q \in Seq(A) PROVE Trace(q, G(q))
    OBVIOUS
  <2>1. \E g \in [0..Len(q) -> S] : Trace(q, g)
    BY <1>3
  <2> HIDE DEF Trace
  <2> QED
    BY <2>1
<1> HIDE DEF f, G
<1>5. f \in [Seq(A) -> S]
  <2>1. \A q \in Seq(A) : f[q] \in S
    BY <1>4, LenProperties
  <2> QED
    BY <2>1 DEF f
<1>6. f[<<>>] = first
  BY <1>4, EmptySeq
<1>7. ASSUME NEW q \in Seq(A), NEW a \in A PROVE f[Append(q, a)] = step[<<f[q], q, a>>]
  <2> DEFINE r == Append(q, a)
  <2>1. r \in Seq(A) /\ Len(r) = Len(q) + 1 /\ Len(q) \in Nat /\ r[Len(q) + 1] = a
        /\ \A i \in 1..Len(q) : r[i] = q[i]
    BY AppendProperties, LenProperties
  <2>2. G(r)[Len(q)] = G(q)[Len(q)]
    <3>1. Trace(r, G(r)) /\ Trace(q, G(q))
      BY <1>4, <2>1
    <3>2. Len(r) \in {Len(q), Len(q) + 1}
      BY <2>1
    <3> HIDE DEF Trace
    <3> QED
      BY <1>2, <2>1, <3>1, <3>2
  <2>3. G(r)[Len(r)] = step[<<G(r)[Len(q)], SubSeq(r, 1, Len(q)), a>>]
    <3>1. \A i \in 1..Len(r) : G(r)[i] = step[<<G(r)[i - 1], SubSeq(r, 1, i - 1), r[i]>>]
      BY <1>4, <2>1
    <3>2. Len(r) \in 1..Len(r) /\ Len(r) - 1 = Len(q)
      BY <2>1
    <3> HIDE DEF r
    <3> QED
      BY <2>1, <3>1, <3>2
  <2>4. SubSeq(r, 1, Len(q)) = q
    BY Appended, <2>1 DEF Front
  <2> QED
    BY <1>4, <2>1, <2>2, <2>3, <2>4
<1>8. ASSUME NEW q \in Seq(A), q # <<>>
      PROVE  f[q] = step[<<f[Front(q)], Front(q), Last(q)>>]
  <2>1. Front(q) \in Seq(A) /\ Last(q) \in A /\ q = Append(Front(q), Last(q))
    BY <1>8, FrontAndLast
  <2>2. f[Append(Front(q), Last(q))] = step[<<f[Front(q)], Front(q), Last(q)>>]
    BY <1>7, <2>1
  <2> QED
    BY <2>1, <2>2
<1>9. \A q \in Seq(A) : f[q] = IF q = <<>> THEN first ELSE step[<<f[Front(q)], Front(q), Last(q)>>]
  BY <1>6, <1>8
<1>10. f = [q \in Seq(A) |-> IF q = <<>> THEN first ELSE step[<<f[Front(q)], Front(q), Last(q)>>]]
  <2>1. f = [q \in Seq(A) |-> f[q]]
    BY <1>5
  <2> QED
    BY <1>9, <2>1, Zenon
<1> QED
  BY <1>5, <1>10 DEF Recursion

(***************************************************************************)
(* Reading a text, one token after the other.                              *)
(***************************************************************************)

Lines  == [line : Seq(Words), data : Seq(Seq(Words))]
Readings == [cr : BOOLEAN, line : Seq(Words), data : Seq(Seq(Words)),
             events : Seq(Seq(Seq(Words))), over : BOOLEAN]

LEMMA EndOfLineTyped ==
  ASSUME NEW s \in Readings
  PROVE  EndOfLine(s) \in Readings
<1>1. Append(s.data, s.line) \in Seq(Seq(Words)) /\ Append(s.events, s.data) \in Seq(Seq(Seq(Words)))
  BY AppendProperties DEF Readings
<1>2. <<>> \in Seq(Words) /\ <<>> \in Seq(Seq(Words))
  BY EmptySeq
<1> QED
  BY <1>1, <1>2 DEF EndOfLine, Readings, Is

LEMMA TakenTyped ==
  ASSUME NEW s \in Readings, NEW t \in Tokens
  PROVE  Taken(s, t) \in Readings
<1>1. EndOfLine(s) \in Readings
  BY EndOfLineTyped
<1>2. t \notin {CR, LF} => Append(s.line, t) \in Seq(Words)
  BY AppendProperties DEF Readings, Tokens
<1> QED
  BY <1>1, <1>2 DEF Taken, Readings

(* Seen, token by token.                                                   *)
LEMMA SeenSteps ==
  /\ Seen \in [Seq(Tokens) -> Readings]
  /\ Seen[<<>>] = NothingRead
  /\ \A q \in Seq(Tokens), t \in Tokens : Seen[Append(q, t)] = Taken(Seen[q], t)
<1> DEFINE step == [x \in Readings \X Seq(Tokens) \X Tokens |-> Taken(x[1], x[3])]
<1>1. NothingRead \in Readings
  BY EmptySeq DEF NothingRead, Readings
<1>2. IsStep(step, Tokens, Readings)
  BY TakenTyped DEF IsStep
<1>3. \A s \in Readings, q \in Seq(Tokens), t \in Tokens : step[<<s, q, t>>] = Taken(s, t)
  OBVIOUS
<1> HIDE DEF step
<1>4. PICK f : Recursion(f, Tokens, Readings, NothingRead, step)
  BY <1>1, <1>2, RecursionIsDefined, Zenon
<1>5. f = [q \in Seq(Tokens) |-> IF q = <<>> THEN NothingRead ELSE Taken(f[Front(q)], Last(q))]
  <2>1. ASSUME NEW q \in Seq(Tokens), q # <<>>
        PROVE  step[<<f[Front(q)], Front(q), Last(q)>>] = Taken(f[Front(q)], Last(q))
    BY <1>3, <1>4, <2>1, FrontAndLast DEF Recursion
  <2> QED
    BY <1>4, <2>1 DEF Recursion
<1>6. Seen = [q \in Seq(Tokens) |-> IF q = <<>> THEN NothingRead ELSE Taken(Seen[Front(q)], Last(q))]
  <2> DEFINE Eq(g) == g = [q \in Seq(Tokens) |-> IF q = <<>> THEN NothingRead ELSE Taken(g[Front(q)], Last(q))]
  <2>1. Eq(f)
    BY <1>5
  <2>2. Seen = CHOOSE g : Eq(g)
    BY DEF Seen
  <2> HIDE DEF Eq
  <2>3. Eq(Seen)
    BY <2>1, <2>2
  <2> QED
    BY <2>3 DEF Eq
<1>7. Seen[<<>>] = NothingRead
  BY <1>6, EmptySeq
<1>8. ASSUME NEW q \in Seq(Tokens), NEW t \in Tokens PROVE Seen[Append(q, t)] = Taken(Seen[q], t)
  <2>1. /\ Append(q, t) \in Seq(Tokens) /\ Append(q, t) # <<>>
        /\ Front(Append(q, t)) = q /\ Last(Append(q, t)) = t
    BY AppendProperties, Appended
  <2> QED
    BY <1>6, <2>1
<1> DEFINE T == {q \in Seq(Tokens) : Seen[q] \in Readings}
<1>9. T = Seq(Tokens)
  <2>1. <<>> \in T
    BY <1>1, <1>7, EmptySeq
  <2>2. ASSUME NEW q \in T, NEW t \in Tokens PROVE Append(q, t) \in T
    BY <1>8, TakenTyped, AppendProperties
  <2>3. T \in SUBSET Seq(Tokens)
    OBVIOUS
  <2> HIDE DEF T
  <2> QED
    BY <2>1, <2>2, <2>3, SequencesFromEmpty
<1>10. Seen \in [Seq(Tokens) -> Readings]
  <2>1. \A q \in Seq(Tokens) : Seen[q] \in Readings
    BY <1>9
  <2>2. Seen = [q \in Seq(Tokens) |-> Seen[q]]
    BY <1>6
  <2> QED
    BY <2>1, <2>2
<1> QED
  BY <1>7, <1>8, <1>10

Plain == Words \cup {LF}

(* The characters of one more token, after the text before it.             *)
Normal(seen, before, token) ==
  IF token = LF /\ EndsInCR(before) THEN seen ELSE Append(seen, IF token = CR THEN LF ELSE token)

LEMMA NormalTyped ==
  ASSUME NEW s \in Seq(Plain), NEW q, NEW t \in Tokens
  PROVE  Normal(s, q, t) \in Seq(Plain)
<1>1. LF \in Plain /\ (t # CR => t \in Plain)
  BY DEF Plain, Tokens
<1> QED
  BY <1>1, AppendProperties DEF Normal

(* AllNormal, token by token: there is no CR in what it returns.           *)
LEMMA NormalSteps ==
  /\ AllNormal \in [Seq(Tokens) -> Seq(Plain)]
  /\ AllNormal[<<>>] = <<>>
  /\ \A q \in Seq(Tokens), t \in Tokens : AllNormal[Append(q, t)] = Normal(AllNormal[q], q, t)
<1> DEFINE step == [x \in Seq(Plain) \X Seq(Tokens) \X Tokens |-> Normal(x[1], x[2], x[3])]
<1>1. <<>> \in Seq(Plain)
  BY EmptySeq
<1>2. IsStep(step, Tokens, Seq(Plain))
  BY NormalTyped DEF IsStep
<1>3. \A s \in Seq(Plain), q \in Seq(Tokens), t \in Tokens : step[<<s, q, t>>] = Normal(s, q, t)
  OBVIOUS
<1> HIDE DEF step
<1>4. PICK f : Recursion(f, Tokens, Seq(Plain), <<>>, step)
  BY <1>1, <1>2, RecursionIsDefined, Zenon
<1>5. f = [q \in Seq(Tokens) |-> IF q = <<>> THEN <<>> ELSE Normal(f[Front(q)], Front(q), Last(q))]
  <2>1. ASSUME NEW q \in Seq(Tokens), q # <<>>
        PROVE  step[<<f[Front(q)], Front(q), Last(q)>>] = Normal(f[Front(q)], Front(q), Last(q))
    <3>1. Front(q) \in Seq(Tokens) /\ Last(q) \in Tokens
      BY <2>1, FrontAndLast
    <3>2. f[Front(q)] \in Seq(Plain)
      BY <1>4, <3>1 DEF Recursion
    <3> QED
      BY <1>3, <3>1, <3>2
  <2> QED
    BY <1>4, <2>1 DEF Recursion
<1>6. AllNormal = [q \in Seq(Tokens) |-> IF q = <<>> THEN <<>> ELSE Normal(AllNormal[Front(q)], Front(q), Last(q))]
  <2> DEFINE Eq(g) == g = [q \in Seq(Tokens) |-> IF q = <<>> THEN <<>> ELSE Normal(g[Front(q)], Front(q), Last(q))]
  <2>1. Eq(f)
    BY <1>5
  <2>2. AllNormal = CHOOSE g : Eq(g)
    BY DEF AllNormal, Normal
  <2> HIDE DEF Eq
  <2>3. Eq(AllNormal)
    BY <2>1, <2>2
  <2> QED
    BY <2>3 DEF Eq
<1>7. AllNormal[<<>>] = <<>>
  BY <1>6, EmptySeq
<1>8. ASSUME NEW q \in Seq(Tokens), NEW t \in Tokens
      PROVE  AllNormal[Append(q, t)] = Normal(AllNormal[q], q, t)
  <2>1. /\ Append(q, t) \in Seq(Tokens) /\ Append(q, t) # <<>>
        /\ Front(Append(q, t)) = q /\ Last(Append(q, t)) = t
    BY AppendProperties, Appended
  <2> QED
    BY <1>6, <2>1
<1> DEFINE T == {q \in Seq(Tokens) : AllNormal[q] \in Seq(Plain)}
<1>9. T = Seq(Tokens)
  <2>1. <<>> \in T
    BY <1>1, <1>7, EmptySeq
  <2>2. ASSUME NEW q \in T, NEW t \in Tokens PROVE Append(q, t) \in T
    BY <1>8, NormalTyped, AppendProperties
  <2>3. T \in SUBSET Seq(Tokens)
    OBVIOUS
  <2> HIDE DEF T
  <2> QED
    BY <2>1, <2>2, <2>3, SequencesFromEmpty
<1>10. AllNormal \in [Seq(Tokens) -> Seq(Plain)]
  <2>1. \A q \in Seq(Tokens) : AllNormal[q] \in Seq(Plain)
    BY <1>9
  <2>2. AllNormal = [q \in Seq(Tokens) |-> AllNormal[q]]
    BY <1>6
  <2> QED
    BY <2>1, <2>2
<1> QED
  BY <1>7, <1>8, <1>10

(* The lines of a block, with one more token.                              *)
Lined(lines, token) ==
  IF token = LF THEN Pushed(lines) ELSE [lines EXCEPT !.line = Append(@, token)]

(* LinesOf, token by token.                                                *)
LEMMA LinesSteps ==
  /\ LinesOf[<<>>] = [line |-> <<>>, data |-> <<>>]
  /\ \A q \in Seq(Tokens), t \in Tokens : LinesOf[Append(q, t)] = Lined(LinesOf[q], t)
<1> DEFINE Line == Seq(Tokens)
           S == [line : Seq(Tokens), data : Seq(Seq(Tokens))]
           none == [line |-> <<>>, data |-> <<>>]
           step == [x \in S \X Seq(Tokens) \X Tokens |-> Lined(x[1], x[3])]
<1>1. none \in S
  BY EmptySeq
<1>2. \A s \in S, t \in Tokens : Lined(s, t) \in S
  <2> SUFFICES ASSUME NEW s \in S, NEW t \in Tokens PROVE Lined(s, t) \in S
    OBVIOUS
  <2>1. Append(s.data, s.line) \in Seq(Seq(Tokens)) /\ Append(s.line, t) \in Seq(Tokens)
    BY AppendProperties
  <2> QED
    BY <2>1, EmptySeq DEF Lined, Pushed
<1>3. IsStep(step, Tokens, S)
  BY <1>2 DEF IsStep
<1>4. \A s \in S, q \in Seq(Tokens), t \in Tokens : step[<<s, q, t>>] = Lined(s, t)
  OBVIOUS
<1> HIDE DEF step, S, none
<1>5. PICK f : Recursion(f, Tokens, S, none, step)
  BY <1>1, <1>3, RecursionIsDefined, Zenon
<1>6. f = [q \in Seq(Tokens) |-> IF q = <<>> THEN none ELSE Lined(f[Front(q)], Last(q))]
  <2>1. ASSUME NEW q \in Seq(Tokens), q # <<>>
        PROVE  step[<<f[Front(q)], Front(q), Last(q)>>] = Lined(f[Front(q)], Last(q))
    BY <1>4, <1>5, <2>1, FrontAndLast DEF Recursion
  <2> QED
    BY <1>5, <2>1 DEF Recursion
<1>7. LinesOf = [q \in Seq(Tokens) |-> IF q = <<>> THEN none ELSE Lined(LinesOf[Front(q)], Last(q))]
  <2> DEFINE Eq(g) == g = [q \in Seq(Tokens) |-> IF q = <<>> THEN none ELSE Lined(g[Front(q)], Last(q))]
  <2>1. Eq(f)
    BY <1>6
  <2>2. LinesOf = CHOOSE g : Eq(g)
    BY DEF LinesOf, Lined, none
  <2> HIDE DEF Eq
  <2>3. Eq(LinesOf)
    BY <2>1, <2>2
  <2> QED
    BY <2>3 DEF Eq
<1>8. LinesOf[<<>>] = none
  BY <1>7, EmptySeq
<1>9. ASSUME NEW q \in Seq(Tokens), NEW t \in Tokens PROVE LinesOf[Append(q, t)] = Lined(LinesOf[q], t)
  BY <1>7, Appended
<1> QED
  BY <1>8, <1>9 DEF none

(***************************************************************************)
(* Texts with their line ends converted.                                   *)
(***************************************************************************)

LEMMA PlainIsTokens ==
  /\ Plain \subseteq Tokens /\ Seq(Plain) \subseteq Seq(Tokens)
  /\ Words \subseteq Plain /\ LF \in Plain /\ CR \notin Plain
  /\ LF \notin Words /\ CR \notin Words /\ LF # CR
  /\ Plain = Words \cup {LF} /\ Tokens = Words \cup {CR, LF}
<1>1. Plain \subseteq Tokens
  BY DEF Plain, Tokens
<1>2. Seq(Plain) \subseteq Seq(Tokens)
  BY <1>1, SeqMonotonic
<1> QED
  BY <1>1, <1>2, WordsAssumption DEF Plain, Tokens, CR, LF

LEMMA EndsAppended ==
  ASSUME NEW q \in Seq(Tokens), NEW t \in Tokens
  PROVE  EndsInCR(Append(q, t)) <=> t = CR
BY Appended DEF EndsInCR

(* Whether the last token was a CR is all that line ends of one character  *)
(* do not tell.                                                            *)
LEMMA NormalReadsAlike ==
  ASSUME NEW text \in Seq(Tokens)
  PROVE  /\ Seen[AllNormal[text]] = [Seen[text] EXCEPT !.cr = FALSE]
         /\ (Seen[text].cr <=> EndsInCR(text))
<1> DEFINE T == {q \in Seq(Tokens) : /\ Seen[AllNormal[q]] = [Seen[q] EXCEPT !.cr = FALSE]
                                     /\ (Seen[q].cr <=> EndsInCR(q))}
<1>1. <<>> \in T
  <2>1. Seen[<<>>] = NothingRead /\ AllNormal[<<>>] = <<>> /\ <<>> \in Seq(Tokens) /\ ~EndsInCR(<<>>)
    BY SeenSteps, NormalSteps, EmptySeq DEF EndsInCR
  <2>2. NothingRead = [NothingRead EXCEPT !.cr = FALSE] /\ NothingRead.cr = FALSE
    <3>1. NothingRead \in Readings
      BY SeenSteps, EmptySeq
    <3> QED
      BY <3>1 DEF NothingRead, Readings
  <2> QED
    BY <2>1, <2>2
<1>2. ASSUME NEW q \in T, NEW t \in Tokens PROVE Append(q, t) \in T
  <2>1. /\ q \in Seq(Tokens) /\ Append(q, t) \in Seq(Tokens)
        /\ AllNormal[q] \in Seq(Plain) /\ AllNormal[q] \in Seq(Tokens)
        /\ Seen[q] \in Readings
    BY AppendProperties, NormalSteps, SeenSteps, PlainIsTokens
  <2>2. /\ Seen[AllNormal[q]] = [Seen[q] EXCEPT !.cr = FALSE]
        /\ (Seen[q].cr <=> EndsInCR(q))
    OBVIOUS
  <2>3. /\ Seen[Append(q, t)] = Taken(Seen[q], t)
        /\ AllNormal[Append(q, t)] = Normal(AllNormal[q], q, t)
        /\ \A p \in Plain : Seen[Append(AllNormal[q], p)] = Taken(Seen[AllNormal[q]], p)
    BY <2>1, SeenSteps, NormalSteps, PlainIsTokens
  <2>4. EndsInCR(Append(q, t)) <=> t = CR
    BY <2>1, EndsAppended
  <2>5. Seen[Append(q, t)].cr <=> t = CR
    <3> DEFINE s == Seen[q]
    <3>1. s \in Readings /\ EndOfLine(s) \in Readings /\ CR # LF
      BY <2>1, EndOfLineTyped DEF CR, LF
    <3> HIDE DEF s
    <3>2. CASE t \notin {CR, LF}
      <4>1. Taken(s, t) = [s EXCEPT !.line = Append(s.line, t), !.cr = FALSE]
        BY <3>2 DEF Taken
      <4>2. ~Taken(s, t).cr
        BY <3>1, <4>1 DEF Readings
      <4> QED
        BY <2>3, <3>2, <4>2 DEF s
    <3>3. CASE t = LF /\ s.cr
      <4>1. Taken(s, t) = [s EXCEPT !.cr = FALSE]
        BY <3>3 DEF Taken
      <4>2. ~Taken(s, t).cr
        BY <3>1, <4>1 DEF Readings
      <4> QED
        BY <2>3, <3>1, <3>3, <4>2 DEF s
    <3>4. CASE t \in {CR, LF} /\ ~(t = LF /\ s.cr)
      <4>1. Taken(s, t) = [EndOfLine(s) EXCEPT !.cr = (t = CR)]
        BY <3>4 DEF Taken
      <4>2. Taken(s, t).cr <=> t = CR
        BY <3>1, <4>1 DEF Readings
      <4> QED
        BY <2>3, <4>2 DEF s
    <3> QED
      BY <3>2, <3>3, <3>4
  <2>6. Seen[AllNormal[Append(q, t)]] = [Seen[Append(q, t)] EXCEPT !.cr = FALSE]
    <3>1. CASE t = LF /\ EndsInCR(q)
      BY <2>1, <2>2, <2>3, <3>1 DEF Normal, Taken, Readings
    <3>2. CASE t \in Words
      <4>1. t \in Plain /\ t \notin {CR, LF}
        BY <3>2, PlainIsTokens
      <4>2. AllNormal[Append(q, t)] = Append(AllNormal[q], t)
        BY <2>3, <4>1 DEF Normal
      <4>3. Taken([Seen[q] EXCEPT !.cr = FALSE], t) = [Taken(Seen[q], t) EXCEPT !.cr = FALSE]
        BY <2>1, <4>1 DEF Taken, Readings
      <4> QED
        BY <2>2, <2>3, <4>1, <4>2, <4>3
    <3>3. CASE t \in {CR, LF} /\ ~(t = LF /\ EndsInCR(q))
      <4> DEFINE s == Seen[q]
      <4>1. AllNormal[Append(q, t)] = Append(AllNormal[q], LF)
        BY <2>3, <3>3 DEF Normal
      <4>2. Taken(s, t) = [EndOfLine(s) EXCEPT !.cr = (t = CR)]
        BY <2>2, <3>3 DEF Taken
      <4>3. Taken([s EXCEPT !.cr = FALSE], LF) = [EndOfLine([s EXCEPT !.cr = FALSE]) EXCEPT !.cr = FALSE]
        BY <2>1, PlainIsTokens DEF Taken, Readings
      <4>4. [EndOfLine([s EXCEPT !.cr = FALSE]) EXCEPT !.cr = FALSE] = [EndOfLine(s) EXCEPT !.cr = FALSE]
        BY <2>1 DEF EndOfLine, Readings
      <4>5. EndOfLine(s) \in Readings
        BY <2>1, EndOfLineTyped
      <4>6. [[EndOfLine(s) EXCEPT !.cr = (t = CR)] EXCEPT !.cr = FALSE] = [EndOfLine(s) EXCEPT !.cr = FALSE]
        <5> HIDE DEF s
        <5> QED
          BY <4>5 DEF Readings
      <4>7. Seen[AllNormal[Append(q, t)]] = Taken([s EXCEPT !.cr = FALSE], LF)
        BY <2>2, <2>3, <4>1, PlainIsTokens
      <4>8. Seen[Append(q, t)] = [EndOfLine(s) EXCEPT !.cr = (t = CR)]
        BY <2>3, <4>2
      <4> HIDE DEF s
      <4> QED
        BY <4>3, <4>4, <4>6, <4>7, <4>8
    <3>4. t \in Words \/ t \in {CR, LF}
      BY PlainIsTokens
    <3> QED
      BY <3>1, <3>2, <3>3, <3>4
  <2> QED
    BY <2>1, <2>2, <2>4, <2>5, <2>6
<1>3. T = Seq(Tokens)
  <2> HIDE DEF T
  <2>1. T \in SUBSET Seq(Tokens)
    BY DEF T
  <2> QED
    BY <1>1, <1>2, <2>1, SequencesFromEmpty
<1> QED
  BY <1>3

(* Joining texts: but where a CRLF is cut in two, they are converted apart.*)
LEMMA ConcatAppend ==
  ASSUME NEW A, NEW p \in Seq(A), NEW q \in Seq(A), NEW a \in A
  PROVE  p \o Append(q, a) = Append(p \o q, a)
<1>1. <<a>> \in Seq(A) /\ p \o q \in Seq(A)
  BY ConcatProperties
<1>2. Append(q, a) = q \o <<a>> /\ Append(p \o q, a) = (p \o q) \o <<a>>
  BY <1>1, AppendIsConcat
<1> QED
  BY <1>1, <1>2, ConcatAssociative

LEMMA EndsJoined ==
  ASSUME NEW x \in Seq(Tokens), NEW y \in Seq(Tokens)
  PROVE  EndsInCR(x \o y) <=> IF y = <<>> THEN EndsInCR(x) ELSE EndsInCR(y)
<1>1. CASE y = <<>>
  BY <1>1, ConcatEmptySeq
<1>2. CASE y # <<>>
  <2>1. PICK q \in Seq(Tokens), t \in Tokens : y = Append(q, t)
    BY <1>2, SequenceEmptyOrAppend
  <2>2. x \o y = Append(x \o q, t) /\ x \o q \in Seq(Tokens)
    BY <2>1, ConcatAppend, ConcatProperties
  <2> QED
    BY <1>2, <2>1, <2>2, EndsAppended
<1> QED
  BY <1>1, <1>2

LEMMA NormalJoins ==
  ASSUME NEW x \in Seq(Tokens), NEW y \in Seq(Tokens),
         ~(EndsInCR(x) /\ y # <<>> /\ y[1] = LF)
  PROVE  AllNormal[x \o y] = AllNormal[x] \o AllNormal[y]
<1> DEFINE Apart(q) == ~(EndsInCR(x) /\ q # <<>> /\ q[1] = LF)
           T == {q \in Seq(Tokens) : Apart(q) => AllNormal[x \o q] = AllNormal[x] \o AllNormal[q]}
<1>1. <<>> \in T
  <2>1. x \o <<>> = x /\ AllNormal[x] \o <<>> = AllNormal[x] /\ AllNormal[<<>>] = <<>> /\ <<>> \in Seq(Tokens)
    BY NormalSteps, ConcatEmptySeq, EmptySeq
  <2> QED
    BY <2>1
<1>2. ASSUME NEW q \in T, NEW t \in Tokens PROVE Append(q, t) \in T
  <2>1. q \in Seq(Tokens) /\ Append(q, t) \in Seq(Tokens) /\ x \o q \in Seq(Tokens)
    BY AppendProperties, ConcatProperties
  <2>2. x \o Append(q, t) = Append(x \o q, t)
    BY <2>1, ConcatAppend
  <2>3. /\ AllNormal[Append(x \o q, t)] = Normal(AllNormal[x \o q], x \o q, t)
        /\ AllNormal[Append(q, t)] = Normal(AllNormal[q], q, t)
        /\ AllNormal[x] \in Seq(Plain) /\ AllNormal[q] \in Seq(Plain)
    BY <2>1, NormalSteps
  <2>4. SUFFICES ASSUME Apart(Append(q, t))
                 PROVE  AllNormal[Append(x \o q, t)] = AllNormal[x] \o AllNormal[Append(q, t)]
    BY <2>1, <2>2
  <2>5. Apart(q)
    BY <2>1, <2>4, AppendProperties, EmptySeq, LenProperties
  <2>6. AllNormal[x \o q] = AllNormal[x] \o AllNormal[q]
    BY <2>5
  <2>7. t = LF => (EndsInCR(x \o q) <=> EndsInCR(q))
    <3>1. CASE q = <<>>
      <4>1. x \o q = x /\ Append(q, t)[1] = t /\ Append(q, t) # <<>> /\ ~EndsInCR(q)
        BY <2>1, <3>1, ConcatEmptySeq, AppendProperties, EmptySeq DEF EndsInCR
      <4> QED
        BY <2>4, <4>1
    <3>2. CASE q # <<>>
      BY <2>1, <3>2, EndsJoined
    <3> QED
      BY <3>1, <3>2
  <2>8. \A p \in Plain : Append(AllNormal[x] \o AllNormal[q], p) = AllNormal[x] \o Append(AllNormal[q], p)
    <3> SUFFICES ASSUME NEW p \in Plain
                 PROVE  AllNormal[x] \o Append(AllNormal[q], p) = Append(AllNormal[x] \o AllNormal[q], p)
      OBVIOUS
    <3> DEFINE a == AllNormal[x]
               b == AllNormal[q]
    <3>1. a \in Seq(Plain) /\ b \in Seq(Plain)
      BY <2>3
    <3> HIDE DEF a, b
    <3>2. a \o Append(b, p) = Append(a \o b, p)
      BY <3>1, ConcatAppend
    <3> QED
      BY <3>2 DEF a, b
  <2>9. (IF t = CR THEN LF ELSE t) \in Plain
    BY PlainIsTokens
  <2> HIDE DEF Apart, T
  <2> QED
    BY <2>3, <2>6, <2>7, <2>8, <2>9 DEF Normal
<1>3. T = Seq(Tokens)
  <2> HIDE DEF T
  <2>1. T \in SUBSET Seq(Tokens)
    BY DEF T
  <2> QED
    BY <1>1, <1>2, <2>1, SequencesFromEmpty
<1> QED
  BY <1>3

(* Nothing counts after [DONE].                                            *)
LEMMA NothingAfterDone ==
  ASSUME NEW x \in Seq(Tokens), NEW y \in Seq(Tokens), Seen[x].over
  PROVE  Seen[x \o y].over /\ Seen[x \o y].events = Seen[x].events
<1> DEFINE T == {q \in Seq(Tokens) : Seen[x \o q].over /\ Seen[x \o q].events = Seen[x].events}
<1>1. <<>> \in T
  BY ConcatEmptySeq, EmptySeq
<1>2. ASSUME NEW q \in T, NEW t \in Tokens PROVE Append(q, t) \in T
  <2>1. q \in Seq(Tokens) /\ Append(q, t) \in Seq(Tokens) /\ x \o q \in Seq(Tokens)
    BY AppendProperties, ConcatProperties
  <2>2. Seen[x \o Append(q, t)] = Taken(Seen[x \o q], t) /\ Seen[x \o q] \in Readings
    <3>1. x \o Append(q, t) = Append(x \o q, t)
      BY <2>1, ConcatAppend
    <3> QED
      BY <2>1, <3>1, SeenSteps
  <2>3. Seen[x \o q].over /\ Seen[x \o q].events = Seen[x].events
    OBVIOUS
  <2> DEFINE s == Seen[x \o q]
  <2>4. Taken(s, t).over /\ Taken(s, t).events = s.events
    <3> HIDE DEF s
    <3>1. s \in Readings /\ s.over
      BY <2>2, <2>3 DEF s
    <3> QED
      BY <3>1 DEF Taken, EndOfLine, Readings
  <2> QED
    BY <2>1, <2>2, <2>3, <2>4
<1>3. T = Seq(Tokens)
  <2> HIDE DEF T
  <2>1. T \in SUBSET Seq(Tokens)
    BY DEF T
  <2> QED
    BY <1>1, <1>2, <2>1, SequencesFromEmpty
<1> QED
  BY <1>3

(***************************************************************************)
(* Blocks and the blank lines between them.                                *)
(***************************************************************************)

(* A blank line begins after text[j].                                      *)
BlankAt(text, j) == text[j] = LF /\ text[j + 1] = LF
NoBlank(text) == \A j \in 1..(Len(text) - 1) : ~BlankAt(text, j)

(* What is read of a text that ends with an event.                         *)
Between(events) == [cr |-> FALSE, line |-> <<>>, data |-> <<>>, events |-> events, over |-> FALSE]
Amid(events, lines) ==
  [cr |-> FALSE, line |-> lines.line, data |-> lines.data, events |-> events, over |-> FALSE]

History == Seq(Seq(Seq(Words)))

LEMMA SameReading ==
  ASSUME NEW r \in Readings, NEW s \in Readings,
         r.cr <=> s.cr, r.line = s.line, r.data = s.data, r.events = s.events, r.over <=> s.over
  PROVE  r = s
<1>1. r.cr = s.cr /\ r.over = s.over
  BY DEF Readings
<1> QED
  BY <1>1 DEF Readings

LEMMA AmidTyped ==
  ASSUME NEW events \in History, NEW lines \in Lines
  PROVE  Amid(events, lines) \in Readings /\ Between(events) \in Readings
BY EmptySeq DEF Amid, Between, Lines, Readings, History

(* The end of a line, of the text and of its block.                        *)
LEMMA LineEnds ==
  ASSUME NEW events \in History, NEW lines \in Lines
  PROVE  /\ Pushed(lines) \in Lines
         /\ lines.line # <<>> \/ lines.data = <<>> =>
              EndOfLine(Amid(events, lines)) = Amid(events, Pushed(lines))
         /\ lines.line = <<>> =>
              LET read == EndOfLine(Amid(events, lines)) IN
              /\ Is(lines.data, Done) => read.over /\ read.events = events
              /\ ~Is(lines.data, Done) =>
                   read = Between(IF lines.data = <<>> THEN events ELSE Append(events, lines.data))
              /\ read.line = <<>> /\ read.data = <<>> /\ ~read.cr
<1> DEFINE read == EndOfLine(Amid(events, lines))
<1>1. Pushed(lines) \in Lines
  BY EmptySeq, AppendProperties DEF Lines, Pushed
<1>2. read \in Readings
  BY AmidTyped, EndOfLineTyped
<1>3. ~Is(<<>>, Done)
  BY DEF Is
<1>4. lines.line # <<>> \/ lines.data = <<>> =>
        ~read.cr /\ read.line = <<>> /\ read.data = Pushed(lines).data /\ read.events = events /\ ~read.over
  BY <1>3 DEF Amid, EndOfLine, Pushed
<1>5. lines.line = <<>> =>
        /\ ~read.cr /\ read.line = <<>> /\ read.data = <<>>
        /\ Is(lines.data, Done) => read.over /\ read.events = events
        /\ ~Is(lines.data, Done) =>
             ~read.over /\ read.events = IF lines.data = <<>> THEN events ELSE Append(events, lines.data)
  BY <1>3 DEF Amid, EndOfLine
<1> HIDE DEF read
<1>6. lines.line # <<>> \/ lines.data = <<>> => read = Amid(events, Pushed(lines))
  <2> SUFFICES ASSUME lines.line # <<>> \/ lines.data = <<>> PROVE read = Amid(events, Pushed(lines))
    OBVIOUS
  <2> DEFINE a == Amid(events, Pushed(lines))
  <2>1. a \in Readings /\ ~a.cr /\ a.line = <<>> /\ a.data = Pushed(lines).data /\ a.events = events /\ ~a.over
    BY <1>1, AmidTyped DEF Amid, Pushed
  <2> HIDE DEF a
  <2> QED
    BY <1>2, <1>4, <2>1, SameReading DEF a
<1>7. lines.line = <<>> /\ ~Is(lines.data, Done) =>
        read = Between(IF lines.data = <<>> THEN events ELSE Append(events, lines.data))
  <2> SUFFICES ASSUME lines.line = <<>>, ~Is(lines.data, Done)
               PROVE  read = Between(IF lines.data = <<>> THEN events ELSE Append(events, lines.data))
    OBVIOUS
  <2> DEFINE now == IF lines.data = <<>> THEN events ELSE Append(events, lines.data)
             b == Between(now)
  <2>1. now \in History
    BY AppendProperties DEF Lines, History
  <2> HIDE DEF now
  <2>2. b \in Readings /\ ~b.cr /\ b.line = <<>> /\ b.data = <<>> /\ b.events = now /\ ~b.over
    BY <2>1, AmidTyped DEF Between
  <2> HIDE DEF b
  <2>3. read = b
    BY <1>2, <1>5, <2>2, SameReading DEF now
  <2> QED
    BY <2>3 DEF b, now
<1> QED
  BY <1>1, <1>5, <1>6, <1>7 DEF read

LEMMA NoBlankAppended ==
  ASSUME NEW q \in Seq(Plain), NEW t \in Plain, NoBlank(Append(q, t))
  PROVE  NoBlank(q) /\ (t = LF /\ q # <<>> => Last(q) # LF)
<1>1. /\ Len(Append(q, t)) = Len(q) + 1 /\ Len(q) \in Nat /\ Append(q, t)[Len(q) + 1] = t
      /\ \A i \in 1..Len(q) : Append(q, t)[i] = q[i]
  BY AppendProperties, LenProperties
<1>2. \A j \in 1..Len(q) : ~(Append(q, t)[j] = LF /\ Append(q, t)[j + 1] = LF)
  BY <1>1 DEF NoBlank, BlankAt
<1>3. NoBlank(q)
  <2> SUFFICES ASSUME NEW j \in 1..(Len(q) - 1) PROVE ~(q[j] = LF /\ q[j + 1] = LF)
    BY DEF NoBlank, BlankAt
  <2>1. j \in 1..Len(q) /\ j + 1 \in 1..Len(q)
    BY <1>1
  <2> QED
    BY <1>1, <1>2, <2>1
<1>4. t = LF /\ q # <<>> => Last(q) # LF
  <2>1. q # <<>> => Len(q) \in 1..Len(q)
    BY <1>1, EmptySeq
  <2> QED
    BY <1>1, <1>2, <2>1 DEF Last
<1> QED
  BY <1>3, <1>4

(* A text without blank lines is read into the lines of its block.         *)
LEMMA BlockIsRead ==
  ASSUME NEW D \in Seq(Plain), NEW events \in History, Seen[D] = Between(events),
         NEW block \in Seq(Plain), NoBlank(block)
  PROVE  /\ Seen[D \o block] = Amid(events, LinesOf[block])
         /\ LinesOf[block] \in Lines
         /\ block # <<>> /\ Last(block) # LF => LinesOf[block].line # <<>>
         /\ block # <<>> /\ LinesOf[block].line = <<>> => Last(block) = LF
<1> DEFINE P(q) == /\ Seen[D \o q] = Amid(events, LinesOf[q])
                   /\ LinesOf[q] \in Lines
                   /\ q # <<>> /\ Last(q) # LF => LinesOf[q].line # <<>>
           T == {q \in Seq(Plain) : NoBlank(q) => P(q)}
<1>1. <<>> \in T
  <2>1. D \o <<>> = D /\ <<>> \in Seq(Plain) /\ LinesOf[<<>>] = [line |-> <<>>, data |-> <<>>]
    BY ConcatEmptySeq, EmptySeq, LinesSteps
  <2>2. LinesOf[<<>>] \in Lines
    BY <2>1, EmptySeq DEF Lines
  <2>3. Amid(events, LinesOf[<<>>]) = Between(events)
    BY <2>1 DEF Between, Amid
  <2> QED
    BY <2>1, <2>2, <2>3
<1>2. ASSUME NEW q \in T, NEW t \in Plain PROVE Append(q, t) \in T
  <2>1. q \in Seq(Plain) /\ Append(q, t) \in Seq(Plain)
    BY AppendProperties
  <2>2. SUFFICES ASSUME NoBlank(Append(q, t)) PROVE P(Append(q, t))
    BY <2>1
  <2>3. NoBlank(q) /\ (t = LF /\ q # <<>> => Last(q) # LF)
    BY <2>1, <2>2, NoBlankAppended
  <2>4. P(q)
    BY <2>3
  <2>5. q \in Seq(Tokens) /\ t \in Tokens /\ D \o q \in Seq(Tokens) /\ D \in Seq(Tokens)
    BY <2>1, PlainIsTokens, ConcatProperties
  <2>6. LinesOf[Append(q, t)] = Lined(LinesOf[q], t)
    BY <2>5, LinesSteps
  <2>7. Seen[D \o Append(q, t)] = Taken(Seen[D \o q], t)
    <3>1. D \o Append(q, t) = Append(D \o q, t)
      BY <2>1, ConcatAppend
    <3> QED
      BY <2>5, <3>1, SeenSteps
  <2>8. Append(q, t) # <<>> /\ Last(Append(q, t)) = t
    BY <2>1, Appended
  <2> DEFINE l == LinesOf[q]
  <2>9. Seen[D \o Append(q, t)] = Taken(Amid(events, l), t) /\ l \in Lines
    BY <2>4, <2>7
  <2>10. CASE t # LF
    <3>1. t \in Words /\ t \notin {CR, LF}
      BY <2>10, PlainIsTokens
    <3>2. LinesOf[Append(q, t)] = [l EXCEPT !.line = Append(l.line, t)]
      BY <2>6, <3>1 DEF Lined
    <3>3. Append(l.line, t) \in Seq(Words) /\ Append(l.line, t) # <<>>
      <4>1. l.line \in Seq(Words)
        BY <2>9 DEF Lines
      <4> HIDE DEF l, T
      <4> QED
        BY <3>1, <4>1, AppendProperties
    <3> HIDE DEF l, T
    <3>4. LinesOf[Append(q, t)] \in Lines /\ LinesOf[Append(q, t)].line = Append(l.line, t) /\ LinesOf[Append(q, t)].data = l.data
      BY <2>9, <3>2, <3>3 DEF Lines
    <3>5. Taken(Amid(events, l), t) = Amid(events, LinesOf[Append(q, t)])
      BY <3>1, <3>4 DEF Taken, Amid
    <3> QED
      BY <2>9, <3>3, <3>4, <3>5
  <2>11. CASE t = LF
    <3>1. LinesOf[Append(q, t)] = Pushed(l)
      BY <2>6, <2>11 DEF Lined
    <3>2. Taken(Amid(events, l), t) = [EndOfLine(Amid(events, l)) EXCEPT !.cr = FALSE]
      BY <2>11, PlainIsTokens DEF Taken, Amid
    <3>5. l.line = <<>> => l.data = <<>>
      <4>1. l.line = <<>> => q = <<>>
        BY <2>3, <2>4, <2>11
      <4> QED
        BY <4>1, LinesSteps
    <3> HIDE DEF l, T
    <3>6. Pushed(l) \in Lines /\ EndOfLine(Amid(events, l)) = Amid(events, Pushed(l))
      BY <2>9, <3>5, LineEnds
    <3>7. [Amid(events, Pushed(l)) EXCEPT !.cr = FALSE] = Amid(events, Pushed(l))
      BY <3>6, AmidTyped DEF Amid, Readings
    <3> QED
      BY <2>8, <2>9, <2>11, <3>1, <3>2, <3>6, <3>7
  <2> QED
    BY <2>10, <2>11
<1>3. T = Seq(Plain)
  <2> HIDE DEF T
  <2>1. T \in SUBSET Seq(Plain)
    BY DEF T
  <2> QED
    BY <1>1, <1>2, <2>1, SequencesFromEmpty
<1>4. P(block)
  BY <1>3
<1> QED
  BY <1>4

(* A block ends in a blank line: its event, if it is one, unless that is   *)
(* [DONE].                                                                 *)
LEMMA EventIsRead ==
  ASSUME NEW D \in Seq(Plain), NEW events \in History, Seen[D] = Between(events),
         NEW block \in Seq(Plain), NoBlank(Append(block, LF))
  PROVE  LET event == ParsedBlock(block)
             read == Seen[Append(Append(D \o block, LF), LF)] IN
         /\ event \in Seq(Seq(Words))
         /\ Is(event, Done) => read.over /\ read.events = events
         /\ ~Is(event, Done) =>
              read = Between(IF event = <<>> THEN events ELSE Append(events, event))
<1> DEFINE event == ParsedBlock(block)
           q == Append(D \o block, LF)
<1>1. NoBlank(block) /\ LF \in Plain /\ Append(block, LF) \in Seq(Plain)
  BY NoBlankAppended, PlainIsTokens, AppendProperties
<1>2. q = D \o Append(block, LF) /\ D \o block \in Seq(Plain)
  <2>1. D \o Append(block, LF) = Append(D \o block, LF)
    BY <1>1, ConcatAppend
  <2> QED
    BY <2>1, ConcatProperties
<1>3. Seen[q] = Amid(events, LinesOf[Append(block, LF)])
  <2>1. Seen[D \o Append(block, LF)] = Amid(events, LinesOf[Append(block, LF)])
    BY <1>1, BlockIsRead
  <2> QED
    BY <1>2, <2>1
<1>4. LinesOf[Append(block, LF)] = Pushed(LinesOf[block]) /\ LinesOf[block] \in Lines
  BY <1>1, BlockIsRead, LinesSteps, PlainIsTokens DEF Lined
<1> DEFINE ended == Pushed(LinesOf[block])
<1>5. Seen[q] = Amid(events, ended) /\ ended.line = <<>> /\ ended.data = event
  BY <1>3, <1>4 DEF ParsedBlock, Pushed
<1>6. ended \in Lines
  BY <1>4, LineEnds
<1>7. Seen[Append(q, LF)] = Taken(Seen[q], LF)
  <2>1. q \in Seq(Tokens) /\ LF \in Tokens
    <3>1. q \in Seq(Plain)
      BY <1>1, <1>2, AppendProperties
    <3> QED
      BY <3>1, PlainIsTokens
  <2> QED
    BY <2>1, SeenSteps
<1> HIDE DEF event, q, ended
<1> DEFINE read == EndOfLine(Amid(events, ended))
<1>8. read \in Readings /\ ~read.cr
  BY <1>5, <1>6, LineEnds, AmidTyped, EndOfLineTyped
<1>9. Taken(Amid(events, ended), LF) = [read EXCEPT !.cr = FALSE]
  BY PlainIsTokens DEF Taken, Amid
<1>10. [read EXCEPT !.cr = FALSE] = read
  <2> HIDE DEF read
  <2> QED
    BY <1>8 DEF Readings
<1>11. Seen[Append(q, LF)] = read
  BY <1>5, <1>7, <1>9, <1>10
<1>12. /\ Is(event, Done) => read.over /\ read.events = events
       /\ ~Is(event, Done) => read = Between(IF event = <<>> THEN events ELSE Append(events, event))
  BY <1>5, <1>6, LineEnds
<1>13. event \in Seq(Seq(Words))
  BY <1>5, <1>6 DEF Lines
<1> HIDE DEF read
<1> QED
  BY <1>11, <1>12, <1>13 DEF event, q

(* The end of a text ends its last block.                                  *)
LEMMA LastEventIsRead ==
  ASSUME NEW D \in Seq(Plain), NEW events \in History, Seen[D] = Between(events),
         NEW block \in Seq(Plain), NoBlank(block)
  PROVE  LET event == ParsedBlock(block) IN
         EndOfLine(EndOfLine(Seen[D \o block])).events =
           IF event = <<>> \/ Is(event, Done) THEN events ELSE Append(events, event)
<1> DEFINE l == LinesOf[block]
<1>1. Seen[D \o block] = Amid(events, l) /\ l \in Lines
  BY BlockIsRead
<1>2. ParsedBlock(block) = IF l.line = <<>> THEN l.data ELSE Append(l.data, l.line)
  BY DEF ParsedBlock, Pushed
<1> HIDE DEF l
<1>3. ASSUME NEW m \in Lines, m.line = <<>>
      PROVE  LET read == EndOfLine(Amid(events, m)) IN
             /\ read.events = IF m.data = <<>> \/ Is(m.data, Done) THEN events ELSE Append(events, m.data)
             /\ EndOfLine(read).events = read.events
  <2> DEFINE read == EndOfLine(Amid(events, m))
  <2>1. /\ Is(m.data, Done) => read.over /\ read.events = events
        /\ ~Is(m.data, Done) => read = Between(IF m.data = <<>> THEN events ELSE Append(events, m.data))
        /\ read.line = <<>> /\ read.data = <<>>
        /\ read \in Readings
    BY <1>3, LineEnds, AmidTyped, EndOfLineTyped
  <2> HIDE DEF read
  <2>2. read.events = IF m.data = <<>> \/ Is(m.data, Done) THEN events ELSE Append(events, m.data)
    <3>1. ~Is(m.data, Done) => read.events = IF m.data = <<>> THEN events ELSE Append(events, m.data)
      BY <2>1 DEF Between
    <3>2. m.data = <<>> => ~Is(m.data, Done)
      BY DEF Is
    <3> QED
      BY <2>1, <3>1, <3>2
  <2>3. EndOfLine(read).events = read.events
    BY <2>1 DEF EndOfLine, Is, Readings
  <2> QED
    BY <2>2, <2>3 DEF read
<1>4. CASE l.line = <<>>
  <2>1. ParsedBlock(block) = l.data
    BY <1>2, <1>4
  <2> QED
    BY <1>1, <1>3, <1>4, <2>1
<1>5. CASE l.line # <<>>
  <2> DEFINE p == Pushed(l)
  <2>1. ParsedBlock(block) = p.data /\ p.line = <<>>
    BY <1>2, <1>5 DEF Pushed
  <2>2. p \in Lines /\ EndOfLine(Amid(events, l)) = Amid(events, p)
    BY <1>1, <1>5, LineEnds
  <2> HIDE DEF p
  <2> QED
    BY <1>1, <1>3, <2>1, <2>2
<1> QED
  BY <1>4, <1>5

(***************************************************************************)
(* The buffer: what is kept of the text that was read.                     *)
(***************************************************************************)

(* A text but for the CR that may be half of a CRLF.                       *)
Known(text, final) == IF EndsInCR(text) /\ ~final THEN Front(text) ELSE text

(* The events are those of the text before what is kept of it.             *)
Placed(events, kept, text) ==
  \E D \in Seq(Plain) : D \o kept = AllNormal[text] /\ Seen[D] = Between(events)

LEMMA PlainEndsInNoCR ==
  ASSUME NEW q \in Seq(Plain)
  PROVE  ~EndsInCR(q)
BY FrontAndLast, PlainIsTokens DEF EndsInCR

LEMMA KnownSplits ==
  ASSUME NEW text \in Seq(Tokens), NEW final \in BOOLEAN
  PROVE  /\ Known(text, final) \in Seq(Tokens)
         /\ EndsInCR(text) /\ ~final => text = Append(Known(text, final), CR)
         /\ ~(EndsInCR(text) /\ ~final) => text = Known(text, final)
BY FrontAndLast DEF Known, EndsInCR

LEMMA CarriageReturn == CR \in Tokens /\ <<CR>> \in Seq(Tokens) /\ <<CR>>[1] = CR /\ CR # LF
BY DEF Tokens, CR, LF

(* A chunk, cut from the text that follows, joins the buffer.              *)
Joins(text, chunk, final, buffer, events) ==
  LET kept == Known(buffer, FALSE)
      raw == IF EndsInCR(buffer) THEN <<CR>> \o chunk ELSE chunk
      joined == kept \o Normalized(raw, final)
  IN  /\ joined \in Seq(Tokens)
      /\ EndsInCR(joined) <=> EndsInCR(text \o chunk) /\ ~final
      /\ Known(joined, final) \in Seq(Plain)
      /\ Placed(events, Known(joined, final), Known(text \o chunk, final))
      /\ Len(joined) >= Len(kept)
      /\ \A j \in 1..Len(kept) : joined[j] = kept[j]

(* It keeps its place.                                                     *)
LEMMA JoinKeepsPlace ==
  ASSUME NEW text \in Seq(Tokens), NEW chunk \in Seq(Tokens), NEW final \in BOOLEAN,
         NEW buffer \in Seq(Tokens), NEW events,
         EndsInCR(buffer) <=> EndsInCR(text),
         Known(buffer, FALSE) \in Seq(Plain),
         Placed(events, Known(buffer, FALSE), Known(text, FALSE))
  PROVE  Joins(text, chunk, final, buffer, events)
<1> DEFINE raw == IF EndsInCR(buffer) THEN <<CR>> \o chunk ELSE chunk
           kept == Known(buffer, FALSE)
           known == Known(text, FALSE)
           new == Known(raw, final)
           joined == kept \o Normalized(raw, final)
<1>1. raw \in Seq(Tokens) /\ known \in Seq(Tokens) /\ kept \in Seq(Tokens) /\ kept \in Seq(Plain)
  BY ConcatProperties, CarriageReturn, KnownSplits
<1>2. new \in Seq(Tokens) /\ known \o raw \in Seq(Tokens)
  BY <1>1, KnownSplits, ConcatProperties
<1>3. text \o chunk = known \o raw
  <2>1. CASE EndsInCR(text)
    <3>1. text = Append(known, CR) /\ raw = <<CR>> \o chunk
      BY <2>1, KnownSplits
    <3>2. text = known \o <<CR>>
      BY <1>1, <3>1, CarriageReturn, AppendIsConcat
    <3> HIDE DEF known, raw
    <3> QED
      BY <1>1, <3>1, <3>2, CarriageReturn, ConcatAssociative
  <2>2. CASE ~EndsInCR(text)
    BY <2>2, KnownSplits
  <2> QED
    BY <2>1, <2>2
<1>4. EndsInCR(known \o raw) <=> EndsInCR(raw)
  <2>1. CASE raw = <<>>
    <3>1. ~EndsInCR(buffer)
      BY <2>1, ConcatProperties, CarriageReturn, EmptySeq
    <3>2. known = text /\ ~EndsInCR(text) /\ ~EndsInCR(raw)
      BY <2>1, <3>1, KnownSplits DEF EndsInCR
    <3> HIDE DEF known, raw
    <3> QED
      BY <1>1, <2>1, <3>2, EndsJoined
  <2>2. CASE raw # <<>>
    <3> HIDE DEF known, raw
    <3> QED
      BY <1>1, <2>2, EndsJoined
  <2> QED
    BY <2>1, <2>2
<1>5. Known(known \o raw, final) = known \o new
  <2>1. CASE EndsInCR(raw) /\ ~final
    <3>1. raw = Append(new, CR)
      BY <1>1, <2>1, KnownSplits
    <3>2. known \o raw = Append(known \o new, CR) /\ known \o new \in Seq(Tokens)
      <4> HIDE DEF known, raw, new
      <4> QED
        BY <1>1, <1>2, <3>1, CarriageReturn, ConcatAppend, ConcatProperties
    <3> HIDE DEF known, raw, new
    <3> QED
      BY <1>4, <2>1, <3>2, CarriageReturn, Appended DEF Known
  <2>2. CASE ~(EndsInCR(raw) /\ ~final)
    BY <1>1, <1>4, <2>2 DEF Known
  <2> QED
    BY <2>1, <2>2
<1>6. ~(EndsInCR(known) /\ new # <<>> /\ new[1] = LF)
  <2>1. CASE EndsInCR(buffer)
    <3>1. raw = <<CR>> \o chunk
      BY <2>1
    <3>2. raw[1] = CR
      <4>1. 1 \in 1..Len(<<CR>>) /\ Len(<<CR>>) = 1 /\ Len(chunk) \in Nat
        BY LenProperties
      <4> QED
        BY <3>1, <4>1, CarriageReturn, ConcatProperties
    <3>3. new # <<>> => new[1] = raw[1]
      <4>1. raw = new \/ raw = Append(new, CR)
        BY <1>1, KnownSplits
      <4>2. new # <<>> => Len(new) \in Nat \ {0}
        BY <1>2, EmptySeq
      <4> HIDE DEF new, raw
      <4>3. \A i \in 1..Len(new) : Append(new, CR)[i] = new[i]
        BY <1>2, CarriageReturn, AppendProperties
      <4> QED
        BY <4>1, <4>2, <4>3
    <3> HIDE DEF new, raw
    <3> QED
      BY <3>2, <3>3, CarriageReturn
  <2>2. CASE ~EndsInCR(buffer)
    BY <2>2, KnownSplits
  <2> QED
    BY <2>1, <2>2
<1>7. AllNormal[known \o new] = AllNormal[known] \o AllNormal[new]
  <2> HIDE DEF known, new
  <2> QED
    BY <1>1, <1>2, <1>6, NormalJoins
<1>8. AllNormal[new] \in Seq(Plain) /\ AllNormal[known] \in Seq(Plain)
  <2> HIDE DEF known, new
  <2> QED
    BY <1>1, <1>2, NormalSteps
<1> DEFINE settled == kept \o AllNormal[new]
<1>9. settled \in Seq(Plain) /\ settled \in Seq(Tokens)
  <2> HIDE DEF kept, new
  <2> QED
    BY <1>1, <1>8, ConcatProperties, PlainIsTokens
<1>10. joined = IF EndsInCR(raw) /\ ~final THEN Append(settled, CR) ELSE settled
  <2>1. CASE EndsInCR(raw) /\ ~final
    <3>1. joined = kept \o Append(AllNormal[new], CR)
      BY <2>1 DEF Normalized, Known
    <3>2. AllNormal[new] \in Seq(Tokens)
      BY <1>8, PlainIsTokens
    <3> HIDE DEF kept, new, joined
    <3> QED
      BY <1>1, <2>1, <3>1, <3>2, CarriageReturn, ConcatAppend
  <2>2. CASE ~(EndsInCR(raw) /\ ~final)
    BY <2>2 DEF Normalized, Known
  <2> QED
    BY <2>1, <2>2
<1>11. joined \in Seq(Tokens) /\ Known(joined, final) = settled /\ (EndsInCR(joined) <=> EndsInCR(raw) /\ ~final)
  <2> HIDE DEF joined, settled
  <2> QED
    BY <1>9, <1>10, CarriageReturn, Appended, PlainEndsInNoCR DEF Known, EndsInCR
<1>12. Placed(events, settled, known \o new)
  <2> HIDE DEF kept, known, new
  <2>1. PICK D \in Seq(Plain) : D \o kept = AllNormal[known] /\ Seen[D] = Between(events)
    BY DEF Placed, kept, known
  <2>2. D \o (kept \o AllNormal[new]) = (D \o kept) \o AllNormal[new]
    <3> DEFINE n == AllNormal[new]
    <3>1. n \in Seq(Plain) /\ kept \in Seq(Plain) /\ D \in Seq(Plain)
      BY <1>1, <1>8
    <3> HIDE DEF n
    <3>2. (D \o kept) \o n = D \o (kept \o n)
      BY <3>1, ConcatAssociative
    <3> QED
      BY <3>2 DEF n
  <2> QED
    BY <1>7, <2>1, <2>2 DEF Placed
<1>13. /\ Len(joined) >= Len(kept) /\ Len(kept) \in Nat
       /\ \A j \in 1..Len(kept) : joined[j] = kept[j]
  <2>1. Normalized(raw, final) \in Seq(Tokens)
    <3>1. Normalized(raw, final) = IF EndsInCR(raw) /\ ~final THEN Append(AllNormal[new], CR) ELSE AllNormal[new]
      BY DEF Normalized, Known
    <3>2. AllNormal[new] \in Seq(Tokens)
      BY <1>8, PlainIsTokens
    <3> HIDE DEF new, raw
    <3> QED
      BY <3>1, <3>2, CarriageReturn, AppendProperties
  <2>2. Len(kept) \in Nat /\ Len(Normalized(raw, final)) \in Nat
    BY <1>1, <2>1, LenProperties
  <2> DEFINE more == Normalized(raw, final)
  <2> HIDE DEF kept, more
  <2>3. /\ Len(kept \o more) = Len(kept) + Len(more)
        /\ \A j \in 1..Len(kept) + Len(more) : (kept \o more)[j] = IF j <= Len(kept) THEN kept[j] ELSE more[j - Len(kept)]
    BY <1>1, <2>1, ConcatProperties DEF more
  <2> QED
    BY <2>2, <2>3 DEF more
<1>14. Placed(events, Known(joined, final), Known(text \o chunk, final))
  <2> HIDE DEF joined, settled, known, new, raw
  <2> QED
    BY <1>3, <1>5, <1>11, <1>12
<1>15. EndsInCR(joined) <=> EndsInCR(text \o chunk) /\ ~final
  BY <1>3, <1>4, <1>11
<1> QED
  BY <1>9, <1>11, <1>13, <1>14, <1>15 DEF Joins

(* What Boundary finds is the first blank line after from.                 *)
LEMMA BoundaryFound ==
  ASSUME NEW buffer \in Seq(Tokens), NEW from \in Nat
  PROVE  LET at == Boundary(buffer, from) IN
         /\ at = 0 => \A j \in 1..(Len(buffer) - 1) : j > from => ~BlankAt(buffer, j)
         /\ at # 0 => /\ at \in 1..(Len(buffer) - 1) /\ BlankAt(buffer, at)
                      /\ \A j \in 1..(at - 1) : j > from => ~BlankAt(buffer, j)
<1> DEFINE ats == {i \in DOMAIN buffer : i > from /\ i < Len(buffer) /\ buffer[i] = LF /\ buffer[i + 1] = LF}
           at == Boundary(buffer, from)
<1>1. DOMAIN buffer = 1..Len(buffer) /\ Len(buffer) \in Nat
  BY LenProperties
<1>2. at = IF ats = {} THEN 0 ELSE CHOOSE i \in ats : \A j \in ats : i <= j
  BY DEF Boundary
<1>3. \A j : j \in ats <=> j \in 1..(Len(buffer) - 1) /\ j > from /\ BlankAt(buffer, j)
  BY <1>1 DEF BlankAt
<1> HIDE DEF ats, at
<1>4. CASE ats = {}
  BY <1>2, <1>3, <1>4 DEF at
<1>5. CASE ats # {}
  <2>1. \E i \in ats : \A j \in ats : i <= j
    <3> SUFFICES ASSUME \A i \in ats : \E j \in ats : j < i PROVE FALSE
      <4>1. \A i, j \in ats : i \in Nat /\ j \in Nat
        BY <1>1, <1>3
      <4> QED
        BY <4>1
    <3> DEFINE Above == {n \in Nat : \A i \in ats : i > n}
    <3>1. 0 \in Above
      BY <1>3
    <3>2. ASSUME NEW n \in Above PROVE n + 1 \in Above
      <4> SUFFICES ASSUME NEW i \in ats PROVE i > n + 1
        OBVIOUS
      <4>1. PICK j \in ats : j < i
        OBVIOUS
      <4>2. i \in Nat /\ j \in Nat /\ j > n /\ n \in Nat
        BY <1>1, <1>3
      <4> QED
        BY <4>1, <4>2
    <3>3. Above = Nat
      <4> HIDE DEF Above
      <4>1. Above \in SUBSET Nat
        BY DEF Above
      <4> QED
        BY <3>1, <3>2, <4>1, NaturalsFromZero
    <3>4. PICK i \in ats : TRUE
      BY <1>5
    <3>5. i \in Nat
      BY <1>1, <1>3
    <3>6. i \in Above
      BY <3>3, <3>5
    <3> QED
      BY <3>4, <3>5, <3>6
  <2>2. at \in ats /\ \A j \in ats : at <= j
    BY <1>2, <1>5, <2>1
  <2>3. \A j \in 1..(at - 1) : j \notin ats
    BY <1>1, <1>3, <2>2
  <2>4. \A j \in 1..(at - 1) : j > from => ~BlankAt(buffer, j)
    <3>1. at \in 1..(Len(buffer) - 1)
      BY <1>3, <2>2
    <3> QED
      BY <1>1, <1>3, <2>3, <3>1
  <2>5. at \in 1..(Len(buffer) - 1) /\ BlankAt(buffer, at) /\ at # 0
    BY <1>3, <2>2
  <2> QED
    BY <2>4, <2>5 DEF at
<1> QED
  BY <1>4, <1>5

(* The token after a block and its blank line.                             *)
LEMMA CutAtBlank ==
  ASSUME NEW kept \in Seq(Plain), NEW at \in 1..(Len(kept) - 1), BlankAt(kept, at)
  PROVE  LET block == SubSeq(kept, 1, at - 1)
             rest == SubSeq(kept, at + 2, Len(kept))
         IN  /\ block \in Seq(Plain) /\ rest \in Seq(Plain)
             /\ kept = Append(Append(block, LF), LF) \o rest
             /\ Len(block) = at - 1 /\ \A j \in 1..(at - 1) : block[j] = kept[j]
<1> DEFINE block == SubSeq(kept, 1, at - 1)
           rest == SubSeq(kept, at + 2, Len(kept))
<1>1. Len(kept) \in Nat /\ at \in Nat /\ \A i \in 1..Len(kept) : kept[i] \in Plain
  BY LenProperties, ElementOfSeq
<1>2. /\ block \in Seq(Plain) /\ Len(block) = at - 1 /\ \A j \in 1..(at - 1) : block[j] = kept[j]
  <2>1. \A i \in 1..(at - 1) : kept[i] \in Plain
    BY <1>1
  <2> QED
    BY <1>1, <2>1, SubSeqProperties
<1>3. /\ rest \in Seq(Plain) /\ Len(rest) = Len(kept) - at - 1
      /\ \A j \in 1..(Len(kept) - at - 1) : rest[j] = kept[at + 1 + j]
  <2>1. \A i \in (at + 2)..Len(kept) : kept[i] \in Plain
    BY <1>1
  <2>2. /\ rest \in Seq(Plain) /\ Len(rest) = IF at + 2 <= Len(kept) THEN Len(kept) - (at + 2) + 1 ELSE 0
        /\ \A j \in 1..(Len(kept) - (at + 2) + 1) : rest[j] = kept[(at + 2) + j - 1]
    BY <1>1, <2>1, SubSeqProperties
  <2> QED
    BY <1>1, <2>2
<1> HIDE DEF block, rest
<1> DEFINE b1 == Append(block, LF)
           b2 == Append(b1, LF)
<1>4. /\ b1 \in Seq(Plain) /\ Len(b1) = at /\ b1[at] = LF
      /\ \A j \in 1..(at - 1) : b1[j] = kept[j]
  BY <1>1, <1>2, PlainIsTokens, AppendProperties
<1> HIDE DEF b1
<1>5. /\ b2 \in Seq(Plain) /\ Len(b2) = at + 1 /\ b2[at + 1] = LF
      /\ \A j \in 1..at : b2[j] = b1[j]
  BY <1>1, <1>4, PlainIsTokens, AppendProperties
<1> HIDE DEF b2
<1>6. kept[at] = LF /\ kept[at + 1] = LF
  BY DEF BlankAt
<1>7. /\ b2 \o rest \in Seq(Plain) /\ Len(b2 \o rest) = Len(kept)
      /\ \A i \in 1..Len(kept) : (b2 \o rest)[i] = IF i <= at + 1 THEN b2[i] ELSE rest[i - (at + 1)]
  <2>1. Len(b2) + Len(rest) = Len(kept)
    BY <1>1, <1>3, <1>5
  <2>2. /\ b2 \o rest \in Seq(Plain) /\ Len(b2 \o rest) = Len(b2) + Len(rest)
        /\ \A i \in 1..Len(b2) + Len(rest) : (b2 \o rest)[i] = IF i <= Len(b2) THEN b2[i] ELSE rest[i - Len(b2)]
    BY <1>3, <1>5, ConcatProperties
  <2> QED
    BY <1>5, <2>1, <2>2
<1>8. ASSUME NEW i \in 1..Len(kept) PROVE (b2 \o rest)[i] = kept[i]
  <2>1. CASE i \in 1..(at - 1)
    BY <1>1, <1>4, <1>5, <1>7, <2>1
  <2>2. CASE i = at
    BY <1>1, <1>4, <1>5, <1>6, <1>7, <2>2
  <2>3. CASE i = at + 1
    BY <1>1, <1>5, <1>6, <1>7, <2>3
  <2>4. CASE i > at + 1
    <3>1. i - (at + 1) \in 1..(Len(kept) - at - 1) /\ at + 1 + (i - (at + 1)) = i
      BY <1>1, <2>4
    <3> QED
      BY <1>1, <1>3, <1>7, <2>4, <3>1
  <2>5. i \in 1..(at - 1) \/ i = at \/ i = at + 1 \/ i > at + 1
    BY <1>1
  <2> QED
    BY <2>1, <2>2, <2>3, <2>4, <2>5
<1>9. kept = b2 \o rest
  BY <1>7, <1>8, SeqEqual
<1> QED
  BY <1>2, <1>3, <1>9 DEF block, rest, b1, b2

(* A block that leaves the buffer leaves the rest in its place, with the   *)
(* block's event; after [DONE] there is no more.                           *)
Leaves(buffer, final, from, events, text) ==
  LET at == Boundary(buffer, from)
      event == ParsedBlock(SubSeq(buffer, 1, at - 1))
      rest == SubSeq(buffer, at + 2, Len(buffer))
  IN  /\ event \in Seq(Seq(Words))
      /\ Is(event, Done) => Seen[text].over /\ Seen[text].events = events
      /\ rest \in Seq(Tokens) /\ (EndsInCR(rest) <=> EndsInCR(buffer))
      /\ Known(rest, final) \in Seq(Plain)
      /\ ~Is(event, Done) =>
           Placed(IF event = <<>> THEN events ELSE Append(events, event), Known(rest, final), text)

LEMMA BlockLeaves ==
  ASSUME NEW buffer \in Seq(Tokens), NEW final \in BOOLEAN, NEW from \in Nat,
         NEW events \in History, NEW text \in Seq(Tokens),
         Known(buffer, final) \in Seq(Plain),
         \A j \in 1..from : ~BlankAt(buffer, j),
         Placed(events, Known(buffer, final), text),
         Boundary(buffer, from) # 0
  PROVE  Leaves(buffer, final, from, events, text)
<1> DEFINE at == Boundary(buffer, from)
           block == SubSeq(buffer, 1, at - 1)
           event == ParsedBlock(block)
           rest == SubSeq(buffer, at + 2, Len(buffer))
           kept == Known(buffer, final)
           tail == SubSeq(kept, at + 2, Len(kept))
<1>1. /\ at \in 1..(Len(buffer) - 1) /\ BlankAt(buffer, at)
      /\ \A j \in 1..(at - 1) : j > from => ~BlankAt(buffer, j)
  BY BoundaryFound
<1>2. \A j \in 1..(at - 1) : ~BlankAt(buffer, j)
  <2> HIDE DEF at
  <2> SUFFICES ASSUME NEW j \in 1..(at - 1) PROVE ~BlankAt(buffer, j)
    OBVIOUS
  <2>1. j > from \/ j \in 1..from
    OBVIOUS
  <2> QED
    BY <1>1, <2>1
<1> HIDE DEF at
<1>3. buffer = IF EndsInCR(buffer) /\ ~final THEN Append(kept, CR) ELSE kept
  BY KnownSplits
<1>4. kept \in Seq(Plain) /\ kept \in Seq(Tokens) /\ Len(kept) \in Nat /\ Len(buffer) \in Nat /\ at \in Nat
  BY <1>1, PlainIsTokens, LenProperties
<1> HIDE DEF kept
<1>5. /\ Len(kept) <= Len(buffer) /\ Len(buffer) <= Len(kept) + 1
      /\ \A j \in 1..Len(kept) : buffer[j] = kept[j]
      /\ Len(buffer) = Len(kept) + 1 => buffer[Len(kept) + 1] = CR
  BY <1>3, <1>4, CarriageReturn, AppendProperties
<1>6. at \in 1..(Len(kept) - 1) /\ BlankAt(kept, at)
  <2>1. at + 1 # Len(kept) + 1
    BY <1>1, <1>4, <1>5, CarriageReturn DEF BlankAt
  <2>2. at \in 1..(Len(kept) - 1)
    BY <1>1, <1>4, <1>5, <2>1
  <2> QED
    BY <1>1, <1>4, <1>5, <2>2 DEF BlankAt
<1>7. \A i \in 1..Len(kept) : kept[i] \in Plain /\ kept[i] \in Tokens
  BY <1>4, ElementOfSeq
<1>8. block = SubSeq(kept, 1, at - 1)
  <2>1. \A i \in 1..(at - 1) : buffer[i] = kept[i] /\ kept[i] \in Plain
    BY <1>4, <1>5, <1>6, <1>7
  <2>2. /\ block \in Seq(Plain) /\ Len(block) = at - 1 /\ \A i \in 1..(at - 1) : block[i] = buffer[i]
    <3>1. \A i \in 1..(at - 1) : buffer[i] \in Plain
      BY <2>1
    <3> QED
      BY <1>4, <1>6, <3>1, SubSeqProperties
  <2>3. /\ SubSeq(kept, 1, at - 1) \in Seq(Plain) /\ Len(SubSeq(kept, 1, at - 1)) = at - 1
        /\ \A i \in 1..(at - 1) : SubSeq(kept, 1, at - 1)[i] = kept[i]
    BY <1>4, <1>6, <2>1, SubSeqProperties
  <2> HIDE DEF block
  <2> QED
    BY <2>1, <2>2, <2>3, SeqEqual
<1>9. /\ block \in Seq(Plain) /\ tail \in Seq(Plain)
      /\ kept = Append(Append(block, LF), LF) \o tail
      /\ Len(block) = at - 1 /\ \A j \in 1..(at - 1) : block[j] = kept[j]
  BY <1>4, <1>6, <1>8, CutAtBlank
<1>10. rest = IF EndsInCR(buffer) /\ ~final THEN Append(tail, CR) ELSE tail
  <2>1. CASE ~(EndsInCR(buffer) /\ ~final)
    BY <1>3, <2>1
  <2>2. CASE EndsInCR(buffer) /\ ~final
    <3>1. Len(buffer) = Len(kept) + 1 /\ buffer[Len(kept) + 1] = CR
      BY <1>3, <1>4, <2>2, CarriageReturn, AppendProperties
    <3>2. \A i \in (at + 2)..Len(buffer) : buffer[i] \in Tokens
      BY <1>4, <1>6, ElementOfSeq
    <3>3. /\ rest \in Seq(Tokens) /\ Len(rest) = Len(kept) - at
          /\ \A j \in 1..(Len(kept) - at) : rest[j] = buffer[at + 1 + j]
      <4>1. /\ rest \in Seq(Tokens)
            /\ Len(rest) = IF at + 2 <= Len(buffer) THEN Len(buffer) - (at + 2) + 1 ELSE 0
            /\ \A j \in 1..(Len(buffer) - (at + 2) + 1) : rest[j] = buffer[(at + 2) + j - 1]
        BY <1>4, <3>2, SubSeqProperties
      <4> HIDE DEF rest
      <4> QED
        BY <1>4, <1>6, <3>1, <4>1
    <3>4. /\ tail \in Seq(Tokens) /\ Len(tail) = Len(kept) - at - 1
          /\ \A j \in 1..(Len(kept) - at - 1) : tail[j] = kept[at + 1 + j]
      <4>1. \A i \in (at + 2)..Len(kept) : kept[i] \in Tokens
        BY <1>4, <1>7
      <4>2. /\ tail \in Seq(Tokens)
            /\ Len(tail) = IF at + 2 <= Len(kept) THEN Len(kept) - (at + 2) + 1 ELSE 0
            /\ \A j \in 1..(Len(kept) - (at + 2) + 1) : tail[j] = kept[(at + 2) + j - 1]
        BY <1>4, <4>1, SubSeqProperties
      <4> HIDE DEF tail
      <4>3. Len(tail) = Len(kept) - at - 1 /\ Len(kept) - (at + 2) + 1 = Len(kept) - at - 1
        BY <1>4, <1>6, <4>2
      <4>4. \A j \in 1..(Len(kept) - at - 1) : (at + 2) + j - 1 = at + 1 + j
        BY <1>4
      <4> QED
        BY <4>2, <4>3, <4>4
    <3> DEFINE other == Append(tail, CR)
    <3>5. /\ other \in Seq(Tokens) /\ Len(other) = Len(kept) - at /\ other[Len(kept) - at] = CR
          /\ \A j \in 1..(Len(kept) - at - 1) : other[j] = tail[j]
      <4> HIDE DEF tail
      <4> QED
        BY <1>4, <1>6, <3>4, CarriageReturn, AppendProperties
    <3> HIDE DEF rest, tail, other
    <3>6. ASSUME NEW j \in 1..(Len(kept) - at) PROVE rest[j] = other[j]
      <4>1. CASE j = Len(kept) - at
        <5>1. at + 1 + j = Len(kept) + 1
          BY <1>4, <4>1
        <5> QED
          BY <3>1, <3>3, <3>5, <4>1, <5>1
      <4>2. CASE j # Len(kept) - at
        <5>1. j \in 1..(Len(kept) - at - 1) /\ at + 1 + j \in 1..Len(kept)
          BY <1>4, <1>6, <4>2
        <5> QED
          BY <1>5, <3>3, <3>4, <3>5, <5>1
      <4> QED
        BY <4>1, <4>2
    <3>7. rest = other
      BY <3>3, <3>5, <3>6, SeqEqual
    <3> QED
      BY <2>2, <3>7 DEF other
  <2> QED
    BY <2>1, <2>2
<1> HIDE DEF tail, rest
<1>11. /\ rest \in Seq(Tokens) /\ (EndsInCR(rest) <=> EndsInCR(buffer))
       /\ Known(rest, final) = tail
  <2>1. tail \in Seq(Tokens) /\ ~EndsInCR(tail) /\ ~EndsInCR(kept)
    BY <1>4, <1>9, PlainIsTokens, PlainEndsInNoCR
  <2> QED
    <3>1. CASE EndsInCR(buffer) /\ ~final
      <4>1. rest = Append(tail, CR)
        BY <1>10, <3>1
      <4>2. rest \in Seq(Tokens) /\ rest # <<>> /\ Front(rest) = tail /\ Last(rest) = CR
        BY <2>1, <4>1, CarriageReturn, AppendProperties, Appended
      <4> QED
        BY <3>1, <4>2 DEF Known, EndsInCR
    <3>2. CASE ~(EndsInCR(buffer) /\ ~final)
      <4>1. rest = tail /\ kept = buffer
        BY <1>3, <1>10, <3>2
      <4> QED
        BY <2>1, <4>1 DEF Known
    <3> QED
      BY <3>1, <3>2
<1>12. NoBlank(Append(block, LF))
  <2> HIDE DEF block
  <2>1. /\ Len(Append(block, LF)) = at /\ Append(block, LF)[at] = LF
        /\ \A j \in 1..(at - 1) : Append(block, LF)[j] = kept[j]
    BY <1>4, <1>9, PlainIsTokens, AppendProperties
  <2> SUFFICES ASSUME NEW j \in 1..(at - 1), Append(block, LF)[j] = LF, Append(block, LF)[j + 1] = LF
               PROVE  FALSE
    BY <2>1 DEF NoBlank, BlankAt
  <2>2. j \in 1..Len(kept) /\ j + 1 \in 1..Len(kept) /\ (j + 1 = at \/ j + 1 \in 1..(at - 1))
    BY <1>4, <1>6
  <2>3. kept[j] = LF /\ kept[j + 1] = LF
    BY <1>6, <2>1, <2>2 DEF BlankAt
  <2> QED
    BY <1>2, <1>5, <2>2, <2>3 DEF BlankAt
<1>13. PICK D \in Seq(Plain) : D \o kept = AllNormal[text] /\ Seen[D] = Between(events)
  BY DEF Placed, kept
<1> HIDE DEF block
<1> DEFINE E == Append(Append(D \o block, LF), LF)
<1>14. /\ E \in Seq(Plain) /\ E \o tail = AllNormal[text]
  <2>1. /\ D \o block \in Seq(Plain) /\ Append(D \o block, LF) \in Seq(Plain) /\ E \in Seq(Plain)
        /\ Append(block, LF) \in Seq(Plain) /\ Append(Append(block, LF), LF) \in Seq(Plain)
    BY <1>9, PlainIsTokens, ConcatProperties, AppendProperties
  <2>2. E = D \o Append(Append(block, LF), LF)
    <3>1. LF \in Plain
      BY PlainIsTokens
    <3>2. D \o Append(block, LF) = Append(D \o block, LF)
      BY <1>9, <3>1, ConcatAppend
    <3>3. D \o Append(Append(block, LF), LF) = Append(D \o Append(block, LF), LF)
      BY <2>1, <3>1, ConcatAppend
    <3> QED
      BY <3>2, <3>3
  <2> DEFINE c == Append(Append(block, LF), LF)
  <2>3. c \in Seq(Plain) /\ E = D \o c /\ kept = c \o tail
    BY <1>9, <2>1, <2>2
  <2> HIDE DEF c, E
  <2>4. (D \o c) \o tail = D \o (c \o tail)
    <3>1. D \in Seq(Plain) /\ c \in Seq(Plain) /\ tail \in Seq(Plain)
      BY <1>9, <2>3
    <3> QED
      BY <3>1, ConcatAssociative
  <2> QED
    BY <1>13, <2>1, <2>3, <2>4
<1>15. /\ event \in Seq(Seq(Words))
       /\ Is(event, Done) => Seen[E].over /\ Seen[E].events = events
       /\ ~Is(event, Done) => Seen[E] = Between(IF event = <<>> THEN events ELSE Append(events, event))
  BY <1>9, <1>12, <1>13, EventIsRead
<1> HIDE DEF E, event
<1>16. Is(event, Done) => Seen[text].over /\ Seen[text].events = events
  <2> SUFFICES ASSUME Is(event, Done) PROVE Seen[text].over /\ Seen[text].events = events
    OBVIOUS
  <2>1. E \in Seq(Tokens) /\ tail \in Seq(Tokens)
    BY <1>9, <1>14, PlainIsTokens
  <2>2. Seen[E \o tail].over /\ Seen[E \o tail].events = Seen[E].events
    BY <1>15, <2>1, NothingAfterDone
  <2>3. Seen[AllNormal[text]].over /\ Seen[AllNormal[text]].events = events
    BY <1>14, <1>15, <2>2
  <2>4. Seen[AllNormal[text]] = [Seen[text] EXCEPT !.cr = FALSE] /\ Seen[text] \in Readings
    BY NormalReadsAlike, SeenSteps
  <2> QED
    BY <2>3, <2>4 DEF Readings
<1>17. ~Is(event, Done) => Placed(IF event = <<>> THEN events ELSE Append(events, event), tail, text)
  BY <1>14, <1>15 DEF Placed
<1> QED
  BY <1>9, <1>11, <1>15, <1>16, <1>17 DEF Leaves, event, block, rest, at

LEMMA NoBlankKept ==
  ASSUME NEW buffer \in Seq(Tokens), NEW final \in BOOLEAN, NoBlank(buffer)
  PROVE  NoBlank(Known(buffer, final))
<1> DEFINE kept == Known(buffer, final)
<1>1. /\ kept \in Seq(Tokens) /\ Len(kept) \in Nat /\ Len(kept) <= Len(buffer) /\ Len(buffer) \in Nat
      /\ \A j \in 1..Len(kept) : kept[j] = buffer[j]
  <2>1. kept \in Seq(Tokens) /\ (buffer = kept \/ buffer = Append(kept, CR))
    BY KnownSplits
  <2> HIDE DEF kept
  <2> QED
    BY <2>1, CarriageReturn, AppendProperties, LenProperties
<1> HIDE DEF kept
<1> SUFFICES ASSUME NEW j \in 1..(Len(kept) - 1) PROVE ~BlankAt(kept, j)
  BY DEF NoBlank, kept
<1>2. j \in 1..Len(kept) /\ j + 1 \in 1..Len(kept) /\ j \in 1..(Len(buffer) - 1)
  BY <1>1
<1> QED
  BY <1>1, <1>2 DEF NoBlank, BlankAt

(* Between two reads the events are those of the text.                     *)
LEMMA PlacedEvents ==
  ASSUME NEW events \in History, NEW kept \in Seq(Plain), NEW text \in Seq(Tokens),
         Placed(events, kept, text), NoBlank(kept)
  PROVE  EventsOf(text, TRUE) = events
<1>1. PICK D \in Seq(Plain) : D \o kept = AllNormal[text] /\ Seen[D] = Between(events)
  BY DEF Placed
<1>2. Seen[D \o kept] = Amid(events, LinesOf[kept])
  BY <1>1, BlockIsRead
<1>3. Seen[AllNormal[text]].events = events
  BY <1>1, <1>2 DEF Amid
<1>4. Seen[AllNormal[text]] = [Seen[text] EXCEPT !.cr = FALSE] /\ Seen[text] \in Readings
  BY NormalReadsAlike, SeenSteps
<1> QED
  BY <1>3, <1>4 DEF Readings, EventsOf

(* At the end of the text its last block is its last event.                *)
LEMMA PlacedEnd ==
  ASSUME NEW events \in History, NEW kept \in Seq(Plain), NEW text \in Seq(Tokens),
         Placed(events, kept, text), NoBlank(kept)
  PROVE  EventsOf(text, FALSE) =
           IF ParsedBlock(kept) = <<>> \/ Is(ParsedBlock(kept), Done) THEN events
           ELSE Append(events, ParsedBlock(kept))
<1>1. PICK D \in Seq(Plain) : D \o kept = AllNormal[text] /\ Seen[D] = Between(events)
  BY DEF Placed
<1>2. EndOfLine(EndOfLine(Seen[D \o kept])).events =
        IF ParsedBlock(kept) = <<>> \/ Is(ParsedBlock(kept), Done) THEN events
        ELSE Append(events, ParsedBlock(kept))
  BY <1>1, LastEventIsRead
<1>3. Seen[AllNormal[text]] = [Seen[text] EXCEPT !.cr = FALSE] /\ Seen[text] \in Readings
  BY NormalReadsAlike, SeenSteps
<1>4. ASSUME NEW s \in Readings
      PROVE  EndOfLine([s EXCEPT !.cr = FALSE]) = [EndOfLine(s) EXCEPT !.cr = FALSE]
  BY DEF EndOfLine, Readings
<1>5. ASSUME NEW s \in Readings
      PROVE  EndOfLine(EndOfLine([s EXCEPT !.cr = FALSE])).events = EndOfLine(EndOfLine(s)).events
  <2>1. EndOfLine(s) \in Readings /\ EndOfLine(EndOfLine(s)) \in Readings
    BY EndOfLineTyped
  <2>2. EndOfLine([EndOfLine(s) EXCEPT !.cr = FALSE]) = [EndOfLine(EndOfLine(s)) EXCEPT !.cr = FALSE]
    BY <1>4, <2>1
  <2>3. EndOfLine([s EXCEPT !.cr = FALSE]) = [EndOfLine(s) EXCEPT !.cr = FALSE]
    BY <1>4
  <2> DEFINE e == EndOfLine(EndOfLine(s))
  <2>4. [e EXCEPT !.cr = FALSE].events = e.events
    <3> HIDE DEF e
    <3> QED
      BY <2>1 DEF e, Readings
  <2> QED
    BY <2>2, <2>3, <2>4
<1>6. EndOfLine(EndOfLine(Seen[AllNormal[text]])).events = EndOfLine(EndOfLine(Seen[text])).events
  BY <1>3, <1>5
<1> QED
  BY <1>1, <1>2, <1>6 DEF EventsOf

(* [DONE] ends the events of every text that goes on from there.           *)
LEMMA DoneEnds ==
  ASSUME NEW text \in Seq(Tokens), NEW more \in Seq(Tokens), Seen[text].over
  PROVE  EventsOf(text \o more, FALSE) = Seen[text].events
<1>1. text \o more \in Seq(Tokens)
  BY ConcatProperties
<1>2. Seen[text \o more].over /\ Seen[text \o more].events = Seen[text].events /\ Seen[text \o more] \in Readings
  BY <1>1, NothingAfterDone, SeenSteps
<1>3. ASSUME NEW s \in Readings, s.over
      PROVE  EndOfLine(s).over /\ EndOfLine(s).events = s.events /\ EndOfLine(s) \in Readings
  BY <1>3, EndOfLineTyped DEF EndOfLine, Readings
<1> DEFINE s == Seen[text \o more]
<1>4. EndOfLine(s).over /\ EndOfLine(s).events = s.events /\ EndOfLine(s) \in Readings
  BY <1>2, <1>3
<1>5. EndOfLine(EndOfLine(s)).events = EndOfLine(s).events
  BY <1>3, <1>4
<1> QED
  BY <1>2, <1>4, <1>5 DEF EventsOf

LEMMA NoEvents == EventsOf(<<>>, FALSE) = <<>>
<1>1. Seen[<<>>] = NothingRead
  BY SeenSteps
<1>2. EndOfLine(NothingRead).line = <<>> /\ EndOfLine(NothingRead).data = <<>> /\ EndOfLine(NothingRead).events = <<>>
  BY DEF EndOfLine, NothingRead, Is
<1>3. EndOfLine(EndOfLine(NothingRead)).events = <<>>
  <2> DEFINE e == EndOfLine(NothingRead)
  <2>1. e \in Readings /\ e.line = <<>> /\ e.data = <<>> /\ e.events = <<>>
    BY <1>1, <1>2, SeenSteps, EmptySeq, EndOfLineTyped
  <2> HIDE DEF e
  <2>2. EndOfLine(e).events = <<>>
    BY <2>1 DEF EndOfLine, Is, Readings
  <2> QED
    BY <2>2 DEF e
<1> QED
  BY <1>1, <1>3 DEF EventsOf

(***************************************************************************)
(* The call: its request and the retry.                                    *)
(***************************************************************************)

------------------------------------------------------------------------------
Unread == {"none", "token", "flight", "request", "body"}
Outcomes == {"none", "signed out", "transport", "limited", "rejected", "passed on", "rejected plan",
             "rejected shape", "returned", "raw error", "stopped"}
ClientCalls == [kind : Kinds \cup {"none"}, pc : Unread \cup {"reading", "framing", "over"}, outcome : Outcomes]
Sessions == [current : 1..MaxVersions, fresh : BOOLEAN, valid : 1..(MaxVersions + 1)]
Flights == [pc : {"none", "load", "post"}, forced : BOOLEAN, loaded : 0..MaxVersions]
Retryings == [forced : BOOLEAN, token : 0..MaxVersions, from : 0..MaxVersions, refused : Seq(0..MaxVersions)]

(* Until it is over a call has no outcome; a flight that posts has loaded a *)
(* row that was stored.                                                    *)
RequestInv ==
  /\ request \in ClientCalls
  /\ request.pc # "over" => request.outcome = "none"
  /\ request.pc = "body" => request.kind \in {"stream", "generate"}
  /\ tokens \in Sessions /\ flight \in Flights
  /\ flight.pc = "post" => flight.loaded <= tokens.current

(* A retry is forced after a refusal, of a token set that was stored, and  *)
(* waits for a flight: what it is given is no older than that, and newer   *)
(* than what the flight had loaded.                                        *)
RetryInv ==
  /\ retry \in Retryings
  /\ Len(retry.refused) <= 2
  /\ request.pc \in Unread =>
       /\ ~retry.forced => retry.refused = <<>>
       /\ retry.forced => Len(retry.refused) = 1 /\ retry.refused[1] <= tokens.current
  /\ request.pc \in {"none", "token"} => ~retry.forced
  /\ request.pc = "request" =>
       /\ retry.token <= tokens.current
       /\ retry.forced => retry.refused[1] <= retry.token /\ retry.from < retry.token
  /\ RejectedTwice

LEMMA CountsTyped ==
  /\ MaxVersions \in Nat /\ MaxVersions >= 1
  /\ FirstSession \in Sessions /\ NoFlight \in Flights /\ NoFlight.pc = "none"
  /\ NoRetry \in Retryings
  /\ NoRetry.refused = <<>> /\ ~NoRetry.forced /\ Len(<<>>) = 0
<1>1. MaxVersions \in Nat /\ MaxVersions >= 1
  BY ClientAssumption
<1>2. <<>> \in Seq(0..MaxVersions) /\ Len(<<>>) = 0
  BY EmptySeq
<1>3. FirstSession \in Sessions
  BY <1>1 DEF FirstSession, Sessions
<1>4. NoFlight \in Flights /\ NoFlight.pc = "none"
  BY <1>1 DEF NoFlight, Flights
<1>5. NoRetry \in Retryings /\ NoRetry.refused = <<>> /\ ~NoRetry.forced
  BY <1>1, <1>2 DEF NoRetry, Retryings
<1> QED
  BY <1>1, <1>2, <1>3, <1>4, <1>5

(* What has been refused is a token set.                                   *)
LEMMA RefusedTyped ==
  ASSUME RetryInv, Len(retry.refused) = 1
  PROVE  retry.refused \in Seq(0..MaxVersions) /\ retry.refused[1] \in 0..MaxVersions
<1>1. retry.refused \in Seq(0..MaxVersions) /\ 1 \in 1..Len(retry.refused)
  BY DEF RetryInv, Retryings
<1> QED
  BY <1>1, ElementOfSeq

(* The steps, by what becomes of the request and the retry.                *)
LEMMA CallStarts ==
  ASSUME RequestInv, RetryInv, NEW kinds \in SUBSET Kinds, Starts(kinds)
  PROVE  RequestInv' /\ RetryInv'
<1>1. PICK kind \in kinds : request' = [request EXCEPT !.kind = kind, !.pc = "token"]
  BY DEF Starts
<1>2. request.pc = "none" /\ request.outcome = "none" /\ UNCHANGED <<retry, stream, flight, tokens>>
  BY DEF Starts, RequestInv
<1>3. RequestInv' /\ request'.pc = "token" /\ request'.outcome = "none"
  BY <1>1, <1>2 DEF RequestInv, ClientCalls, Outcomes, Unread
<1>4. RetryInv'
  BY <1>2, <1>3 DEF RetryInv, Unread, RejectedTwice
<1> QED
  BY <1>3, <1>4

(* A call that ends, but for a second refusal.                             *)
LEMMA CallEnds ==
  ASSUME RequestInv, RetryInv, UNCHANGED <<retry, tokens>>,
         flight' \in Flights, flight'.pc = "post" => flight' = flight,
         NEW outcome \in Outcomes \ {"none", "rejected"}, request' = Over(outcome)
  PROVE  RequestInv' /\ RetryInv'
<1>1. request' = [request EXCEPT !.pc = "over", !.outcome = outcome]
  BY DEF Over
<1>2. request'.pc = "over" /\ request'.outcome = outcome /\ request' \in ClientCalls
  BY <1>1 DEF RequestInv, ClientCalls, Outcomes
<1>3. RequestInv'
  BY <1>2 DEF RequestInv
<1> QED
  BY <1>2, <1>3 DEF RetryInv, Unread, RejectedTwice

(* The call waits for a flight, or makes another request: the retry stands.*)
LEMMA RetryWaits ==
  ASSUME RequestInv, RetryInv, UNCHANGED <<retry, tokens>>,
         flight' \in Flights, flight'.pc = "post" => flight'.loaded <= tokens.current,
         \/ request' = request
         \/ request.pc = "token" /\ request' = [request EXCEPT !.pc = "flight"]
  PROVE  RequestInv' /\ RetryInv'
<1>1. CASE request' = request
  BY <1>1 DEF RequestInv, RetryInv, RejectedTwice
<1>2. CASE request.pc = "token" /\ request' = [request EXCEPT !.pc = "flight"]
  <2>1. request'.pc = "flight" /\ request'.outcome = "none" /\ request' \in ClientCalls
    BY <1>2 DEF RequestInv, ClientCalls, Outcomes, Unread
  <2>2. RequestInv'
    BY <2>1 DEF RequestInv
  <2> QED
    BY <1>2, <2>1, <2>2 DEF RetryInv, Unread, RejectedTwice
<1> QED
  BY <1>1, <1>2

LEMMA JoinsTyped ==
  ASSUME RequestInv, NEW forced \in BOOLEAN, JoinsFlight(forced)
  PROVE  flight' \in Flights /\ (flight'.pc = "post" => flight'.loaded <= tokens.current)
<1>1. CASE flight.pc = "none"
  <2>1. flight' = [pc |-> "load", forced |-> forced, loaded |-> 0]
    BY <1>1 DEF JoinsFlight, NoFlight
  <2> QED
    BY <2>1, CountsTyped DEF Flights
<1>2. CASE flight.pc # "none"
  BY <1>2 DEF JoinsFlight, RequestInv
<1> QED
  BY <1>1, <1>2

(* A call is given the token set that is stored, or has just been: after a *)
(* refusal, one newer than what its flight had loaded.                     *)
LEMMA TokenIsGiven ==
  ASSUME RequestInv, RetryInv, request.pc \in {"token", "flight"},
         NEW loaded \in 0..MaxVersions, Gets(tokens'.current, loaded),
         retry.forced => loaded < tokens'.current,
         tokens' \in Sessions, tokens.current <= tokens'.current,
         flight' \in Flights, flight'.pc = "post" => flight'.loaded <= tokens'.current
  PROVE  RequestInv' /\ RetryInv'
<1> DEFINE version == tokens'.current
<1>1. /\ tokens.current \in Nat /\ version \in 0..MaxVersions /\ version \in Nat
      /\ MaxVersions \in Nat /\ loaded \in Nat /\ tokens.current <= version
      /\ request.outcome = "none" /\ request.pc \in Unread
      /\ retry.forced => loaded < version
  BY CountsTyped DEF RequestInv, Sessions, Unread
<1>2. request' = [request EXCEPT !.pc = "request"] /\ retry' = [retry EXCEPT !.token = version, !.from = loaded]
  BY DEF Gets
<1>3. request' \in ClientCalls /\ request'.pc = "request" /\ request'.outcome = "none"
  BY <1>1, <1>2 DEF RequestInv, ClientCalls, Outcomes, Unread
<1>4. RequestInv'
  BY <1>3 DEF RequestInv
<1>5. /\ retry' \in Retryings
      /\ retry'.refused = retry.refused /\ retry'.forced = retry.forced
      /\ retry'.token = version /\ retry'.from = loaded
  <2> HIDE DEF version
  <2> QED
    BY <1>1, <1>2 DEF RetryInv, Retryings
<1>6. /\ ~retry.forced => retry.refused = <<>>
      /\ retry.forced => Len(retry.refused) = 1 /\ retry.refused[1] <= tokens.current
      /\ Len(retry.refused) <= 2
  BY <1>1 DEF RetryInv
<1>7. retry.forced => retry.refused[1] <= version
  <2>1. retry.forced => retry.refused[1] \in Nat
    BY <1>6, RefusedTyped
  <2> HIDE DEF version
  <2> QED
    BY <1>1, <1>6, <2>1
<1>8. RejectedTwice'
  BY <1>3 DEF RejectedTwice
<1>9. version <= tokens'.current
  BY <1>1
<1> HIDE DEF version
<1>10. /\ Len(retry'.refused) <= 2
       /\ ~retry'.forced => retry'.refused = <<>>
       /\ retry'.forced => Len(retry'.refused) = 1 /\ retry'.refused[1] <= tokens'.current
       /\ retry'.token <= tokens'.current
       /\ retry'.forced => retry'.refused[1] <= retry'.token /\ retry'.from < retry'.token
  BY <1>1, <1>5, <1>6, <1>7, <1>9 DEF version
<1> QED
  BY <1>3, <1>4, <1>5, <1>8, <1>10 DEF RetryInv

(* The session moves on; the call is where it was.                         *)
LEMMA SessionMoves ==
  ASSUME RequestInv, RetryInv, UNCHANGED <<request, retry>>,
         tokens' \in Sessions, tokens.current <= tokens'.current,
         flight' \in Flights, flight'.pc = "post" => flight'.loaded <= tokens'.current
  PROVE  RequestInv' /\ RetryInv'
<1>1. tokens.current \in Nat /\ tokens'.current \in Nat /\ retry.token \in Nat
  BY DEF RequestInv, RetryInv, Sessions, Retryings
<1>2. RequestInv'
  BY DEF RequestInv
<1>3. /\ (request.pc \in Unread /\ retry.forced) => (Len(retry.refused) = 1 /\ retry.refused[1] <= tokens'.current)
      /\ request.pc = "request" => retry.token <= tokens'.current
  <2>1. (request.pc \in Unread /\ retry.forced) => (Len(retry.refused) = 1 /\ retry.refused[1] \in Nat)
    BY RefusedTyped DEF RetryInv
  <2> QED
    BY <1>1, <2>1 DEF RetryInv
<1> QED
  BY <1>2, <1>3 DEF RetryInv, RejectedTwice

LEMMA SecondAppended ==
  ASSUME NEW A, NEW q \in Seq(A), Len(q) = 1, NEW a \in A
  PROVE  LET two == Append(q, a) IN two \in Seq(A) /\ Len(two) = 2 /\ two[1] = q[1] /\ two[2] = a
<1>1. /\ Append(q, a) \in Seq(A) /\ Len(Append(q, a)) = Len(q) + 1
      /\ \A i \in 1..Len(q) : Append(q, a)[i] = q[i]
      /\ Append(q, a)[Len(q) + 1] = a
  BY AppendProperties, ZenonT(30)
<1>2. 1 \in 1..Len(q) /\ Len(q) + 1 = 2
  OBVIOUS
<1> QED
  BY <1>1, <1>2

(* The first refusal asks for another; the second is the end.              *)
LEMMA TokenIsRefused ==
  ASSUME RequestInv, RetryInv, Unauthorized
  PROVE  RequestInv' /\ RetryInv'
<1>1. request.pc = "request" /\ request.outcome = "none" /\ UNCHANGED <<stream, tokens>> /\ Retries
  BY DEF Unauthorized, RequestInv
<1>2. /\ retry \in Retryings /\ retry.token <= tokens.current
      /\ retry.forced => Len(retry.refused) = 1 /\ retry.refused[1] <= retry.token /\ retry.from < retry.token
      /\ tokens.current \in 0..MaxVersions
      /\ retry.token \in 0..MaxVersions /\ MaxVersions \in Nat
  BY <1>1, CountsTyped DEF RetryInv, RequestInv, Unread, Retryings, Sessions
<1>3. CASE retry.forced
  <2>1. /\ request' = [request EXCEPT !.pc = "over", !.outcome = "rejected"]
        /\ retry' = [retry EXCEPT !.refused = Append(retry.refused, retry.token)]
        /\ UNCHANGED flight
    BY <1>1, <1>3 DEF Retries, Over
  <2>2. request' \in ClientCalls /\ request'.pc = "over" /\ request'.outcome = "rejected"
    BY <1>1, <2>1 DEF RequestInv, ClientCalls, Outcomes
  <2>3. RequestInv'
    BY <1>1, <2>1, <2>2 DEF RequestInv
  <2> DEFINE refused == Append(retry.refused, retry.token)
  <2>4. retry.refused \in Seq(0..MaxVersions) /\ Len(retry.refused) = 1
    BY <1>2, <1>3, RefusedTyped
  <2>5. /\ refused \in Seq(0..MaxVersions) /\ Len(refused) = 2
        /\ refused[1] = retry.refused[1] /\ refused[2] = retry.token
    <3>1. retry.token \in 0..MaxVersions
      BY <1>2
    <3> HIDE DEF refused
    <3> QED
      BY <2>4, <3>1, SecondAppended DEF refused
  <2> HIDE DEF refused
  <2>6. retry' \in Retryings /\ retry'.refused = refused /\ retry'.from = retry.from
    BY <1>2, <2>1, <2>5 DEF refused, Retryings
  <2>7. /\ RejectedTwice' /\ Len(retry'.refused) <= 2
    <3>1. Len(retry'.refused) = 2
      BY <2>5, <2>6
    <3>2. retry'.refused[1] <= retry'.refused[2] /\ retry'.from < retry'.refused[2]
      BY <1>2, <1>3, <2>5, <2>6
    <3> QED
      BY <3>1, <3>2 DEF RejectedTwice
  <2>8. request'.pc \notin Unread /\ request'.pc \notin {"none", "token"} /\ request'.pc # "request"
    BY <2>2 DEF Unread
  <2> QED
    BY <2>3, <2>6, <2>7, <2>8 DEF RetryInv
<1>4. CASE ~retry.forced /\ request' = Over("signed out") /\ UNCHANGED <<retry, flight>>
  BY <1>1, <1>4, CallEnds DEF Outcomes, RequestInv
<1>5. CASE /\ ~retry.forced /\ request' = [request EXCEPT !.pc = "flight"]
           /\ retry' = [retry EXCEPT !.forced = TRUE, !.refused = <<retry.token>>]
           /\ JoinsFlight(TRUE)
  <2>1. request' \in ClientCalls /\ request'.pc = "flight" /\ request'.outcome = "none"
    BY <1>1, <1>5 DEF RequestInv, ClientCalls, Outcomes, Unread
  <2>2. RequestInv'
    BY <1>1, <1>5, <2>1, JoinsTyped DEF RequestInv
  <2> DEFINE refused == <<retry.token>>
  <2>3. Len(refused) = 1 /\ refused[1] = retry.token /\ refused \in Seq(0..MaxVersions)
    BY <1>2
  <2> HIDE DEF refused
  <2>4. retry' \in Retryings /\ retry'.forced /\ retry'.refused = refused
    BY <1>2, <1>5, <2>3 DEF refused, Retryings
  <2>5. Len(retry'.refused) = 1 /\ retry'.refused[1] <= tokens'.current
    BY <1>1, <1>2, <2>3, <2>4
  <2>6. RejectedTwice'
    BY <2>1 DEF RejectedTwice
  <2> QED
    BY <2>1, <2>2, <2>4, <2>5, <2>6 DEF RetryInv
<1> QED
  BY <1>1, <1>3, <1>4, <1>5 DEF Retries

------------------------------------------------------------------------------
(* The flight's steps.                                                     *)
LEMMA FlightKeeps ==
  ASSUME RequestInv, RetryInv, Flight
  PROVE  RequestInv' /\ RetryInv'
<1>1. /\ tokens \in Sessions /\ tokens.current \in 1..MaxVersions /\ flight \in Flights
      /\ MaxVersions \in Nat /\ NoFlight \in Flights /\ NoFlight.pc # "post"
      /\ flight.loaded \in 0..MaxVersions /\ (flight.pc = "post" => flight.loaded <= tokens.current)
  BY CountsTyped DEF RequestInv, Sessions, Flights
<1>2. CASE FlightLoads
  <2>1. flight' \in Flights /\ flight'.loaded = tokens.current
    <3>1. flight' = [pc |-> "post", forced |-> flight.forced, loaded |-> tokens.current]
      BY <1>1, <1>2 DEF FlightLoads, Flights
    <3>2. tokens.current \in 0..MaxVersions /\ flight.forced \in BOOLEAN
      BY <1>1 DEF Flights
    <3> QED
      BY <3>1, <3>2 DEF Flights
  <2>2. flight'.loaded <= tokens.current
    BY <1>1, <2>1
  <2> QED
    BY <1>2, <2>1, <2>2, RetryWaits DEF FlightLoads
<1>3. CASE FlightSkips
  <2>1. CASE Waits /\ ~retry.forced
    <3>1. /\ Gets(tokens'.current, tokens.current) /\ tokens' = tokens /\ flight' = NoFlight
          /\ request.pc \in {"token", "flight"}
      BY <1>3, <2>1 DEF FlightSkips, Waits
    <3>2. tokens.current \in 0..MaxVersions /\ tokens.current <= tokens'.current
      BY <1>1, <3>1
    <3> QED
      BY <1>1, <2>1, <3>1, <3>2, TokenIsGiven
  <2>2. CASE ~Waits \/ retry.forced
    <3>1. UNCHANGED <<request, retry, tokens>>
      BY <1>3, <2>2 DEF FlightSkips
    <3>2. flight' = NoFlight \/ flight' = [NoFlight EXCEPT !.pc = "load", !.forced = TRUE]
      BY <1>3 DEF FlightSkips
    <3>3. flight' \in Flights /\ flight'.pc # "post"
      BY <1>1, <3>2 DEF Flights
    <3> QED
      BY <3>1, <3>3, RetryWaits
  <2> QED
    BY <2>1, <2>2
<1>4. CASE FlightStores \/ FlightAdopts
  <2>1. /\ tokens' \in Sessions /\ tokens.current <= tokens'.current /\ flight' = NoFlight
        /\ flight.loaded < tokens'.current /\ Settles(tokens'.current)
    <3>1. CASE FlightStores
      <4>1. /\ tokens' = [tokens EXCEPT !.current = tokens.current + 1, !.fresh = TRUE]
            /\ tokens.current < MaxVersions /\ flight.loaded = tokens.current
            /\ flight' = NoFlight /\ Settles(tokens.current + 1)
        BY <3>1 DEF FlightStores
      <4>2. tokens' \in Sessions /\ tokens'.current = tokens.current + 1
        <5>1. tokens' = [current |-> tokens.current + 1, fresh |-> TRUE, valid |-> tokens.valid]
          BY <1>1, <4>1 DEF Sessions
        <5>2. tokens.current + 1 \in 1..MaxVersions /\ tokens.valid \in 1..(MaxVersions + 1)
          BY <1>1, <4>1 DEF Sessions
        <5> QED
          BY <5>1, <5>2 DEF Sessions
      <4> QED
        BY <1>1, <4>1, <4>2
    <3>2. CASE FlightAdopts
      <4>1. /\ tokens' = tokens /\ flight.pc = "post" /\ flight.loaded # tokens.current
            /\ flight' = NoFlight /\ Settles(tokens.current)
        BY <3>2 DEF FlightAdopts
      <4> QED
        BY <1>1, <4>1
    <3> QED
      BY <1>4, <3>1, <3>2
  <2>2. CASE Waits
    <3>1. Gets(tokens'.current, flight.loaded) /\ request.pc \in {"token", "flight"}
      BY <2>1, <2>2 DEF Settles, Waits
    <3> QED
      BY <1>1, <2>1, <3>1, TokenIsGiven
  <2>3. CASE ~Waits
    <3>1. UNCHANGED <<request, retry>>
      BY <2>1, <2>3 DEF Settles
    <3> QED
      BY <1>1, <2>1, <3>1, SessionMoves
  <2> QED
    BY <2>2, <2>3
<1>5. CASE FlightFails
  <2>1. UNCHANGED <<retry, tokens>> /\ flight' = NoFlight
    BY <1>5 DEF FlightFails
  <2>2. CASE Waits
    BY <1>1, <1>5, <2>1, <2>2, CallEnds DEF FlightFails, Outcomes
  <2>3. CASE ~Waits
    BY <1>1, <1>5, <2>1, <2>3, RetryWaits DEF FlightFails
  <2> QED
    BY <2>2, <2>3
<1> QED
  BY <1>2, <1>3, <1>4, <1>5 DEF Flight

LEMMA RetryIsOver ==
  ASSUME RequestInv, retry' = NoRetry, tokens' = FirstSession, flight' = NoFlight,
         request'.pc \in {"body", "over"}, request'.outcome # "rejected", request' \in ClientCalls,
         request'.pc = "body" => request'.outcome = "none" /\ request'.kind \in {"stream", "generate"}
  PROVE  RequestInv' /\ RetryInv'
<1>1. RequestInv'
  BY CountsTyped DEF RequestInv
<1> QED
  BY <1>1, CountsTyped DEF RetryInv, RejectedTwice

LEMMA AnswerEndsRetry ==
  ASSUME RequestInv, RetryInv,
         \/ StreamRefused \/ StreamAccepted \/ SdkAnswered \/ ImageAnswered \/ LiveAnswered
  PROVE  RequestInv' /\ RetryInv'
<1> DEFINE Endings == {"limited", "transport", "passed on", "rejected plan", "rejected shape", "returned", "raw error"}
<1>1. retry' = NoRetry /\ tokens' = FirstSession /\ flight' = NoFlight /\ request.outcome = "none"
  BY DEF StreamRefused, StreamAccepted, SdkAnswered, ImageAnswered, LiveAnswered, AnsweredTo,
         RequestInv
<1>2. \/ request' = [request EXCEPT !.pc = "body"] /\ request.kind \in {"stream", "generate"}
      \/ \E outcome \in Endings : request' = [request EXCEPT !.pc = "over", !.outcome = outcome]
  BY DEF StreamRefused, StreamAccepted, SdkAnswered, ImageAnswered, LiveAnswered, AnsweredTo, Accepted, Over
<1>3. /\ request'.pc \in {"body", "over"} /\ request'.outcome # "rejected" /\ request' \in ClientCalls
      /\ request'.pc = "body" => request'.outcome = "none" /\ request'.kind \in {"stream", "generate"}
  BY <1>1, <1>2 DEF RequestInv, ClientCalls, Outcomes, Unread
<1> QED
  BY <1>1, <1>3, RetryIsOver

(* While the body is read, the retry stands.                               *)
LEMMA BodyIsRead ==
  ASSUME RequestInv, RetryInv,
         Reads \/ (\E n \in Nat : Read(n)) \/ ReadEnd \/ StreamFails \/ Frame \/ Framed
  PROVE  RequestInv' /\ RetryInv'
<1>1. UNCHANGED <<retry, flight, tokens>> /\ request.pc \in {"body", "reading", "framing"} /\ request.outcome = "none"
  BY DEF Reads, Read, ReadEnd, StreamFails, Frame, Framed, RequestInv
<1>2. \/ UNCHANGED request
      \/ \E pc \in {"reading", "framing"} : request' = [request EXCEPT !.pc = pc]
      \/ \E outcome \in {"returned", "stopped", "raw error", "transport"} : request' = Over(outcome)
  BY DEF Reads, Read, ReadEnd, StreamFails, Frame, Framed, Ended
<1>3. CASE UNCHANGED request
  BY <1>1, <1>3 DEF RequestInv, RetryInv, RejectedTwice
<1>4. ASSUME NEW pc \in {"reading", "framing"}, request' = [request EXCEPT !.pc = pc]
      PROVE  RequestInv' /\ RetryInv'
  <2>1. request' \in ClientCalls /\ request'.pc = pc /\ request'.outcome = "none"
    BY <1>1, <1>4 DEF RequestInv, ClientCalls, Outcomes
  <2>2. RequestInv'
    BY <1>1, <1>4, <2>1 DEF RequestInv
  <2> QED
    BY <1>1, <1>4, <2>1, <2>2 DEF RetryInv, Unread, RejectedTwice
<1>5. ASSUME NEW outcome \in {"returned", "stopped", "raw error", "transport"}, request' = Over(outcome)
      PROVE  RequestInv' /\ RetryInv'
  <2>1. flight' \in Flights /\ flight' = flight
    BY <1>1 DEF RequestInv
  <2> QED
    BY <1>1, <1>5, <2>1, CallEnds DEF Outcomes
<1> QED
  BY <1>2, <1>3, <1>4, <1>5

LEMMA RetryStep ==
  ASSUME RequestInv, RetryInv, [ClientNext]_ClientVars
  PROVE  RequestInv' /\ RetryInv'
<1>1. CASE StreamCalled \/ SdkCalled \/ ImageCalled \/ LiveCalled
  BY <1>1, CallStarts DEF StreamCalled, SdkCalled, ImageCalled, LiveCalled, Kinds
<1>2. CASE EditCalled
  <2>1. CASE Starts({"edit"})
    BY <2>1, CallStarts DEF Kinds
  <2>2. CASE /\ request.pc = "none" /\ request' = [Over("transport") EXCEPT !.kind = "edit"]
             /\ UNCHANGED <<retry, stream, flight, tokens>>
    <3>1. request' \in ClientCalls /\ request'.pc = "over" /\ request'.outcome = "transport"
      BY <2>2 DEF RequestInv, Over, Kinds, ClientCalls, Outcomes
    <3>2. RequestInv'
      BY <2>2, <3>1 DEF RequestInv
    <3> QED
      BY <2>2, <3>1, <3>2 DEF RetryInv, Unread, RejectedTwice
  <2> QED
    BY <1>2, <2>1, <2>2 DEF EditCalled
<1>3. CASE TokenGiven
  <2>1. /\ request.pc = "token" /\ ~retry.forced /\ UNCHANGED <<flight, tokens>>
        /\ Gets(tokens'.current, tokens.current)
    BY <1>3 DEF TokenGiven, RetryInv
  <2>2. /\ tokens' \in Sessions /\ flight' \in Flights /\ tokens.current <= tokens'.current
        /\ tokens.current \in 0..MaxVersions /\ (flight'.pc = "post" => flight'.loaded <= tokens'.current)
    BY <2>1, CountsTyped DEF RequestInv, Sessions
  <2> QED
    BY <2>1, <2>2, TokenIsGiven
<1>4. CASE TokenStale
  BY <1>4, JoinsTyped, RetryWaits DEF TokenStale
<1>5. CASE SessionThrows \/ RequestFails
  BY <1>5, CallEnds DEF SessionThrows, RequestFails, Outcomes, RequestInv
<1>6. CASE Unauthorized
  BY <1>6, TokenIsRefused
<1>7. CASE \/ StreamRefused \/ StreamAccepted \/ SdkAnswered \/ ImageAnswered \/ LiveAnswered
  BY <1>7, AnswerEndsRetry
<1>8. CASE Reads \/ Delivers \/ Frame \/ Framed \/ Read(0)
  <2>1. Reads \/ (\E n \in Nat : Read(n)) \/ ReadEnd \/ StreamFails \/ Frame \/ Framed
    <3>1. MaxChunk \in Nat /\ 1..MaxChunk \subseteq Nat /\ 0 \in Nat
      BY ClientAssumption
    <3> QED
      BY <1>8, <3>1 DEF Delivers
  <2> QED
    BY <2>1, BodyIsRead
<1>9. CASE Flight
  BY <1>9, FlightKeeps
<1>10. CASE OthersAsk
  BY <1>10, JoinsTyped, RetryWaits DEF OthersAsk
<1>11. CASE StoredElsewhere \/ GoesStale \/ Expires
  <2>1. UNCHANGED <<request, retry, flight>>
    BY <1>11 DEF StoredElsewhere, GoesStale, Expires
  <2>2. /\ tokens \in Sessions /\ tokens.current \in 1..MaxVersions /\ tokens.valid \in 1..(MaxVersions + 1)
        /\ MaxVersions \in Nat /\ flight \in Flights /\ (flight.pc = "post" => flight.loaded <= tokens.current)
        /\ flight.loaded \in Nat
    BY CountsTyped DEF RequestInv, Sessions, Flights
  <2>3. tokens' \in Sessions /\ tokens.current <= tokens'.current
    <3>1. CASE StoredElsewhere
      <4>1. tokens' = [current |-> tokens.current + 1, fresh |-> TRUE, valid |-> tokens.valid]
        BY <2>2, <3>1 DEF StoredElsewhere, Sessions
      <4>2. tokens.current + 1 \in 1..MaxVersions /\ tokens.current <= tokens.current + 1
        BY <2>2, <3>1 DEF StoredElsewhere
      <4> QED
        BY <2>2, <4>1, <4>2 DEF Sessions
    <3>2. CASE GoesStale
      <4>1. tokens' = [current |-> tokens.current, fresh |-> FALSE, valid |-> tokens.valid]
        BY <2>2, <3>2 DEF GoesStale, Sessions
      <4> QED
        BY <2>2, <4>1 DEF Sessions
    <3>3. CASE Expires
      <4>1. tokens' = [current |-> tokens.current, fresh |-> tokens.fresh, valid |-> tokens.valid + 1]
        BY <2>2, <3>3 DEF Expires, Sessions
      <4>2. tokens.valid + 1 \in 1..(MaxVersions + 1) /\ tokens.fresh \in BOOLEAN
        BY <2>2, <3>3 DEF Expires, Sessions
      <4> QED
        BY <2>2, <4>1, <4>2 DEF Sessions
    <3> QED
      BY <1>11, <3>1, <3>2, <3>3
  <2>4. flight' \in Flights /\ (flight'.pc = "post" => flight'.loaded <= tokens'.current)
    <3>1. tokens'.current \in Nat
      BY <2>2, <2>3 DEF Sessions
    <3> QED
      BY <2>1, <2>2, <2>3, <3>1
  <2> QED
    BY <2>1, <2>2, <2>3, <2>4, SessionMoves
<1>12. CASE UNCHANGED ClientVars
  BY <1>12 DEF ClientVars, RequestInv, RetryInv, RejectedTwice
<1> QED
  BY <1>1, <1>2, <1>3, <1>4, <1>5, <1>6, <1>7, <1>8, <1>9, <1>10, <1>11, <1>12 DEF ClientNext, Work

LEMMA RetryStarts ==
  ASSUME ClientInit
  PROVE  RequestInv /\ RetryInv
<1>1. /\ request = [kind |-> "none", pc |-> "none", outcome |-> "none"] /\ retry = NoRetry
      /\ flight = NoFlight /\ tokens = FirstSession
  BY DEF ClientInit
<1>2. request \in ClientCalls /\ request.pc = "none" /\ request.outcome = "none"
  BY <1>1 DEF ClientCalls, Outcomes, Unread
<1>3. RequestInv
  BY <1>1, <1>2, CountsTyped DEF RequestInv
<1> QED
  BY <1>1, <1>2, <1>3, CountsTyped DEF RetryInv, RejectedTwice

(* A caller is told its sign-in was rejected only after two refusals, the  *)
(* second of what a refresh of an older token set came to (withAuthRetry,  *)
(* client.ts:69, over inFlight and refreshOne, lifecycle.ts:89-135): the   *)
(* retry is never given an older token set than the one refused, nor the   *)
(* row as it found it.                                                     *)
THEOREM OnlyRejectedTwice == ClientSpec => []RejectedTwice
<1>1. ClientInit => RequestInv /\ RetryInv
  BY RetryStarts
<1>2. RequestInv /\ RetryInv /\ [ClientNext]_ClientVars => RequestInv' /\ RetryInv'
  BY RetryStep
<1>3. RetryInv => RejectedTwice
  BY DEF RetryInv
<1> QED
  BY <1>1, <1>2, <1>3, PTL DEF ClientSpec

(***************************************************************************)
(* The call: its stream.                                                   *)
(***************************************************************************)

Text == SubSeq(stream.body, 1, stream.got)
Kept == Known(stream.buffer, stream.final)

StreamTyped ==
  stream \in [body : Seq(Tokens), got : Nat, final : BOOLEAN, buffer : Seq(Tokens), from : Nat, events : History]

(* The buffer is what is kept of the text read, all but its events.        *)
BufferInv ==
  /\ request.kind \in {"stream", "generate"}
  /\ stream.final => stream.got = Len(stream.body)
  /\ EndsInCR(stream.buffer) <=> EndsInCR(Text) /\ ~stream.final
  /\ Kept \in Seq(Plain)
  /\ Placed(stream.events, Kept, Known(Text, stream.final))

EndInv ==
  /\ \/ request.kind = "stream" /\ request.outcome = "returned"
     \/ request.kind = "generate" /\ request.outcome \in {"returned", "transport"}
     => stream.events = EventsOf(stream.body, FALSE)
  /\ request.kind = "generate" /\ request.outcome = "returned" => HasCompleted(stream.events)

StreamInv ==
  /\ StreamTyped /\ stream.got <= Len(stream.body)
  /\ request.pc \in Unread => stream = NoStream
  /\ request.pc \in {"reading", "framing"} => BufferInv
  /\ request.pc = "reading" => ~stream.final /\ NoBlank(Kept)
  /\ request.pc = "framing" => \A j \in 1..stream.from : ~BlankAt(stream.buffer, j)
  /\ request.pc = "over" => EndInv

LEMMA TextTyped ==
  ASSUME StreamTyped, stream.got <= Len(stream.body)
  PROVE  Text \in Seq(Tokens) /\ stream.got \in 0..Len(stream.body) /\ Len(Text) = stream.got
<1>1. stream.body \in Seq(Tokens) /\ stream.got \in Nat /\ Len(stream.body) \in Nat
  BY LenProperties DEF StreamTyped
<1>2. \A i \in 1..stream.got : stream.body[i] \in Tokens
  BY <1>1, ElementOfSeq
<1> QED
  BY <1>1, <1>2, SubSeqProperties DEF Text

LEMMA NoStreamFits ==
  /\ NoStream \in [body : Seq(Tokens), got : Nat, final : BOOLEAN, buffer : Seq(Tokens), from : Nat, events : History]
  /\ NoStream.body = <<>> /\ NoStream.got = 0 /\ NoStream.events = <<>> /\ Len(<<>>) = 0
BY EmptySeq DEF NoStream, History

(* A body begins.                                                          *)
LEMMA BodyBegins ==
  ASSUME RequestInv, StreamInv, Reads
  PROVE  StreamInv'
<1>1. /\ request.kind \in {"stream", "generate"} /\ request'.kind = request.kind
      /\ request'.pc = "reading"
  BY DEF Reads, RequestInv, ClientCalls
<1>2. PICK body \in Bodies : stream' = [NoStream EXCEPT !.body = body]
  BY DEF Reads
<1>3. body \in Seq(Tokens) /\ Len(body) \in Nat
  <2>1. PICK n \in Nat : body \in [1..n -> Tokens]
    BY ClientAssumption DEF Bodies
  <2>2. body \in Seq(Tokens)
    BY <2>1, SeqDef
  <2> QED
    BY <2>2, LenProperties
<1>4. stream' = [body |-> body, got |-> 0, final |-> FALSE, buffer |-> <<>>, from |-> 0, events |-> <<>>]
  BY <1>2 DEF NoStream
<1>5. StreamTyped' /\ stream'.got <= Len(stream'.body)
  BY <1>3, <1>4, NoStreamFits DEF StreamTyped, NoStream
<1>6. Text' = <<>> /\ ~EndsInCR(<<>>) /\ Kept' = <<>> /\ Known(Text', FALSE) = <<>>
  BY <1>4, SubSeqEmpty DEF Text, Kept, Known, EndsInCR
<1>7. Placed(<<>>, <<>>, <<>>)
  <2>1. <<>> \in Seq(Plain) /\ <<>> \o <<>> = <<>> /\ AllNormal[<<>>] = <<>> /\ Seen[<<>>] = NothingRead
    BY EmptySeq, ConcatEmptySeq, NormalSteps, SeenSteps
  <2> QED
    BY <2>1 DEF Placed, Between, NothingRead
<1>8. BufferInv'
  BY <1>1, <1>4, <1>6, <1>7, EmptySeq DEF BufferInv
<1>9. NoBlank(<<>>)
  BY NoStreamFits DEF NoBlank
<1> QED
  BY <1>1, <1>4, <1>5, <1>6, <1>8, <1>9 DEF StreamInv, Unread

(* A chunk, or the end of the body, joins the buffer.                      *)
LEMMA ChunkJoins ==
  ASSUME StreamInv, request.pc = "reading",
         NEW chunk \in Seq(Tokens), NEW final \in BOOLEAN,
         stream' = Joined(chunk, final),
         stream.got + Len(chunk) <= Len(stream.body),
         chunk = SubSeq(stream.body, stream.got + 1, stream.got + Len(chunk)),
         final => stream.got + Len(chunk) = Len(stream.body),
         request' = [request EXCEPT !.pc = "framing"], request'.pc = "framing", request'.kind = request.kind
  PROVE  StreamInv'
<1> DEFINE kept == Known(stream.buffer, FALSE)
           raw == IF EndsInCR(stream.buffer) THEN <<CR>> \o chunk ELSE chunk
           joined == kept \o Normalized(raw, final)
           from == IF kept = <<>> THEN 0 ELSE Len(kept) - 1
<1>1. /\ StreamTyped /\ stream.got <= Len(stream.body) /\ BufferInv /\ ~stream.final /\ NoBlank(Kept)
      /\ stream.buffer \in Seq(Tokens) /\ stream.body \in Seq(Tokens) /\ stream.got \in Nat /\ stream.events \in History
      /\ Len(stream.body) \in Nat /\ Len(chunk) \in Nat
  BY LenProperties DEF StreamInv, StreamTyped
<1>2. stream' = [stream EXCEPT !.got = @ + Len(chunk), !.final = final, !.buffer = joined, !.from = from]
  BY DEF Joined, Known
<1>3. kept = Kept /\ Known(Text, stream.final) = Known(Text, FALSE)
  BY <1>1 DEF Kept, Known
<1>4. Text \in Seq(Tokens) /\ stream.got \in 0..Len(stream.body)
  BY <1>1, TextTyped
<1> HIDE DEF kept, raw, joined, from
<1>5. /\ EndsInCR(stream.buffer) <=> EndsInCR(Text)
      /\ kept \in Seq(Plain)
      /\ Placed(stream.events, kept, Known(Text, FALSE))
      /\ NoBlank(kept)
  BY <1>1, <1>3 DEF BufferInv
<1>6. /\ joined \in Seq(Tokens)
      /\ EndsInCR(joined) <=> EndsInCR(Text \o chunk) /\ ~final
      /\ Known(joined, final) \in Seq(Plain)
      /\ Placed(stream.events, Known(joined, final), Known(Text \o chunk, final))
      /\ Len(joined) >= Len(kept)
      /\ \A j \in 1..Len(kept) : joined[j] = kept[j]
  <2> DEFINE text == Text
             buffer == stream.buffer
             events == stream.events
  <2>1. /\ text \in Seq(Tokens) /\ buffer \in Seq(Tokens) /\ (EndsInCR(buffer) <=> EndsInCR(text))
        /\ Known(buffer, FALSE) \in Seq(Plain)
        /\ Placed(events, Known(buffer, FALSE), Known(text, FALSE))
    BY <1>1, <1>4, <1>5 DEF kept
  <2> HIDE DEF text, buffer, events
  <2>2. Joins(text, chunk, final, buffer, events)
    BY <2>1, JoinKeepsPlace
  <2> QED
    BY <2>2 DEF Joins, text, buffer, events, kept, raw, joined
<1>7. Len(kept) \in Nat /\ from \in Nat /\ (from = 0 \/ from = Len(kept) - 1)
  <2>1. Len(kept) \in Nat /\ (kept # <<>> => Len(kept) \in Nat \ {0})
    BY <1>5, LenProperties, EmptySeq
  <2> QED
    BY <2>1 DEF from
<1>8. /\ stream'.body = stream.body /\ stream'.got = stream.got + Len(chunk) /\ stream'.final = final
      /\ stream'.buffer = joined /\ stream'.from = from /\ stream'.events = stream.events /\ StreamTyped'
  <2>1. stream.got + Len(chunk) \in Nat
    BY <1>1
  <2> DEFINE got == stream.got + Len(chunk)
  <2> HIDE DEF got
  <2>2. got \in Nat /\ stream' = [stream EXCEPT !.got = got, !.final = final, !.buffer = joined, !.from = from]
    BY <1>2, <2>1 DEF got
  <2>3. /\ stream'.body = stream.body /\ stream'.got = got /\ stream'.final = final
        /\ stream'.buffer = joined /\ stream'.from = from /\ stream'.events = stream.events
        /\ stream' \in [body : Seq(Tokens), got : Nat, final : BOOLEAN, buffer : Seq(Tokens), from : Nat, events : History]
    BY <1>1, <1>6, <1>7, <2>2 DEF StreamTyped
  <2> QED
    BY <2>3 DEF got, StreamTyped
<1>9. Text' = Text \o chunk
  <2>1. 1 \in 1..(Len(stream.body) + 1) /\ stream.got \in 0..Len(stream.body)
        /\ stream.got + Len(chunk) \in stream.got..Len(stream.body)
    BY <1>1, <1>4
  <2>2. SubSeq(stream.body, 1, stream.got) \o SubSeq(stream.body, stream.got + 1, stream.got + Len(chunk)) =
          SubSeq(stream.body, 1, stream.got + Len(chunk))
    <3> DEFINE body == stream.body
               k == stream.got
               n == stream.got + Len(chunk)
    <3>1. body \in Seq(Tokens) /\ 1 \in 1..(Len(body) + 1) /\ k \in (1 - 1)..Len(body) /\ n \in k..Len(body)
      BY <1>1, <2>1
    <3> HIDE DEF body, k, n
    <3>2. SubSeq(body, 1, k) \o SubSeq(body, k + 1, n) = SubSeq(body, 1, n)
      BY <3>1, ConcatAdjacentSubSeq
    <3> QED
      BY <3>2 DEF body, k, n
  <2> QED
    BY <1>8, <2>2 DEF Text
<1>10. BufferInv'
  BY <1>1, <1>6, <1>8, <1>9 DEF BufferInv, Kept
<1>11. \A j \in 1..from : ~BlankAt(joined, j)
  <2> SUFFICES ASSUME NEW j \in 1..from PROVE ~BlankAt(joined, j)
    OBVIOUS
  <2>1. j \in 1..(Len(kept) - 1) /\ j \in 1..Len(kept) /\ j + 1 \in 1..Len(kept)
    BY <1>7
  <2> QED
    BY <1>5, <1>6, <2>1 DEF NoBlank, BlankAt
<1> QED
  BY <1>1, <1>8, <1>10, <1>11 DEF StreamInv, Unread

LEMMA BodyDelivers ==
  ASSUME RequestInv, StreamInv, (\E n \in Nat : Read(n)) \/ ReadEnd
  PROVE  StreamInv'
<1>1. request.pc = "reading" /\ request' = [request EXCEPT !.pc = "framing"]
  BY DEF Read, ReadEnd
<1>2. request'.pc = "framing" /\ request'.kind = request.kind
  BY <1>1 DEF RequestInv
<1>3. /\ stream.body \in Seq(Tokens) /\ stream.got \in Nat /\ Len(stream.body) \in Nat /\ stream.got <= Len(stream.body)
  BY LenProperties DEF StreamInv, StreamTyped
<1>4. ASSUME NEW n \in Nat, Read(n) PROVE StreamInv'
  <2> DEFINE chunk == SubSeq(stream.body, stream.got + 1, stream.got + n)
  <2>1. stream.got + n <= Len(stream.body) /\ stream' = Joined(chunk, FALSE)
    BY <1>4 DEF Read
  <2>2. chunk \in Seq(Tokens) /\ Len(chunk) = n
    <3>1. \A i \in (stream.got + 1)..(stream.got + n) : stream.body[i] \in Tokens
      BY <1>3, <2>1, ElementOfSeq
    <3>2. /\ chunk \in Seq(Tokens)
          /\ Len(chunk) = IF stream.got + 1 <= stream.got + n THEN (stream.got + n) - (stream.got + 1) + 1 ELSE 0
      BY <1>3, <3>1, SubSeqProperties
    <3> HIDE DEF chunk
    <3> QED
      BY <1>3, <3>2
  <2>3. chunk = SubSeq(stream.body, stream.got + 1, stream.got + Len(chunk))
    BY <2>2
  <2> HIDE DEF chunk
  <2> QED
    BY <1>1, <1>2, <2>1, <2>2, <2>3, ChunkJoins
<1>5. ASSUME ReadEnd PROVE StreamInv'
  <2>1. stream.got = Len(stream.body) /\ stream' = Joined(<<>>, TRUE)
    BY <1>5 DEF ReadEnd
  <2>2. <<>> \in Seq(Tokens) /\ Len(<<>>) = 0
    BY EmptySeq
  <2>3. <<>> = SubSeq(stream.body, stream.got + 1, stream.got + Len(<<>>))
    BY <1>3, <2>2, SubSeqEmpty
  <2> DEFINE none == <<>>
  <2>4. stream.got + 0 = Len(stream.body)
    BY <1>3, <2>1
  <2>5. /\ none \in Seq(Tokens) /\ TRUE \in BOOLEAN /\ stream' = Joined(none, TRUE)
        /\ stream.got + Len(none) <= Len(stream.body)
        /\ none = SubSeq(stream.body, stream.got + 1, stream.got + Len(none))
        /\ stream.got + Len(none) = Len(stream.body)
    BY <1>3, <2>1, <2>2, <2>3, <2>4
  <2> HIDE DEF none
  <2> QED
    BY <1>1, <1>2, <2>5, ChunkJoins
<1> QED
  BY <1>4, <1>5

(* The body goes on after what was read of it.                             *)
LEMMA TextGoesOn ==
  ASSUME StreamTyped, stream.got <= Len(stream.body)
  PROVE  /\ Known(Text, stream.final) \in Seq(Tokens)
         /\ \E more \in Seq(Tokens) : stream.body = Known(Text, stream.final) \o more
         /\ stream.got = Len(stream.body) => Text = stream.body
<1> DEFINE body == stream.body
           k == stream.got
           n == Len(body)
           known == Known(Text, stream.final)
<1>1. Text \in Seq(Tokens) /\ body \in Seq(Tokens) /\ n \in Nat /\ k \in 0..n /\ stream.final \in BOOLEAN
  BY TextTyped, LenProperties DEF StreamTyped
<1>2. Text = SubSeq(body, 1, k)
  BY DEF Text
<1> DEFINE later == SubSeq(body, k + 1, n)
<1> HIDE DEF body, k, known
<1>3. later \in Seq(Tokens)
  <2>1. \A i \in (k + 1)..n : body[i] \in Tokens
    BY <1>1, ElementOfSeq
  <2> QED
    BY <1>1, <2>1, SubSeqProperties
<1>4. body = Text \o later
  <2>1. 1 \in 1..(Len(body) + 1) /\ k \in (1 - 1)..Len(body) /\ n \in k..Len(body)
    BY <1>1
  <2>2. SubSeq(body, 1, k) \o SubSeq(body, k + 1, n) = SubSeq(body, 1, n)
    BY <1>1, <2>1, ConcatAdjacentSubSeq
  <2>3. SubSeq(body, 1, n) = body
    BY <1>1, SubSeqFull
  <2> QED
    BY <1>2, <2>2, <2>3
<1> HIDE DEF later
<1>5. known \in Seq(Tokens) /\ (Text = known \/ Text = Append(known, CR))
  BY <1>1, KnownSplits DEF known
<1>6. \E more \in Seq(Tokens) : body = known \o more
  <2>1. CASE Text = known
    BY <1>3, <1>4, <2>1
  <2>2. CASE Text = Append(known, CR)
    <3>1. Text = known \o <<CR>>
      BY <1>5, <2>2, CarriageReturn, AppendIsConcat
    <3>2. <<CR>> \o later \in Seq(Tokens)
      BY <1>3, CarriageReturn, ConcatProperties
    <3>3. (known \o <<CR>>) \o later = known \o (<<CR>> \o later)
      BY <1>3, <1>5, CarriageReturn, ConcatAssociative
    <3> QED
      BY <1>4, <3>1, <3>2, <3>3
  <2> QED
    BY <1>5, <2>1, <2>2
<1>7. k = n => Text = body
  BY <1>1, <1>2, SubSeqFull
<1> QED
  BY <1>5, <1>6, <1>7 DEF known, body, k

(* How a call ends says what it was given.                                 *)
LEMMA EndsWith ==
  ASSUME RequestInv, stream'.body = stream.body,
         NEW events, stream'.events = events, events = EventsOf(stream.body, FALSE),
         request' = Ended(events, "returned")
  PROVE  EndInv' /\ request'.pc = "over"
<1> DEFINE outcome == IF "returned" = "returned" /\ request.kind = "generate" /\ ~HasCompleted(events)
                      THEN "transport" ELSE "returned"
<1>1. request' = [request EXCEPT !.pc = "over", !.outcome = outcome]
  BY DEF Ended, Over
<1>2. request.kind = "generate" /\ outcome = "returned" => HasCompleted(events)
  OBVIOUS
<1> HIDE DEF outcome
<1>3. request'.pc = "over" /\ request'.kind = request.kind /\ request'.outcome = outcome
  BY <1>1 DEF RequestInv, ClientCalls
<1> QED
  BY <1>2, <1>3 DEF EndInv

LEMMA BlockFrames ==
  ASSUME RequestInv, StreamInv, Frame
  PROVE  StreamInv'
<1> DEFINE buffer == stream.buffer
           final == stream.final
           from == stream.from
           events == stream.events
           text == Known(Text, stream.final)
           at == Boundary(buffer, from)
           event == ParsedBlock(SubSeq(buffer, 1, at - 1))
           rest == SubSeq(buffer, at + 2, Len(buffer))
           now == IF event = <<>> THEN events ELSE Append(events, event)
<1>1. /\ StreamTyped /\ stream.got <= Len(stream.body) /\ BufferInv
      /\ \A j \in 1..from : ~BlankAt(buffer, j)
      /\ request.pc = "framing" /\ request.outcome = "none"
  BY DEF StreamInv, RequestInv, Frame
<1>2. /\ buffer \in Seq(Tokens) /\ final \in BOOLEAN /\ from \in Nat /\ events \in History
      /\ Known(buffer, final) \in Seq(Plain) /\ Placed(events, Known(buffer, final), text)
      /\ text \in Seq(Tokens)
  BY <1>1, TextGoesOn DEF StreamTyped, BufferInv, Kept
<1>3. /\ at # 0
      /\ IF Is(event, Done)
         THEN request' = Ended(events, "returned") /\ stream' = [stream EXCEPT !.buffer = rest]
         ELSE /\ stream' = [stream EXCEPT !.buffer = rest, !.from = 0, !.events = now]
              /\ \/ UNCHANGED request
                 \/ request.kind = "stream" /\ event # <<>> /\ request' = Ended(events, "stopped")
  BY DEF Frame, At, Rest, Events
<1> HIDE DEF buffer, final, from, events, text
<1>4. Leaves(buffer, final, from, events, text)
  BY <1>1, <1>2, <1>3, BlockLeaves
<1>5. /\ event \in Seq(Seq(Words))
      /\ Is(event, Done) => Seen[text].over /\ Seen[text].events = events
      /\ rest \in Seq(Tokens) /\ (EndsInCR(rest) <=> EndsInCR(buffer))
      /\ Known(rest, final) \in Seq(Plain)
      /\ ~Is(event, Done) => Placed(now, Known(rest, final), text)
  BY <1>4 DEF Leaves
<1>6. now \in History
  BY <1>2, <1>5, AppendProperties DEF History
<1> HIDE DEF at, event, rest, now
<1>7. CASE Is(event, Done)
  <2>1. /\ stream'.body = stream.body /\ stream'.got = stream.got /\ stream'.events = events /\ StreamTyped'
    BY <1>1, <1>3, <1>5, <1>7 DEF StreamTyped, events
  <2>2. PICK more \in Seq(Tokens) : stream.body = text \o more
    BY <1>1, TextGoesOn DEF text
  <2>3. EventsOf(stream.body, FALSE) = events
    BY <1>2, <1>5, <1>7, <2>2, DoneEnds
  <2>4. EndInv' /\ request'.pc = "over"
    BY <1>3, <1>7, <2>1, <2>3, EndsWith
  <2> QED
    BY <1>1, <2>1, <2>4 DEF StreamInv, Unread
<1>8. CASE ~Is(event, Done)
  <2>1. stream' = [stream EXCEPT !.buffer = rest, !.from = 0, !.events = now]
    BY <1>3, <1>8
  <2>2. /\ stream'.body = stream.body /\ stream'.got = stream.got /\ stream'.events = now /\ stream'.final = final
        /\ stream'.from = 0 /\ stream'.buffer = rest /\ StreamTyped'
    BY <1>1, <1>5, <1>6, <2>1 DEF StreamTyped, final
  <2>3. CASE UNCHANGED request
    <3>1. Text' = Text /\ Kept' = Known(rest, final)
      BY <2>2 DEF Text, Kept
    <3>2. BufferInv'
      BY <1>1, <1>5, <1>8, <2>2, <2>3, <3>1 DEF BufferInv, buffer, final, text
    <3> QED
      BY <1>1, <2>2, <2>3, <3>2 DEF StreamInv, Unread
  <2>4. CASE request.kind = "stream" /\ request' = Ended(events, "stopped")
    <3>1. request' = [request EXCEPT !.pc = "over", !.outcome = "stopped"]
      BY <2>4 DEF Ended, Over
    <3>2. request'.pc = "over" /\ request'.outcome = "stopped"
      BY <3>1 DEF RequestInv
    <3> QED
      BY <1>1, <2>2, <3>2 DEF StreamInv, Unread, EndInv
  <2> QED
    BY <1>3, <1>8, <2>3, <2>4
<1> QED
  BY <1>7, <1>8

(* No blank line is left: more is read, or the last block is framed.       *)
LEMMA RestFrames ==
  ASSUME RequestInv, StreamInv, Framed
  PROVE  StreamInv'
<1> DEFINE buffer == stream.buffer
           final == ParsedBlock(buffer)
           events == IF final = <<>> \/ Is(final, Done) THEN stream.events ELSE Append(stream.events, final)
<1>1. /\ StreamTyped /\ stream.got <= Len(stream.body) /\ BufferInv
      /\ \A j \in 1..stream.from : ~BlankAt(buffer, j)
      /\ request.pc = "framing" /\ request.outcome = "none"
  BY DEF StreamInv, RequestInv, Framed
<1>2. /\ Boundary(buffer, stream.from) = 0
      /\ IF ~stream.final THEN request' = [request EXCEPT !.pc = "reading"] /\ UNCHANGED stream
         ELSE stream' = [stream EXCEPT !.events = events] /\ request' = Ended(events, "returned")
  BY DEF Framed, At, Events
<1>3. buffer \in Seq(Tokens) /\ stream.from \in Nat /\ stream.final \in BOOLEAN /\ stream.events \in History
  BY <1>1 DEF StreamTyped
<1>4. NoBlank(buffer)
  <2>1. \A j \in 1..(Len(buffer) - 1) : j > stream.from => ~BlankAt(buffer, j)
    BY <1>2, <1>3, BoundaryFound
  <2> HIDE DEF buffer
  <2> SUFFICES ASSUME NEW j \in 1..(Len(buffer) - 1) PROVE ~BlankAt(buffer, j)
    BY DEF NoBlank
  <2>2. j > stream.from \/ j \in 1..stream.from
    BY <1>3
  <2> QED
    BY <1>1, <2>1, <2>2
<1> HIDE DEF buffer, final, events
<1>5. CASE ~stream.final
  <2>1. request' = [request EXCEPT !.pc = "reading"] /\ UNCHANGED stream
    BY <1>2, <1>5
  <2>2. request'.pc = "reading" /\ request'.kind = request.kind
    BY <2>1 DEF RequestInv
  <2>3. NoBlank(Kept)
    BY <1>3, <1>4, NoBlankKept DEF Kept, buffer
  <2>4. StreamTyped' /\ BufferInv' /\ NoBlank(Kept)' /\ ~stream'.final
    BY <1>1, <1>5, <2>1, <2>2, <2>3 DEF StreamTyped, BufferInv, Kept, Text
  <2> QED
    BY <1>1, <2>1, <2>2, <2>4 DEF StreamInv, Unread
<1>6. CASE stream.final
  <2>1. stream' = [stream EXCEPT !.events = events] /\ request' = Ended(events, "returned")
    BY <1>2, <1>6
  <2>2. /\ Kept = buffer /\ buffer \in Seq(Plain) /\ stream.body \in Seq(Tokens)
        /\ Placed(stream.events, buffer, stream.body)
    <3>1. Kept = buffer /\ Known(Text, stream.final) = Text
      BY <1>6 DEF Kept, buffer, Known
    <3>2. Text = stream.body
      BY <1>1, <1>6, TextGoesOn DEF BufferInv
    <3> QED
      BY <1>1, <3>1, <3>2 DEF BufferInv, StreamTyped
  <2>3. EventsOf(stream.body, FALSE) = events
    BY <1>3, <1>4, <2>2, PlacedEnd DEF events, final
  <2>4. final \in Seq(Seq(Words))
    <3>1. PICK D \in Seq(Plain) : Seen[D] = Between(stream.events)
      BY <2>2 DEF Placed
    <3>2. LinesOf[buffer] \in Lines
      BY <1>3, <1>4, <2>2, <3>1, BlockIsRead
    <3> QED
      BY <3>2, AppendProperties DEF final, ParsedBlock, Pushed, Lines
  <2>5. events \in History
    BY <1>3, <2>4, AppendProperties DEF events, History
  <2>6. stream'.body = stream.body /\ stream'.got = stream.got /\ stream'.events = events /\ StreamTyped'
    BY <1>1, <2>1, <2>5 DEF StreamTyped
  <2>7. EndInv' /\ request'.pc = "over"
    BY <2>1, <2>3, <2>6, EndsWith
  <2> QED
    BY <1>1, <2>6, <2>7 DEF StreamInv, Unread
<1> QED
  BY <1>5, <1>6

------------------------------------------------------------------------------
(* Steps that leave the stream.                                            *)
LEMMA StreamStands ==
  ASSUME RequestInv, StreamInv, UNCHANGED stream,
         \/ request.pc \in Unread /\ request'.pc \in Unread
         \/ request' = request
         \/ /\ request.pc \in Unread /\ request'.pc = "over"
            /\ request'.outcome # "returned" \/ request'.kind \notin {"stream", "generate"}
         \/ request'.pc = "over" /\ request'.outcome = "raw error"
         \/ request'.pc = "over" /\ request'.kind = "stream" /\ request'.outcome = "transport"
  PROVE  StreamInv'
<1>1. StreamTyped' /\ stream'.got <= Len(stream'.body)
  BY DEF StreamInv, StreamTyped
<1>2. CASE request.pc \in Unread /\ request'.pc \in Unread
  BY <1>1, <1>2 DEF StreamInv, Unread
<1>3. CASE request' = request
  <2>1. (BufferInv' <=> BufferInv) /\ (EndInv' <=> EndInv) /\ Kept' = Kept
    BY <1>3 DEF BufferInv, EndInv, Kept, Text
  <2> QED
    BY <1>1, <1>3, <2>1 DEF StreamInv
<1>4. CASE request.pc \in Unread /\ request'.pc = "over" /\ request'.outcome # "returned"
  <2>1. stream' = NoStream
    BY <1>4 DEF StreamInv
  <2>2. stream'.events = EventsOf(stream'.body, FALSE)
    BY <2>1, NoStreamFits, NoEvents
  <2> QED
    BY <1>1, <1>4, <2>2 DEF StreamInv, EndInv, Unread
<1>5. CASE request'.pc = "over" /\ request'.kind \notin {"stream", "generate"}
  BY <1>1, <1>5 DEF StreamInv, EndInv, Unread
<1>6. CASE /\ request'.pc = "over"
           /\ request'.outcome = "raw error" \/ (request'.kind = "stream" /\ request'.outcome = "transport")
  BY <1>1, <1>6 DEF StreamInv, EndInv, Unread
<1>7. CASE /\ request.pc \in Unread /\ request'.pc = "over"
           /\ request'.outcome # "returned" \/ request'.kind \notin {"stream", "generate"}
  BY <1>4, <1>5, <1>7
<1>8. CASE request'.pc = "over" /\ request'.outcome = "raw error"
  BY <1>6, <1>8
<1>9. CASE request'.pc = "over" /\ request'.kind = "stream" /\ request'.outcome = "transport"
  BY <1>6, <1>9
<1> QED
  BY <1>2, <1>3, <1>7, <1>8, <1>9

(***************************************************************************)
(* What follows of the client.                                             *)
(***************************************************************************)

(* Every step keeps the stream's invariant.                                *)
LEMMA StreamStep ==
  ASSUME RequestInv, StreamInv, [ClientNext]_ClientVars
  PROVE  StreamInv'
<1>1. ASSUME NEW kinds, Starts(kinds) PROVE StreamInv'
  <2>1. request.pc \in Unread /\ request'.pc \in Unread /\ UNCHANGED stream
    BY <1>1 DEF Starts, RequestInv, ClientCalls, Unread
  <2> QED
    BY <2>1, StreamStands
<1>2. CASE StreamCalled \/ SdkCalled \/ ImageCalled \/ LiveCalled \/ EditCalled
  <2>1. CASE request.pc = "none" /\ request' = [Over("transport") EXCEPT !.kind = "edit"] /\ UNCHANGED stream
    <3>1. request.pc \in Unread /\ request'.pc = "over" /\ request'.outcome = "transport"
      BY <2>1 DEF RequestInv, ClientCalls, Unread, Over
    <3> QED
      BY <2>1, <3>1, StreamStands
  <2> QED
    BY <1>1, <1>2, <2>1
       DEF StreamCalled, SdkCalled, ImageCalled, LiveCalled, EditCalled
<1>3. CASE TokenGiven \/ TokenStale \/ Unauthorized \/ SessionThrows \/ RequestFails \/ Flight
  <2>1. /\ UNCHANGED stream
        /\ \/ UNCHANGED request
           \/ request.pc \in Unread /\ \E outcome \in {"request", "flight"} : request' = [request EXCEPT !.pc = outcome]
           \/ /\ request.pc \in Unread
              /\ \E outcome \in Outcomes \ {"returned"} : request' = [request EXCEPT !.pc = "over", !.outcome = outcome]
    <3>1. CASE TokenGiven \/ TokenStale \/ SessionThrows \/ RequestFails
      BY <3>1 DEF TokenGiven, TokenStale, SessionThrows, RequestFails, Gets, Over, Unread, Outcomes
    <3>2. CASE Unauthorized
      BY <3>2 DEF Unauthorized, Retries, Over, Unread, Outcomes
    <3>3. CASE Flight
      BY <3>3 DEF Flight, FlightLoads, FlightSkips, FlightStores, FlightAdopts, FlightFails, Settles, Gets, Waits,
                  Over, Unread, Outcomes
    <3> QED
      BY <1>3, <3>1, <3>2, <3>3
  <2>2. \/ UNCHANGED request
        \/ /\ request.pc \in Unread
           /\ request'.pc \in Unread \/ (request'.pc = "over" /\ request'.outcome # "returned")
    BY <2>1 DEF RequestInv, ClientCalls, Unread
  <2> QED
    BY <2>1, <2>2, StreamStands
<1>4. CASE StreamRefused \/ StreamAccepted \/ SdkAnswered
  <2>1. /\ UNCHANGED stream /\ request.pc \in Unread
        /\ \/ request' = [request EXCEPT !.pc = "body"]
           \/ \E outcome \in Outcomes \ {"returned"} : request' = [request EXCEPT !.pc = "over", !.outcome = outcome]
    BY <1>4 DEF StreamRefused, StreamAccepted, SdkAnswered, AnsweredTo, Accepted, Over, Unread, Outcomes
  <2>2. \/ request'.pc \in Unread
        \/ request'.pc = "over" /\ request'.outcome # "returned"
    BY <2>1 DEF RequestInv, ClientCalls, Unread
  <2> QED
    BY <2>1, <2>2, StreamStands
<1>5. CASE ImageAnswered \/ LiveAnswered
  <2>1. /\ UNCHANGED stream /\ request.pc \in Unread /\ request.kind \in {"image", "edit", "live"}
        /\ \E outcome \in Outcomes : request' = [request EXCEPT !.pc = "over", !.outcome = outcome]
    BY <1>5 DEF ImageAnswered, LiveAnswered, AnsweredTo, Over, Unread, Outcomes
  <2>2. request'.pc = "over" /\ request'.kind \notin {"stream", "generate"}
    BY <2>1 DEF RequestInv, ClientCalls
  <2> QED
    BY <2>1, <2>2, StreamStands
<1>6. CASE (\E n \in Nat : Read(n)) \/ ReadEnd
  BY <1>6, BodyDelivers
<1>7. CASE StreamFails
  <2>1. /\ UNCHANGED stream /\ request.pc = "reading"
        /\ request' = Ended(Events, IF request.kind = "generate" THEN "raw error" ELSE "transport")
    BY <1>7 DEF StreamFails
  <2>2. request.kind \in {"stream", "generate"}
    BY <2>1 DEF StreamInv, BufferInv
  <2> DEFINE outcome == IF request.kind = "generate" THEN "raw error" ELSE "transport"
  <2>3. request' = [request EXCEPT !.pc = "over", !.outcome = outcome]
    BY <2>1, <2>2 DEF Ended, Over
  <2>4. outcome = "raw error" \/ (request.kind = "stream" /\ outcome = "transport")
    BY <2>2
  <2> HIDE DEF outcome
  <2>5. request'.pc = "over" /\ request'.outcome = outcome /\ request'.kind = request.kind
    BY <2>3 DEF RequestInv, ClientCalls
  <2> QED
    BY <2>1, <2>4, <2>5, StreamStands
<1>8. CASE Frame
  BY <1>8, BlockFrames
<1>9. CASE Framed
  BY <1>9, RestFrames
<1>10. CASE OthersAsk \/ StoredElsewhere \/ GoesStale \/ Expires \/ UNCHANGED ClientVars
  BY <1>10, StreamStands DEF OthersAsk, StoredElsewhere, GoesStale, Expires, ClientVars
<1>12. CASE Reads
  BY <1>12, BodyBegins
<1>11. Delivers \/ Read(0) => (\E n \in Nat : Read(n)) \/ ReadEnd \/ StreamFails
  <2>1. 1..MaxChunk \subseteq Nat /\ 0 \in Nat
    BY ClientAssumption
  <2> QED
    BY <2>1 DEF Delivers
<1> QED
  BY <1>2, <1>3, <1>4, <1>5, <1>6, <1>7, <1>8, <1>9, <1>10, <1>11, <1>12 DEF ClientNext, Work

LEMMA StreamStarts ==
  ASSUME ClientInit
  PROVE  StreamInv
<1>1. request.pc = "none" /\ stream = NoStream
  BY DEF ClientInit
<1> QED
  BY <1>1, NoStreamFits DEF StreamInv, StreamTyped, Unread

(* What the loop has yielded, when it waits for more of the body.          *)
LEMMA YieldedSoFar ==
  ASSUME StreamInv, request.pc = "reading"
  PROVE  stream.events = EventsOf(Known(Text, FALSE), TRUE)
<1>1. /\ StreamTyped /\ BufferInv /\ ~stream.final /\ NoBlank(Kept)
  BY DEF StreamInv
<1>2. /\ Placed(stream.events, Kept, Known(Text, FALSE)) /\ Kept \in Seq(Plain) /\ stream.events \in History
      /\ Known(Text, FALSE) \in Seq(Tokens)
  BY <1>1, TextGoesOn DEF BufferInv, Known, StreamTyped, StreamInv
<1> QED
  BY <1>1, <1>2, PlacedEvents DEF EventsOf

(* What the invariant says of the properties.                              *)
LEMMA InvFrames ==
  ASSUME RequestInv, StreamInv
  PROVE  FramingIgnoresChunks /\ OnlyCompletedIsReturned
<1>1. request.pc # "over" => request.outcome = "none"
  BY DEF RequestInv
<1>2. request.pc = "over" => EndInv
  BY DEF StreamInv
<1>3. (IF EndsInCR(Text) THEN Front(Text) ELSE Text) = Known(Text, FALSE)
  BY DEF Known
<1>4. FramingIgnoresChunks
  BY <1>1, <1>2, <1>3, YieldedSoFar DEF FramingIgnoresChunks, Events, EndInv, Text
<1>5. OnlyCompletedIsReturned
  BY <1>1, <1>2 DEF OnlyCompletedIsReturned, EndInv
<1> QED
  BY <1>4, <1>5

LEMMA InvTyped ==
  ASSUME RequestInv, RetryInv, StreamInv
  PROVE  ClientTypeOK
<1>1. stream.got \in 0..Len(stream.body)
  BY TextTyped DEF StreamInv
<1> QED
  BY <1>1 DEF RequestInv, RetryInv, ClientTypeOK, Unread, ClientCalls, Sessions, Flights, Retryings

(* The inductive invariant of a call of the client.                        *)
THEOREM ClientInvariance == ClientSpec => [](RequestInv /\ RetryInv /\ StreamInv)
<1>1. ClientInit => RequestInv /\ RetryInv /\ StreamInv
  BY RetryStarts, StreamStarts
<1>2. RequestInv /\ RetryInv /\ StreamInv /\ [ClientNext]_ClientVars => RequestInv' /\ RetryInv' /\ StreamInv'
  BY RetryStep, StreamStep
<1> QED
  BY <1>1, <1>2, PTL DEF ClientSpec

(* Every variable of a call keeps its type: at most two token sets are     *)
(* refused, and no more is read than the body has.                         *)
THEOREM ClientTypeCorrect == ClientSpec => []ClientTypeOK
<1>1. RequestInv /\ RetryInv /\ StreamInv => ClientTypeOK
  BY InvTyped
<1> QED
  BY <1>1, ClientInvariance, PTL

(* parseSSE yields the events of the text it has read, however the body    *)
(* was cut into chunks: while it waits those that a blank line has ended,  *)
(* and at the end those of the whole body (sse.ts:26).                     *)
THEOREM ChunksDoNotMatter == ClientSpec => []FramingIgnoresChunks
<1>1. RequestInv /\ RetryInv /\ StreamInv => FramingIgnoresChunks
  BY InvFrames
<1> QED
  BY <1>1, ClientInvariance, PTL

(* collapse returns a response to the SDK only if the events of the body   *)
(* have one completed (ai-sdk/index.ts:79).                                *)
THEOREM SdkGetsCompleted == ClientSpec => []OnlyCompletedIsReturned
<1>1. RequestInv /\ RetryInv /\ StreamInv => OnlyCompletedIsReturned
  BY InvFrames
<1> QED
  BY <1>1, ClientInvariance, PTL

==============================================================================
