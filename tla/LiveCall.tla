------------------------------- MODULE LiveCall -------------------------------
(***************************************************************************)
(* The page of examples/gpt-live (components/live-call.tsx), the call it   *)
(* opens with connectLiveCall (realtime/browser.ts) and the session it     *)
(* drives with attachLiveSession (realtime/call.ts), over a server route   *)
(* that signals directly or through codex.                                 *)
(*                                                                         *)
(* A step of the page is one event: a click, a promise that settles, a     *)
(* timer, a message on a data channel.  What React holds in refs and state *)
(* is shared by all calls of the page, those it has given up included.     *)
(***************************************************************************)
EXTENDS CodexCall, Sequences

CONSTANTS
  MaxItems,   \* the delegations that may come
  MaxTurns    \* the assistant's turns

ASSUME LiveCallAssumption == MaxItems \in Nat /\ MaxTurns \in Nat

Items == 1..MaxItems
Turns == 1..MaxTurns

VARIABLES
  call,       \* what connectLiveCall holds of each call
  callRef,    \* callRef.current, and the session of sessionRef.current
  phase,      \* what the page shows
  openTurns,  \* openTurns.current
  mounted,
  item,       \* the delegations, whose call each came on, what was sent back for it
  turn,       \* the backend: the assistant's turns
  cut         \* history: a call was ended while it was connecting

page == <<call, callRef, phase, openTurns, mounted, item, turn, cut>>
vars == <<route, page>>

Routes == {"direct", "codex"}
Message == {"commentary", "speakable"}   \* LiveChannel of delegation.context.append

TypeOK ==
  /\ RouteTypeOK
  /\ call \in [Calls -> [pc: {"none", "mic", "gather", "negotiate", "apply", "up", "failed"},
                         via: Routes, mic: BOOLEAN, connection: BOOLEAN,
                         channel: {"none", "connecting", "open", "closed"}, started: BOOLEAN]]
  /\ callRef \in Calls \cup {NoCall}
  /\ phase \in {"idle", "connecting", "listening", "delegating", "speaking"}
  /\ openTurns \subseteq Turns
  /\ mounted \in BOOLEAN
  /\ item \in [Items -> [call: Calls \cup {NoCall}, pc: {"none", "running", "answered", "unsent"},
                         timer: BOOLEAN, sent: UNION {[1..n -> Message] : n \in 0..2}]]
  /\ turn \in [Turns -> [call: Calls \cup {NoCall}, pc: {"none", "open", "done"}]]
  /\ cut \in BOOLEAN

Init ==
  /\ RouteInit
  /\ call = [c \in Calls |-> [pc |-> "none", via |-> "direct", mic |-> FALSE, connection |-> FALSE,
                              channel |-> "none", started |-> FALSE]]
  /\ callRef = NoCall
  /\ phase = "idle"
  /\ openTurns = {}
  /\ mounted = TRUE
  /\ item = [i \in Items |-> [call |-> NoCall, pc |-> "none", timer |-> FALSE, sent |-> <<>>]]
  /\ turn = [t \in Turns |-> [call |-> NoCall, pc |-> "none"]]
  /\ cut = FALSE

Connecting(c) == call[c].pc \in {"mic", "gather", "negotiate", "apply"}
Pending(c) == {i \in Items : item[i].call = c /\ item[i].pc = "running"}   \* session.pending
Sends(c) == call[c].channel = "open"                                     \* send: readyState
Advances(c, pc) == call' = [call EXCEPT ![c].pc = pc]

------------------------------------------------------------------------------
(* hangUp of connectLiveCall: the microphone stops, the connection closes. *)
HungUp(d) ==
  [d EXCEPT !.mic = FALSE, !.connection = FALSE, !.channel = IF @ = "none" THEN @ ELSE "closed"]

(* hangUp of the page: the call it refers to, if there is one.             *)
PageHangsUp ==
  /\ callRef' = NoCall
  /\ openTurns' = {}
  /\ phase' = "idle"

(* The buttons: connect while idle, hangUp otherwise.                      *)
Start(c, via) ==
  /\ mounted
  /\ phase = "idle"
  /\ call[c].pc = "none"
  /\ \A d \in Calls : d < c => call[d].pc # "none"
  /\ call' = [call EXCEPT ![c].pc = "mic", ![c].via = via, ![c].connection = TRUE]
  /\ phase' = "connecting"
  /\ UNCHANGED <<route, callRef, openTurns, mounted, item, turn, cut>>

Ends ==
  /\ call' = [c \in Calls |-> IF c = callRef THEN HungUp(call[c]) ELSE call[c]]
  /\ PageHangsUp
  /\ cut' = (cut \/ \E c \in Calls : Connecting(c))
  /\ UNCHANGED <<route, item, turn>>

End == mounted /\ phase # "idle" /\ Ends /\ UNCHANGED mounted
Unmount == mounted /\ mounted' = FALSE /\ Ends

------------------------------------------------------------------------------
(* connectLiveCall.                                                        *)
Granted(c) ==
  /\ call[c].pc = "mic"
  /\ call' = [call EXCEPT ![c].pc = "gather", ![c].mic = TRUE, ![c].channel = "connecting"]
  /\ UNCHANGED <<route, callRef, phase, openTurns, mounted, item, turn, cut>>

(* Gathering is complete, or its time is up: either way the offer is sent. *)
Gathered(c) ==
  /\ call[c].pc = "gather"
  /\ Advances(c, "negotiate")
  /\ UNCHANGED <<route, callRef, phase, openTurns, mounted, item, turn, cut>>

(* The request of the codex route reaches its handler.                     *)
Offers(c) ==
  /\ call[c].pc = "negotiate" /\ call[c].via = "codex"
  /\ PostArrives(c)
  /\ UNCHANGED page

AnswerArrives(c) ==
  /\ call[c].pc = "negotiate"
  /\ call[c].via = "codex" => post[c].pc = "ok"
  /\ Advances(c, "apply")
  /\ UNCHANGED <<route, callRef, phase, openTurns, mounted, item, turn, cut>>

Connected(c) ==
  /\ call[c].pc = "apply"
  /\ Advances(c, "up")
  /\ callRef' = c
  /\ UNCHANGED <<route, phase, openTurns, mounted, item, turn, cut>>

(* Mutant: the catch block of connectLiveCall throws on, and no more.      *)
ConnectFailsOpen(c) ==
  /\ Connecting(c)
  /\ call' = [d \in Calls |->
       IF d = c THEN [call[d] EXCEPT !.pc = "failed"]
       ELSE IF d = callRef THEN HungUp(call[d]) ELSE call[d]]
  /\ PageHangsUp
  /\ UNCHANGED <<route, mounted, item, turn, cut>>

(* Any await may throw: no microphone, a refused offer, a lost answer.  The*)
(* page then hangs up the call it refers to, whichever that is.            *)
ConnectFails(c) ==
  /\ Connecting(c)
  /\ call' = [d \in Calls |->
       IF d = c THEN [HungUp(call[d]) EXCEPT !.pc = "failed"]
       ELSE IF d = callRef THEN HungUp(call[d]) ELSE call[d]]
  /\ PageHangsUp
  /\ UNCHANGED <<route, mounted, item, turn, cut>>

(* The data channel opens once the answer is applied, and may close again. *)
ChannelOpens(c) ==
  /\ call[c].pc = "up"
  /\ call[c].channel = "connecting"
  /\ call' = [call EXCEPT ![c].channel = "open"]
  /\ UNCHANGED <<route, callRef, phase, openTurns, mounted, item, turn, cut>>

ChannelDrops(c) ==
  /\ call[c].channel = "open"
  /\ call' = [call EXCEPT ![c].channel = "closed"]
  /\ UNCHANGED <<route, callRef, phase, openTurns, mounted, item, turn, cut>>

------------------------------------------------------------------------------
(* Messages of the backend; session.started is the first.                  *)
SessionStarted(c) ==
  /\ Sends(c)
  /\ ~call[c].started
  /\ call' = [call EXCEPT ![c].started = TRUE]
  /\ phase' = "listening"
  /\ UNCHANGED <<route, callRef, openTurns, mounted, item, turn, cut>>

Receives(c) == Sends(c) /\ call[c].started

TurnCreated(c, t) ==
  /\ Receives(c)
  /\ turn[t].pc = "none"
  /\ \A u \in Turns : u < t => turn[u].pc # "none"
  /\ turn' = [turn EXCEPT ![t] = [call |-> c, pc |-> "open"]]
  /\ openTurns' = openTurns \cup {t}
  /\ phase' = "speaking"
  /\ UNCHANGED <<route, call, callRef, mounted, item, cut>>

(* Mutant: the first turn to close ends the speaking.                      *)
TurnDoneEndsSpeaking(t) ==
  /\ turn[t].pc = "open"
  /\ Receives(turn[t].call)
  /\ turn' = [turn EXCEPT ![t].pc = "done"]
  /\ openTurns' = openTurns \ {t}
  /\ phase' = IF Pending(callRef) # {} THEN "delegating" ELSE "listening"
  /\ UNCHANGED <<route, call, callRef, mounted, item, cut>>

TurnDone(t) ==
  /\ turn[t].pc = "open"
  /\ Receives(turn[t].call)
  /\ turn' = [turn EXCEPT ![t].pc = "done"]
  /\ openTurns' = openTurns \ {t}
  /\ phase' = IF openTurns' # {} THEN phase
              ELSE IF Pending(callRef) # {} THEN "delegating" ELSE "listening"
  /\ UNCHANGED <<route, call, callRef, mounted, item, cut>>

(* Mutant: the nudge is never armed.                                       *)
DelegatedUnwatched(c, i) ==
  /\ Receives(c) /\ call[c].via = "direct"
  /\ item[i].pc = "none"
  /\ \A j \in Items : j < i => item[j].pc # "none"
  /\ item' = [item EXCEPT ![i].call = c, ![i].pc = "running"]
  /\ phase' = IF phase = "speaking" THEN phase ELSE "delegating"
  /\ UNCHANGED <<route, call, callRef, openTurns, mounted, turn, cut>>

(* runDelegation up to onDelegate's request.  (Behind codex, codex itself  *)
(* answers, and none comes here.)                                          *)
Delegated(c, i) ==
  /\ Receives(c) /\ call[c].via = "direct"
  /\ item[i].pc = "none"
  /\ \A j \in Items : j < i => item[j].pc # "none"
  /\ item' = [item EXCEPT ![i].call = c, ![i].pc = "running", ![i].timer = TRUE]
  /\ phase' = IF phase = "speaking" THEN phase ELSE "delegating"
  /\ UNCHANGED <<route, call, callRef, openTurns, mounted, turn, cut>>

Sent(i, m) == IF Sends(item[i].call) THEN Append(item[i].sent, m) ELSE item[i].sent

(* The timer is cleared once the work is settled, so it is running here.   *)
Nudge(i) ==
  /\ item[i].timer
  /\ item' = [item EXCEPT ![i].timer = FALSE, ![i].sent = Sent(i, "commentary")]
  /\ UNCHANGED <<route, call, callRef, phase, openTurns, mounted, turn, cut>>

(* Mutant: the timer is not cleared, nor told that the work is settled.    *)
SettledWithTimer(i) ==
  item' = [item EXCEPT ![i].pc = IF Sends(item[i].call) THEN "answered" ELSE "unsent",
                       ![i].sent = Sent(i, "speakable")]

Settled(i) ==
  item' = [item EXCEPT ![i].pc = IF Sends(item[i].call) THEN "answered" ELSE "unsent",
                       ![i].timer = FALSE,
                       ![i].sent = Sent(i, "speakable")]

(* The delegate has answered or failed: either way there is a text to say. *)
WorkEnds(i) ==
  /\ item[i].pc = "running"
  /\ Settled(i)
  /\ phase' = IF phase = "delegating" THEN "listening" ELSE phase
  /\ UNCHANGED <<route, call, callRef, openTurns, mounted, turn, cut>>

------------------------------------------------------------------------------
Connects(c) ==
  \/ Granted(c) \/ Gathered(c) \/ Offers(c) \/ AnswerArrives(c) \/ Connected(c)
  \/ ConnectFails(c) \/ ChannelOpens(c) \/ ChannelDrops(c)

Talks(c) ==
  \/ SessionStarted(c)
  \/ \E t \in Turns : TurnCreated(c, t)
  \/ \E i \in Items : Delegated(c, i)

Next ==
  \/ \E c \in Calls, via \in Routes : Start(c, via)
  \/ End \/ Unmount
  \/ \E c \in Calls : Connects(c) \/ Talks(c)
  \/ \E t \in Turns : TurnDone(t)
  \/ \E i \in Items : Nudge(i) \/ WorkEnds(i)
  \/ RouteStep /\ UNCHANGED page

(* Timers fire and the route's requests are answered; users, networks, the *)
(* backend and the delegate owe nothing.                                   *)
Fairness ==
  /\ WF_vars(\E i \in Items : Nudge(i))
  /\ WF_vars(RouteRuns /\ UNCHANGED page)
Spec == Init /\ [][Next]_vars /\ Fairness

------------------------------------------------------------------------------
(* What the model is told of a delegation (realtime/call.ts): at most one  *)
(* nudge, and only before the answer; one answer, if it was answered.      *)
DelegationsAreAnswered ==
  \A i \in Items :
    /\ item[i].pc = "answered" =>
         item[i].sent \in {<<"speakable">>, <<"commentary", "speakable">>}
    /\ item[i].pc # "answered" => item[i].sent \in {<<>>, <<"commentary">>}

(* The orb tells the truth, through overlapping turns and delegations and  *)
(* the late ends of those of an earlier call: it speaks exactly while an   *)
(* assistant's turn is open, and thinks only while one is pending in the   *)
(* session of the call.  (A call ended while connecting is not tracked.)   *)
PhaseTellsTruth ==
  ~cut =>
    /\ phase = "speaking" <=> openTurns # {}
    /\ phase = "delegating" => Pending(callRef) # {}

(* Nothing is left on: a call whose microphone or connection is open is the*)
(* one the page refers to and hangs up, or it is still connecting.  A call *)
(* that was ended while connecting escapes.                                *)
NothingIsLeftOn ==
  ~cut => \A c \in Calls :
    (call[c].mic \/ call[c].connection) => c = callRef \/ Connecting(c)

(* A call does not go silent (call.ts: "Silence would leave it waiting     *)
(* mid-conversation"): a delegation is nudged or answered unless its       *)
(* channel closes, however long the delegate takes.                        *)
SilenceIsFilled ==
  \A i \in Items :
    item[i].pc = "running" ~>
      (item[i].sent # <<>> \/ \E c \in Calls : item[i].call = c /\ ~Sends(c))

==============================================================================
