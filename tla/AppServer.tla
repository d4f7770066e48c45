------------------------------ MODULE AppServer ------------------------------
(***************************************************************************)
(* The app-server transport (typescript/src/app-server/index.ts, rpc.ts):  *)
(* response streams over one codex process, which runs one turn at a time  *)
(* and calls back for a fresh token while it does.  Everything the process *)
(* says comes down one pipe, in order; what the client does between two    *)
(* awaits is one action, and lines of the pipe may be handled before the   *)
(* code that awaited an earlier line goes on.                              *)
(*                                                                         *)
(* The process is external: it is modelled by what it may write.           *)
(***************************************************************************)
EXTENDS Naturals, Sequences

CONSTANTS
  Streams,      \* invocations of stream()
  NoStream,     \* no active turn: not a stream
  MaxDeltas,    \* text deltas the process sends in a turn, at most
  MaxLines,     \* lines the pipe holds: a process with more to write waits
  ServerWaits   \* does the process end a turn only when its callback is answered?

ASSUME NoStreamAssumption == NoStream \notin Streams
ASSUME BoundsAssumption   == MaxDeltas \in Nat /\ MaxLines \in Nat \ {0} /\ ServerWaits \in BOOLEAN

VARIABLES
  thread,     \* none, starting or started: threadPromise and threadId
  pc,         \* where each stream is
  waitsFor,   \* the turn whose fence a stream awaits
  active,     \* the stream of the active turn, or NoStream
  turns,      \* the ActiveTurn of each stream, with its event queue
  got,        \* the deltas each stream's consumer has received
  closed,     \* is the connection closed?
  wire,       \* the process's standard output: lines not handled yet
  run,        \* the process's turns: none, asked for, running or over
  told,       \* what the process has written of each turn
  refreshing  \* callbacks the host is answering, by the turn that asked

server == <<run, told>>
vars == <<thread, pc, waitsFor, active, turns, got, closed, wire, run, told, refreshing>>

(* What the notifications of one turn amount to: its deltas in order, and   *)
(* how it ended, after which it is not listened to.                         *)
Heard   == [deltas: Seq(Nat), end: {"none", "ended", "failed"}]
Silence == [deltas |-> <<>>, end |-> "none"]

(* id is the stream whose turn the ActiveTurn is bound to; pending holds    *)
(* the notifications that came before, by the turn they name; over is the   *)
(* queue's state.                                                           *)
ActiveTurn ==
  [id: Streams \cup {NoStream}, failed: BOOLEAN, pending: [Streams -> Heard],
   queue: Seq(Nat), over: {"open", "ended", "failed"}]
NonePending == [s \in Streams |-> Silence]
NewTurn == [id |-> NoStream, failed |-> FALSE, pending |-> NonePending, queue |-> <<>>,
            over |-> "open"]

Ended == {"done", "failed", "refused", "abandoned"}
Phases == {"idle", "thread", "fence", "check", "start", "bind", "rejected", "read"} \cup Ended

(* What the process tells of a turn: has it answered turn/start, how many   *)
(* deltas, has it announced the turn, called back, been answered.           *)
Told == [replied: BOOLEAN, deltas: 0..MaxDeltas, started: BOOLEAN, asked: BOOLEAN, answered: BOOLEAN]

TypeOK ==
  /\ thread \in {"none", "starting", "started"}
  /\ pc \in [Streams -> Phases]
  /\ waitsFor \in [Streams -> Streams \cup {NoStream}]
  /\ active \in Streams \cup {NoStream}
  /\ turns \in [Streams -> ActiveTurn]
  /\ got \in [Streams -> Seq(Nat)]
  /\ closed \in BOOLEAN
  /\ run \in [Streams -> {"none", "requested", "running", "over"}]
  /\ told \in [Streams -> Told]
  /\ refreshing \subseteq Streams

Init ==
  /\ thread = "none"
  /\ pc = [s \in Streams |-> "idle"]
  /\ waitsFor = [s \in Streams |-> NoStream]
  /\ active = NoStream
  /\ turns = [s \in Streams |-> NewTurn]
  /\ got = [s \in Streams |-> <<>>]
  /\ closed = FALSE
  /\ wire = <<>>
  /\ run = [s \in Streams |-> "none"]
  /\ told = [s \in Streams |-> [replied |-> FALSE, deltas |-> 0, started |-> FALSE,
                                asked |-> FALSE, answered |-> FALSE]]
  /\ refreshing = {}

Goto(s, phase) == pc' = [pc EXCEPT ![s] = phase]
Line(m, s, n, ok) == [m |-> m, of |-> s, n |-> n, ok |-> ok]
Writes(line) == Len(wire) < MaxLines /\ wire' = Append(wire, line)

-----------------------------------------------------------------------------
(* stream(): the thread, the fence, the turn *)

(* ensureThread: one thread/start for all the streams that need it; one     *)
(* with other instructions than the thread's is refused.                    *)
Begin(s) ==
  /\ pc[s] = "idle"
  /\ \/ thread # "none" /\ Goto(s, "refused") /\ UNCHANGED thread
     \/ thread = "started" /\ Goto(s, "check") /\ UNCHANGED thread
     \/ thread # "started" /\ closed /\ Goto(s, "refused") /\ UNCHANGED thread
     \/ thread # "started" /\ ~closed /\ Goto(s, "thread") /\ thread' = "starting"
  /\ UNCHANGED <<waitsFor, active, turns, got, closed, wire, server, refreshing>>

(* Past ensureThread: a failed turn is waited for, any other refuses.  The  *)
(* rest, to the turn/start request, runs without an await; a request that   *)
(* cannot be written fails before the next event is dispatched.             *)
Take(s) ==
  /\ IF closed
       THEN /\ turns' = [turns EXCEPT ![s] = [NewTurn EXCEPT !.over = "failed"]]
            /\ Goto(s, "read")
            /\ UNCHANGED <<active, run>>
       ELSE /\ active' = s
            /\ turns' = [turns EXCEPT ![s] = NewTurn]
            /\ run' = [run EXCEPT ![s] = "requested"]
            /\ Goto(s, "start")
  /\ UNCHANGED waitsFor

(* Mutant: after the fence, nobody looks whether the turn is still free. *)
TakeAnyway(s) == Take(s)

TakeOrRefuse(s) ==
  IF active = NoStream
    THEN Take(s)
    ELSE Goto(s, "refused") /\ UNCHANGED <<active, turns, run, waitsFor>>

(* Mutant: a failed turn makes room at once. *)
CheckNoFence(s) ==
  /\ pc[s] = "check"
  /\ IF active # NoStream /\ turns[active].failed THEN Take(s) ELSE TakeOrRefuse(s)
  /\ UNCHANGED <<thread, got, closed, wire, told, refreshing>>

Check(s) ==
  /\ pc[s] = "check"
  /\ IF active # NoStream /\ turns[active].failed
       THEN /\ waitsFor' = [waitsFor EXCEPT ![s] = active]
            /\ Goto(s, "fence")
            /\ UNCHANGED <<active, turns, run>>
       ELSE TakeOrRefuse(s)
  /\ UNCHANGED <<thread, got, closed, wire, told, refreshing>>

(* The fence of a turn resolves when the turn is finished. *)
Fenced(s) ==
  /\ pc[s] = "fence" /\ active # waitsFor[s]
  /\ TakeOrRefuse(s)
  /\ UNCHANGED <<thread, got, closed, wire, told, refreshing>>

(* What was heard of a turn, and one more notification of it.               *)
Hear(h, line) ==
  IF h.end # "none" THEN h
  ELSE IF line.m = "delta" THEN [h EXCEPT !.deltas = Append(@, line.n)]
  ELSE [h EXCEPT !.end = IF line.ok THEN "ended" ELSE "failed"]

(* It reaches the queue of the turn r, unless the turn has failed.          *)
Absorb(r, h) ==
  IF r.failed THEN r
  ELSE [r EXCEPT !.queue = @ \o h.deltas, !.over = IF h.end = "none" THEN @ ELSE h.end]
Finishes(h) == active' = IF h.end = "none" THEN active ELSE NoStream

(* Mutant: what came before the turn had an id is lost. *)
BindDropsPending(s, id) ==
  IF turns[s].id # NoStream
    THEN UNCHANGED <<active, turns>>
    ELSE /\ turns' = [turns EXCEPT ![s].id = id, ![s].pending = NonePending]
         /\ UNCHANGED active

(* bindTurnId: the active turn learns its id, and what came before it.      *)
Bind(s, id) ==
  IF turns[s].id # NoStream
    THEN UNCHANGED <<active, turns>>
    ELSE LET r == [turns[s] EXCEPT !.id = id, !.pending = NonePending]
             h == turns[s].pending[id]
         IN  turns' = [turns EXCEPT ![s] = Absorb(r, h)] /\ Finishes(h)

(* The code behind the answered turn/start goes on. *)
Started(s) ==
  /\ pc[s] = "bind"
  /\ IF active = s THEN Bind(s, s) ELSE UNCHANGED <<active, turns>>
  /\ Goto(s, "read")
  /\ UNCHANGED <<thread, waitsFor, got, closed, wire, server, refreshing>>

(* queue.fail and finishTurn of a turn that ends without its completion.    *)
FailQueue(s) == turns' = [turns EXCEPT ![s].over = "failed"]
FinishIfActive(s) == active' = IF active = s THEN NoStream ELSE active

(* turn/start was refused, or the connection closed before its answer. *)
StartFails(s) ==
  /\ pc[s] = "rejected" \/ (pc[s] = "start" /\ closed)
  /\ FailQueue(s) /\ FinishIfActive(s)
  /\ Goto(s, "read")
  /\ UNCHANGED <<thread, waitsFor, got, closed, wire, server, refreshing>>

(* The consumer takes the next event: values first, then the end.           *)
Consume(s) ==
  /\ pc[s] = "read"
  /\ \/ /\ turns[s].queue # <<>>
        /\ got' = [got EXCEPT ![s] = Append(@, Head(turns[s].queue))]
        /\ turns' = [turns EXCEPT ![s].queue = Tail(@)]
        /\ UNCHANGED pc
     \/ /\ turns[s].queue = <<>> /\ turns[s].over # "open"
        /\ Goto(s, IF turns[s].over = "ended" THEN "done" ELSE "failed")
        /\ UNCHANGED <<got, turns>>
  /\ UNCHANGED <<thread, waitsFor, active, closed, wire, server, refreshing>>

(* A consumer that breaks out of its loop leaves the turn active. *)
Abandon(s) ==
  /\ pc[s] = "read" /\ got[s] # <<>>
  /\ Goto(s, "abandoned")
  /\ UNCHANGED <<thread, waitsFor, active, turns, got, closed, wire, server, refreshing>>

-----------------------------------------------------------------------------
(* Lines of the pipe *)

HandleThread(line) ==
  /\ line.m = "thread"
  /\ ~closed
  /\ thread' = IF line.ok THEN "started" ELSE "none"
  /\ pc' = [s \in Streams |-> IF pc[s] # "thread" THEN pc[s]
                              ELSE IF line.ok THEN "check" ELSE "refused"]
  /\ UNCHANGED <<active, turns, refreshing>>

HandleReply(line) ==
  /\ line.m = "reply"
  /\ ~closed
  /\ Goto(line.of, IF line.ok THEN "bind" ELSE "rejected")
  /\ UNCHANGED <<thread, active, turns, refreshing>>

HandleStarted(line) ==
  /\ line.m = "started" /\ active # NoStream
  /\ Bind(active, line.of)
  /\ UNCHANGED <<thread, pc, refreshing>>

HandleTurn(line) ==
  /\ line.m \in {"delta", "completed"} /\ active # NoStream
  /\ LET r == turns[active]
         h == IF line.of = r.id THEN Hear(Silence, line) ELSE Silence
     IN  IF r.id = NoStream
           THEN /\ turns' = [turns EXCEPT ![active].pending[line.of] = Hear(@, line)]
                /\ UNCHANGED active
           ELSE turns' = [turns EXCEPT ![active] = Absorb(r, h)] /\ Finishes(h)
  /\ UNCHANGED <<thread, pc, refreshing>>

(* The process calls back for a token; the host starts to refresh.          *)
HandleCallback(line) ==
  /\ line.m = "callback"
  /\ refreshing' = refreshing \cup {line.of}
  /\ UNCHANGED <<thread, pc, active, turns>>

Handled(line) ==
  \/ HandleThread(line) \/ HandleReply(line) \/ HandleStarted(line)
  \/ HandleTurn(line) \/ HandleCallback(line)

(* A line nobody waits for is dropped: an answer after the close, a         *)
(* notification without an active turn.                                     *)
HandleLine ==
  /\ wire # <<>>
  /\ LET line == Head(wire)
     IN  \/ Handled(line)
         \/ /\ IF line.m \in {"thread", "reply"} THEN closed
               ELSE line.m # "callback" /\ active = NoStream
            /\ UNCHANGED <<thread, pc, active, turns, refreshing>>
  /\ wire' = Tail(wire)
  /\ UNCHANGED <<waitsFor, got, closed, server>>

(* Mutant: the failure is only marked, for the completion to report.        *)
RefreshSettlesSilently(s, ok) ==
  /\ s \in refreshing
  /\ refreshing' = refreshing \ {s}
  /\ told' = [told EXCEPT ![s].answered = TRUE]
  /\ turns' = IF ~ok /\ active # NoStream THEN [turns EXCEPT ![active].failed = TRUE] ELSE turns
  /\ UNCHANGED <<thread, pc, waitsFor, active, got, closed, wire, run>>

(* The refresh settles, and a failure fails the turn that is active by then.*)
RefreshSettles(s, ok) ==
  /\ s \in refreshing
  /\ refreshing' = refreshing \ {s}
  /\ told' = [told EXCEPT ![s].answered = TRUE]
  /\ turns' = IF ~ok /\ active # NoStream
                THEN [turns EXCEPT ![active].failed = TRUE, ![active].over = "failed"]
                ELSE turns
  /\ UNCHANGED <<thread, pc, waitsFor, active, got, closed, wire, run>>

(* The client closes, or the process exits: every request is rejected and   *)
(* the active turn fails.                                                   *)
CloseLeavesTurn ==    \* mutant: onClose does not look at the active turn
  /\ ~closed
  /\ closed' = TRUE
  /\ pc' = [s \in Streams |-> IF pc[s] = "thread" THEN "refused" ELSE pc[s]]
  /\ thread' = IF thread = "starting" THEN "none" ELSE thread
  /\ UNCHANGED <<waitsFor, active, turns, got, wire, server, refreshing>>

Close ==
  /\ ~closed
  /\ closed' = TRUE
  /\ pc' = [s \in Streams |-> IF pc[s] = "thread" THEN "refused" ELSE pc[s]]
  /\ thread' = IF thread = "starting" THEN "none" ELSE thread
  /\ turns' = IF active = NoStream THEN turns ELSE [turns EXCEPT ![active].over = "failed"]
  /\ active' = NoStream
  /\ UNCHANGED <<waitsFor, got, wire, server, refreshing>>

-----------------------------------------------------------------------------
(* The process *)

Says(s) == ~closed /\ UNCHANGED <<thread, pc, waitsFor, active, turns, got, closed, refreshing>>

AnswerThread ==
  /\ thread = "starting" /\ \A i \in 1..Len(wire) : wire[i].m # "thread"
  /\ \E s \in Streams, ok \in BOOLEAN : pc[s] = "thread" /\ Writes(Line("thread", s, 0, ok))
  /\ Says(NoStream) /\ UNCHANGED server

Refuse(s) ==
  /\ run[s] = "requested"
  /\ run' = [run EXCEPT ![s] = "over"]
  /\ told' = [told EXCEPT ![s].replied = TRUE]
  /\ Writes(Line("reply", s, 0, FALSE)) /\ Says(s)

Accept(s) ==
  /\ run[s] = "requested"
  /\ run' = [run EXCEPT ![s] = "running"]
  /\ UNCHANGED <<told, wire>> /\ Says(s)

(* The answer to turn/start may come before or after anything of the turn.  *)
Reply(s) ==
  /\ run[s] \in {"running", "over"} /\ ~told[s].replied
  /\ told' = [told EXCEPT ![s].replied = TRUE]
  /\ Writes(Line("reply", s, 0, TRUE)) /\ Says(s) /\ UNCHANGED run

Announce(s) ==
  /\ run[s] = "running" /\ ~told[s].started /\ told[s].deltas = 0
  /\ told' = [told EXCEPT ![s].started = TRUE]
  /\ Writes(Line("started", s, 0, TRUE)) /\ Says(s) /\ UNCHANGED run

Delta(s) ==
  /\ run[s] = "running" /\ told[s].deltas < MaxDeltas
  /\ told' = [told EXCEPT ![s].deltas = @ + 1]
  /\ Writes(Line("delta", s, told[s].deltas + 1, TRUE)) /\ Says(s) /\ UNCHANGED run

CallBack(s) ==
  /\ run[s] = "running" /\ ~told[s].asked
  /\ told' = [told EXCEPT ![s].asked = TRUE]
  /\ Writes(Line("callback", s, 0, TRUE)) /\ Says(s) /\ UNCHANGED run

Complete(s, ok) ==
  /\ run[s] = "running"
  /\ ServerWaits => (told[s].asked => told[s].answered)
  /\ run' = [run EXCEPT ![s] = "over"]
  /\ Writes(Line("completed", s, 0, ok)) /\ Says(s) /\ UNCHANGED told

-----------------------------------------------------------------------------
ClientStep(s) ==
  Check(s) \/ Fenced(s) \/ Started(s) \/ StartFails(s) \/ Consume(s)
Settling(s) == \E ok \in BOOLEAN : RefreshSettles(s, ok)
Answering(s) == Refuse(s) \/ Accept(s) \/ Reply(s)
Completing(s) == \E ok \in BOOLEAN : Complete(s, ok)

Next ==
  \/ \E s \in Streams :
       \/ Begin(s) \/ ClientStep(s) \/ Abandon(s) \/ Settling(s)
       \/ Answering(s) \/ Completing(s)
       \/ Announce(s) \/ Delta(s) \/ CallBack(s)
  \/ HandleLine \/ AnswerThread \/ Close

Spec == Init /\ [][Next]_vars

(* The event loop runs, the refresh settles, and the process answers every  *)
(* request and completes every turn it runs.                                *)
FairSpec ==
  /\ Spec
  /\ WF_vars(HandleLine) /\ WF_vars(AnswerThread)
  /\ \A s \in Streams : /\ WF_vars(ClientStep(s)) /\ WF_vars(Settling(s))
                        /\ WF_vars(Answering(s)) /\ WF_vars(Completing(s))

-----------------------------------------------------------------------------
(* The client never has two turns running in the process: a turn that       *)
(* failed on this side still runs on the other until it is completed, and   *)
(* its fence holds the next stream back (stream and finishTurn).            *)
OneTurnInTheProcess ==
  \A s, t \in Streams :
    run[s] \in {"requested", "running"} /\ run[t] \in {"requested", "running"} /\ ~closed => s = t

(* Nobody reads a queue that nothing will end: a queue is open only while   *)
(* its turn is the active one (finishTurn, onClose, close).                 *)
OpenQueuesAreActive ==
  \A s \in Streams :
    pc[s] \in {"start", "bind", "rejected", "read"} /\ turns[s].over = "open" => active = s

(* A stream receives the deltas of its own turn, in order and without a     *)
(* gap, and a stream that ends well has received them all, in whatever      *)
(* order the answer, the announcement and the deltas came.                  *)
StreamsGetTheirTurn ==
  \A s \in Streams :
    LET seen == got[s] \o turns[s].queue
    IN  /\ Len(seen) <= told[s].deltas
        /\ \A i \in 1..Len(seen) : seen[i] = i
        /\ turns[s].over = "ended" => Len(seen) = told[s].deltas

(* Every stream ends, or is refused, the one behind a failed turn included. *)
EveryStreamEnds == \A s \in Streams : pc[s] # "idle" ~> pc[s] \in Ended

=============================================================================
