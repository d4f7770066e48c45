---------------------------- MODULE PythonFlight ----------------------------
(***************************************************************************)
(* Refresh in the Python port (python/src/chatgpt_oauth/session.py): a     *)
(* flight is an asyncio task of its own, kept in a map per store, and all  *)
(* its callers await that one task.  One store and one subject.            *)
(*                                                                         *)
(* An action is what a task runs between two awaits.  Cancelling a caller  *)
(* that awaits a flight cancels the flight, which learns of it in its next *)
(* step; a coroutine that has not begun by then never begins.              *)
(***************************************************************************)
EXTENDS Naturals

CONSTANTS
  Calls,      \* invocations of get_token_set
  Tasks,      \* the flights this instance can create
  NoTask,     \* not a task
  MaxVersion  \* bounds the writes of other processes

Row     == [ver: Nat, q: BOOLEAN]    \* q: quarantined
Missing == [ver |-> 0, q |-> FALSE]

VARIABLES
  row,        \* the subject's row
  stale,      \* is its access token within the margin of its expiry?
  flight,     \* what the flights map holds for the subject
  task,       \* the flights; seen is the version of current
  call        \* the callers; again: in force_after_nonforce

vars == <<row, stale, flight, task, call>>

Init ==
  /\ row \in {Missing, [ver |-> 1, q |-> FALSE]}
  /\ stale \in BOOLEAN
  /\ flight = NoTask
  /\ task = [t \in Tasks |-> [pc |-> "new", force |-> FALSE, cancelled |-> FALSE,
                              seen |-> 0, result |-> "none"]]
  /\ call = [c \in Calls |-> [pc |-> "idle", on |-> NoTask, again |-> FALSE, result |-> "none"]]

-----------------------------------------------------------------------------
(* The callers *)

Ends(c, result) == call' = [call EXCEPT ![c].pc = "done", ![c].result = result]
Awaits(c, t, again) == call' = [call EXCEPT ![c].pc = "wait", ![c].on = t, ![c].again = again]

(* _in_flight: await the flight in the map, or put a new one there.  Who    *)
(* must not be answered by an unforced flight asks again after it.          *)
InFlight(c, force) ==
  \/ /\ flight # NoTask
     /\ Awaits(c, flight, force /\ ~task[flight].force)
     /\ UNCHANGED <<flight, task>>
  \/ /\ flight = NoTask
     /\ \E t \in Tasks :
          /\ task[t].pc = "new"
          /\ task' = [task EXCEPT ![t].pc = "created", ![t].force = force]
          /\ flight' = t
          /\ Awaits(c, t, FALSE)

(* get_token_set: a forced refresh asks at once, the others load the row.   *)
(* The kill switch is off where a caller asks.                              *)
Invoke(c, force) ==
  /\ call[c].pc = "idle"
  /\ IF force THEN InFlight(c, TRUE)
              ELSE /\ call' = [call EXCEPT ![c].pc = "load"]
                   /\ UNCHANGED <<flight, task>>
  /\ UNCHANGED <<row, stale>>

Usable == row.ver > 0 /\ ~row.q

CallLoads(c) ==
  /\ call[c].pc = "load"
  /\ \/ ~Usable /\ Ends(c, "reauth") /\ UNCHANGED <<flight, task>>
     \/ Usable /\ ~stale /\ Ends(c, "fresh") /\ UNCHANGED <<flight, task>>
     \/ Usable /\ stale /\ InFlight(c, FALSE)
  /\ UNCHANGED <<row, stale>>

Wakes(c) ==
  /\ call[c].pc = "wait" /\ task[call[c].on].pc = "done"
  /\ LET result == task[call[c].on].result
     IN  IF call[c].again /\ result = "fresh"
           THEN InFlight(c, TRUE)
           ELSE Ends(c, result) /\ UNCHANGED <<flight, task>>
  /\ UNCHANGED <<row, stale>>

(* Task.cancel on a caller is passed on to what it awaits.                  *)
Cancels(c) ==
  \/ /\ call[c].pc = "wait" /\ task[call[c].on].pc # "done"
     /\ task' = [task EXCEPT ![call[c].on].cancelled = TRUE]
     /\ UNCHANGED <<row, stale, flight, call>>
  \/ /\ call[c].pc = "load" \/ (call[c].pc = "wait" /\ task[call[c].on].pc = "done")
     /\ Ends(c, "cancelled")
     /\ UNCHANGED <<row, stale, flight, task>>

-----------------------------------------------------------------------------
(* A flight: run() and _refresh_one *)

Goes(t, from, to) ==
  /\ task[t].pc = from /\ ~task[t].cancelled
  /\ task' = [task EXCEPT ![t].pc = to]
  /\ UNCHANGED <<row, stale, flight, call>>

Over(t, result) == task' = [task EXCEPT ![t].pc = "done", ![t].result = result]

(* The finally clause removes this task from the map, if it is the one there. *)
Finishes(t, result) ==
  /\ Over(t, result)
  /\ flight' = IF flight = t THEN NoTask ELSE flight
  /\ UNCHANGED call

Begins(t) == Goes(t, "created", "load")

(* The exception comes before the first line of run(), outside its try.     *)
NeverBegins(t) ==
  /\ task[t].pc = "created" /\ task[t].cancelled
  /\ Over(t, "cancelled")
  /\ UNCHANGED <<row, stale, flight, call>>

Loads(t) ==
  /\ task[t].pc = "load" /\ ~task[t].cancelled
  /\ \/ ~Usable /\ Finishes(t, "reauth")
     \/ Usable /\ ~task[t].force /\ ~stale /\ Finishes(t, "fresh")
     \/ /\ Usable /\ (task[t].force \/ stale)
        /\ task' = [task EXCEPT ![t].pc = "post", ![t].seen = row.ver]
        /\ UNCHANGED <<flight, call>>
  /\ UNCHANGED <<row, stale>>

(* The endpoint grants a token set, or rejects the credential for good.     *)
Granted(t)  == Goes(t, "post", "swap")
Rejected(t) == Goes(t, "post", "quarantine")

(* The row this flight replaces the one it loaded with.                     *)
Replaces(t) ==
  /\ task[t].pc \in {"swap", "quarantine"} /\ row.ver = task[t].seen
  /\ row' = [ver |-> row.ver + 1, q |-> task[t].pc = "quarantine"]
  /\ stale' = FALSE

Writes(t) ==
  /\ ~task[t].cancelled
  /\ Replaces(t)
  /\ Finishes(t, IF task[t].pc = "quarantine" THEN "reauth" ELSE "refreshed")

(* The compare-and-swap lost: adopt the winner, if it is good.              *)
Adopts(t) ==
  /\ task[t].pc \in {"swap", "quarantine"} /\ ~task[t].cancelled
  /\ row.ver # task[t].seen
  /\ Finishes(t, IF Usable THEN "refreshed" ELSE "reauth")
  /\ UNCHANGED <<row, stale>>

Underway(t) == task[t].pc \in {"load", "post", "swap", "quarantine"}

(* The kill switch, the store or the endpoint raises.                       *)
Raises(t) ==
  /\ Underway(t) /\ ~task[t].cancelled
  /\ Finishes(t, "failed")
  /\ UNCHANGED <<row, stale>>

(* CancelledError is thrown at the await; what was awaited may have         *)
(* happened all the same.                                                   *)
Stops(t) ==
  /\ Underway(t) /\ task[t].cancelled
  /\ Finishes(t, "cancelled")
  /\ Replaces(t) \/ UNCHANGED <<row, stale>>

-----------------------------------------------------------------------------
(* Another process refreshes, quarantines or deletes the row; time passes.  *)
Elsewhere ==
  /\ row' \in {Missing} \cup {[ver |-> row.ver + 1, q |-> b] : b \in BOOLEAN}
  /\ row'.ver <= MaxVersion
  /\ stale' = FALSE
  /\ UNCHANGED <<flight, task, call>>

Expire ==
  /\ ~stale /\ stale' = TRUE
  /\ UNCHANGED <<row, flight, task, call>>

Step(t) ==
  \/ Begins(t) \/ NeverBegins(t) \/ Loads(t) \/ Granted(t) \/ Rejected(t)
  \/ Writes(t) \/ Adopts(t) \/ Raises(t) \/ Stops(t)

CallStep(c) == CallLoads(c) \/ Wakes(c) \/ Cancels(c) \/ \E force \in BOOLEAN : Invoke(c, force)

Next ==
  \/ \E t \in Tasks : Step(t)
  \/ \E c \in Calls : CallStep(c)
  \/ Elsewhere \/ Expire

Spec == Init /\ [][Next]_vars

-----------------------------------------------------------------------------
TypeOK ==
  /\ row \in Row /\ stale \in BOOLEAN
  /\ flight \in Tasks \cup {NoTask}
  /\ \A t \in Tasks : /\ task[t].pc \in {"new", "created", "load", "post", "swap", "quarantine", "done"}
                      /\ task[t].seen \in Nat
  /\ \A c \in Calls : /\ call[c].pc \in {"idle", "load", "wait", "done"}
                      /\ call[c].on \in Tasks \cup {NoTask}

(* A flight that is over has left the map: "Clear that exact promise in     *)
(* finally" (PROTOCOL.md, section 6).  One that stays answers every later   *)
(* refresh of the subject with its own old failure.                         *)
FlightsLeaveTheMap == flight # NoTask => task[flight].pc # "done"

=============================================================================
