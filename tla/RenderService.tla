---------------------------- MODULE RenderService ----------------------------
(***************************************************************************)
(* The render service (typescript/examples/render-service/src): its routes *)
(* (index.ts) over the SessionManager (session-manager.ts), which keeps one*)
(* codex process per subject, queues its turns, evicts it when idle, drops *)
(* it at sign-out and closes all of them at shutdown.  A process is born   *)
(* and killed by createAppServerClient (app-server/index.ts, process.ts).  *)
(*                                                                         *)
(* A step goes from one await to the next.  Entries are numbered as they   *)
(* are created: an entry that left the map may still have turns, a process *)
(* on its way up and a close() that waits for it.                          *)
(***************************************************************************)
EXTENDS Naturals, Sequences, FiniteSets

CONSTANTS
  Subjects,
  MaxEntries,   \* the entries, and so the processes, there may be
  MaxRequests,  \* the requests of /chat and /api/chatgpt/usage
  MaxLogouts    \* the requests of /auth/logout

ASSUME RenderAssumption ==
  MaxEntries \in Nat \ {0} /\ MaxRequests \in Nat \ {0} /\ MaxLogouts \in Nat

Entries == 1..MaxEntries
Requests == 1..MaxRequests
NoEntry == 0

VARIABLES
  entryOf,   \* #entries: the entry of each subject
  entry,     \* the entries: subject, queue of turns, who asked for close()
  client,    \* the promise of each entry's client
  process,   \* the codex process of each entry: gone once it has exited or was sent SIGKILL
  kill,      \* the process handle's close(): its grace, SIGKILL sent, returned
  request,   \* the requests: subject, entry, and where they stand
  signedIn,  \* the subjects with a credential
  logout,    \* the last logout: what it waits for; history: the entries of the subject, when asked and until the row went
  shutdown   \* shutdown(), after SIGTERM

ServiceVars == <<entryOf, entry, client, process, kill, request, signedIn, logout, shutdown>>

Created == {e \in Entries : client[e] # "none"}
CreatedFor(s) == {e \in Created : entry[e].subject = s}
Reasons == {"drop", "evict", "close"}

ServiceTypeOK ==
  /\ entryOf \in [Subjects -> Entries \cup {NoEntry}]
  /\ \A e \in Entries :
       /\ entry[e].queue \in UNION {[1..n -> Requests] : n \in 0..MaxRequests}
       /\ entry[e].asked \in Reasons \cup {"no"}
       /\ e \in Created => entry[e].subject \in Subjects
  /\ client \in [Entries -> {"none", "spawn", "handshake", "login", "up", "failing", "failed", "closed"}]
  /\ process \in [Entries -> {"none", "alive", "gone"}]
  /\ kill \in [Entries -> {"no", "grace", "killed", "returned"}]
  /\ \A r \in Requests :
       request[r].pc \in {"none", "asked", "queued", "running", "done", "failed"}
  /\ signedIn \subseteq Subjects
  /\ logout.waits \subseteq {"row", "drop"} /\ logout.count \in 0..MaxLogouts
  /\ logout.before \subseteq Entries /\ logout.during \subseteq Entries
  /\ shutdown \in {"no", "sessions", "server", "done", "crashed"}

ServiceInit ==
  /\ \E anyone \in Subjects :
       /\ entry = [e \in Entries |-> [subject |-> anyone, queue |-> <<>>, asked |-> "no"]]
       /\ request = [r \in Requests |-> [subject |-> anyone, entry |-> NoEntry, pc |-> "none"]]
       /\ logout = [subject |-> anyone, entry |-> NoEntry, waits |-> {}, count |-> 0,
                    before |-> {}, during |-> {}]
       /\ anyone = CHOOSE s \in Subjects : TRUE
  /\ entryOf = [s \in Subjects |-> NoEntry]
  /\ client = [e \in Entries |-> "none"]
  /\ process = [e \in Entries |-> "none"]
  /\ kill = [e \in Entries |-> "no"]
  /\ signedIn = Subjects
  /\ shutdown = "no"

Running == shutdown # "crashed"           \* the service's own process
Serving == shutdown = "no"                \* server.close() takes no new request
Open(r) == request[r].pc \notin {"none", "done", "failed"}

------------------------------------------------------------------------------
(* The routes /chat and /api/chatgpt/usage, and run().                     *)
Request(r, s) ==
  /\ Serving
  /\ request[r].pc = "none"
  /\ \A q \in Requests : q < r => request[q].pc # "none"
  /\ request' = [request EXCEPT ![r] = [subject |-> s, entry |-> NoEntry, pc |-> "asked"]]
  /\ UNCHANGED <<entryOf, entry, client, process, kill, signedIn, logout, shutdown>>

(* The route of usage finds nobody signed in.                              *)
Refused(r) ==
  /\ request[r].pc = "asked"
  /\ request[r].subject \notin signedIn
  /\ request' = [request EXCEPT ![r].pc = "failed"]
  /\ UNCHANGED <<entryOf, entry, client, process, kill, signedIn, logout, shutdown>>

Enqueued(r, e) ==
  /\ entry' = [entry EXCEPT ![e].subject = request[r].subject,
                            ![e].queue = Append(@, r)]
  /\ request' = [request EXCEPT ![r].entry = e, ![r].pc = "queued"]

Run(r) ==
  /\ request[r].pc = "asked"
  /\ LET s == request[r].subject IN
       \/ /\ shutdown # "no"                       \* #closed
          /\ request' = [request EXCEPT ![r].pc = "failed"]
          /\ UNCHANGED <<entryOf, entry, client>>
       \/ /\ shutdown = "no" /\ entryOf[s] # NoEntry
          /\ Enqueued(r, entryOf[s])
          /\ UNCHANGED <<entryOf, client>>
       \/ /\ shutdown = "no" /\ entryOf[s] = NoEntry
          /\ \E e \in Entries \ Created :
               /\ \A d \in Entries : d < e => d \in Created
               /\ entryOf' = [entryOf EXCEPT ![s] = e]
               /\ client' = [client EXCEPT ![e] = "spawn"]
               /\ Enqueued(r, e)
  /\ UNCHANGED <<process, kill, signedIn, logout, shutdown>>

(* The turn at the head of the queue awaits the client; it ends, and the   *)
(* next may start.                                                         *)
Turn(e) == Head(entry[e].queue)
HasTurn(e, pc) == entry[e].queue # <<>> /\ request[Turn(e)].pc = pc

(* Mutant: a turn that fails stays in the queue.                           *)
TurnIsOverPoisoned(e, pc) ==
  /\ request' = [request EXCEPT ![Turn(e)].pc = pc]
  /\ entry' = [entry EXCEPT ![e].queue = IF pc = "failed" THEN @ ELSE Tail(@)]

TurnIsOver(e, pc) ==
  /\ request' = [request EXCEPT ![Turn(e)].pc = pc]
  /\ entry' = [entry EXCEPT ![e].queue = Tail(@)]

TurnRuns(e) ==
  /\ HasTurn(e, "queued")
  /\ client[e] \in {"up", "closed", "failed"}
  /\ IF client[e] = "failed"
       THEN TurnIsOver(e, "failed")
       ELSE request' = [request EXCEPT ![Turn(e)].pc = "running"] /\ UNCHANGED entry
  /\ UNCHANGED <<entryOf, client, process, kill, signedIn, logout, shutdown>>

(* A turn of a closed client, or of a dead process, can only fail.         *)
TurnEnds(e) ==
  /\ HasTurn(e, "running")
  /\ \E pc \in {"done", "failed"} :
       /\ pc = "done" => client[e] = "up" /\ process[e] = "alive"
       /\ TurnIsOver(e, pc)
  /\ UNCHANGED <<entryOf, client, process, kill, signedIn, logout, shutdown>>

------------------------------------------------------------------------------
(* createAppServerClient.                                                  *)
Spawned(e) ==
  /\ client[e] = "spawn"
  /\ client' = [client EXCEPT ![e] = "handshake"]
  /\ process' = [process EXCEPT ![e] = "alive"]
  /\ UNCHANGED <<entryOf, entry, kill, request, signedIn, logout, shutdown>>

(* codex is initialized, and the access token is there.                    *)
TokenTaken(e) ==
  /\ client[e] = "handshake"
  /\ entry[e].subject \in signedIn
  /\ client' = [client EXCEPT ![e] = "login"]
  /\ UNCHANGED <<entryOf, entry, process, kill, request, signedIn, logout, shutdown>>

(* codex accepts it, whatever became of the credential.                    *)
Initialized(e) ==
  /\ client[e] = "login"
  /\ process[e] = "alive"
  /\ client' = [client EXCEPT ![e] = "up"]
  /\ UNCHANGED <<entryOf, entry, process, kill, request, signedIn, logout, shutdown>>

(* close() of the process: stdin ends.                                     *)
Ends(e) == kill' = [kill EXCEPT ![e] = "grace"]

InitializationFails(e) ==
  /\ client[e] \in {"handshake", "login"}
  /\ client' = [client EXCEPT ![e] = "failing"]
  /\ Ends(e)
  /\ UNCHANGED <<entryOf, entry, process, request, signedIn, logout, shutdown>>

(* Mutant: the failed entry removes whatever entry the subject has now.    *)
ForgetsAny(e) == entryOf' = [entryOf EXCEPT ![entry[e].subject] = NoEntry]

(* The rejection handler of run().                                         *)
Forgets(e) == entryOf' = [s \in Subjects |-> IF entryOf[s] = e THEN NoEntry ELSE entryOf[s]]

(* The spawn fails, or the close() of a failed handshake has returned.     *)
CreationFails(e) ==
  /\ client[e] = "spawn" \/ (client[e] = "failing" /\ kill[e] = "returned")
  /\ client' = [client EXCEPT ![e] = "failed"]
  /\ Forgets(e)
  /\ UNCHANGED <<entry, process, kill, request, signedIn, logout, shutdown>>

(* close() of the client, by whoever asked: requests fail from here on.  An *)
(* entry leaves the map once, so its client is closed once; and a process  *)
(* that was started emits no "error" that would have closed it before.     *)
Closes(e) ==
  /\ entry[e].asked # "no"
  /\ client[e] = "up"
  /\ client' = [client EXCEPT ![e] = "closed"]
  /\ Ends(e)
  /\ UNCHANGED <<entryOf, entry, process, request, signedIn, logout, shutdown>>

(* It exits, or a second is over: SIGKILL, for what may be left of it.     *)
GraceOver(e) ==
  /\ kill[e] = "grace"
  /\ kill' = [kill EXCEPT ![e] = "killed"]
  /\ process' = [process EXCEPT ![e] = "gone"]
  /\ UNCHANGED <<entryOf, entry, client, request, signedIn, logout, shutdown>>

(* Its exit is awaited for another second, and then no longer.             *)
CloseReturns(e) ==
  /\ kill[e] = "killed"
  /\ kill' = [kill EXCEPT ![e] = "returned"]
  /\ UNCHANGED <<entryOf, entry, client, process, request, signedIn, logout, shutdown>>

(* It exits by itself (once its stdin has ended: GraceOver).               *)
ProcessDies(e) ==
  /\ process[e] = "alive" /\ kill[e] = "no"
  /\ process' = [process EXCEPT ![e] = "gone"]
  /\ UNCHANGED <<entryOf, entry, client, kill, request, signedIn, logout, shutdown>>

CloseDone(e) == client[e] = "closed" /\ kill[e] = "returned"

------------------------------------------------------------------------------
Asked(e, why) == entry' = [entry EXCEPT ![e].asked = why]

(* evictIdle, by the sweeper's timer: the entry has no pending turns, and  *)
(* idleMs have passed since its last, as they may have at any moment.      *)
Evict(e) ==
  /\ shutdown = "no"
  /\ entryOf[entry[e].subject] = e
  /\ entry[e].queue = <<>>        \* pendingTurns
  /\ entryOf' = [entryOf EXCEPT ![entry[e].subject] = NoEntry]
  /\ Asked(e, "evict")
  /\ UNCHANGED <<client, process, kill, request, signedIn, logout, shutdown>>

------------------------------------------------------------------------------
(* /auth/logout: auth.logout and drop side by side.                        *)
Logout(s) ==
  /\ Serving
  /\ logout.waits = {}           \* bound: one at a time
  /\ logout.count < MaxLogouts
  /\ LET e == entryOf[s] IN
       /\ logout' = [subject |-> s, entry |-> e, count |-> logout.count + 1,
                     waits |-> IF e = NoEntry THEN {"row"} ELSE {"row", "drop"},
                     before |-> CreatedFor(s), during |-> {}]
       /\ entryOf' = [entryOf EXCEPT ![s] = NoEntry]
       /\ IF e = NoEntry THEN UNCHANGED entry ELSE Asked(e, "drop")
  /\ UNCHANGED <<client, process, kill, request, signedIn, shutdown>>

RowDeleted ==
  /\ "row" \in logout.waits
  /\ signedIn' = signedIn \ {logout.subject}
  /\ logout' = [logout EXCEPT !.waits = @ \ {"row"}, !.during = CreatedFor(logout.subject) \ logout.before]
  /\ UNCHANGED <<entryOf, entry, client, process, kill, request, shutdown>>

(* Mutant: drop does not await the client's close().                       *)
DroppedEarly ==
  /\ "drop" \in logout.waits
  /\ client[logout.entry] \in {"closed", "failed"}
  /\ logout' = [logout EXCEPT !.waits = @ \ {"drop"}]
  /\ UNCHANGED <<entryOf, entry, client, process, kill, request, signedIn, shutdown>>

(* drop returns, or throws if there never was a client.                    *)
Dropped ==
  /\ "drop" \in logout.waits
  /\ CloseDone(logout.entry) \/ client[logout.entry] = "failed"
  /\ logout' = [logout EXCEPT !.waits = @ \ {"drop"}]
  /\ UNCHANGED <<entryOf, entry, client, process, kill, request, signedIn, shutdown>>

(* /auth/callback.                                                         *)
SignIn(s) ==
  /\ Serving
  /\ s \notin signedIn
  /\ signedIn' = signedIn \cup {s}
  /\ UNCHANGED <<entryOf, entry, client, process, kill, request, logout, shutdown>>

------------------------------------------------------------------------------
(* shutdown(): close() of the manager, the server, the store.              *)
(* Mutant: the map is cleared before its entries are read.                 *)
TerminateForgets ==
  /\ shutdown = "no"
  /\ shutdown' = "sessions"
  /\ entryOf' = [s \in Subjects |-> NoEntry]
  /\ UNCHANGED <<entry, client, process, kill, request, signedIn, logout>>

Terminate ==
  /\ shutdown = "no"
  /\ shutdown' = "sessions"
  /\ entryOf' = [s \in Subjects |-> NoEntry]
  /\ entry' = [e \in Entries |->
       IF \E s \in Subjects : entryOf[s] = e THEN [entry[e] EXCEPT !.asked = "close"] ELSE entry[e]]
  /\ UNCHANGED <<client, process, kill, request, signedIn, logout>>

Closing == {e \in Entries : entry[e].asked = "close"}

SessionsClosed ==
  /\ shutdown = "sessions"
  /\ \A e \in Closing : CloseDone(e)
  /\ shutdown' = "server"
  /\ UNCHANGED <<entryOf, entry, client, process, kill, request, signedIn, logout>>

(* Promise.all rejects with the first client that could not be created; no *)
(* one catches it, and the service dies with an unhandled rejection.       *)
SessionsFail ==
  /\ shutdown = "sessions"
  /\ \E e \in Closing : client[e] = "failed"
  /\ shutdown' = "crashed"
  /\ UNCHANGED <<entryOf, entry, client, process, kill, request, signedIn, logout>>

ServerClosed ==
  /\ shutdown = "server"
  /\ \A r \in Requests : ~Open(r)
  /\ logout.waits = {}
  /\ shutdown' = "done"
  /\ UNCHANGED <<entryOf, entry, client, process, kill, request, signedIn, logout>>

------------------------------------------------------------------------------
Turns(e) == TurnRuns(e) \/ TurnEnds(e)
Lives(e) ==
  \/ Spawned(e) \/ TokenTaken(e) \/ Initialized(e) \/ InitializationFails(e) \/ CreationFails(e)
  \/ Closes(e) \/ GraceOver(e) \/ CloseReturns(e)

Work ==
  \/ \E r \in Requests : Refused(r) \/ Run(r)
  \/ \E e \in Entries : Turns(e) \/ Lives(e)
  \/ RowDeleted \/ Dropped
  \/ SessionsClosed \/ SessionsFail \/ ServerClosed

ServiceNext ==
  \/ \E r \in Requests, s \in Subjects : Running /\ Request(r, s)
  \/ \E r \in Requests : Running /\ Refused(r)
  \/ \E r \in Requests : Running /\ Run(r)
  \/ \E e \in Entries : Running /\ TurnRuns(e)
  \/ \E e \in Entries : Running /\ TurnEnds(e)
  \/ \E e \in Entries : Running /\ Spawned(e)
  \/ \E e \in Entries : Running /\ TokenTaken(e)
  \/ \E e \in Entries : Running /\ Initialized(e)
  \/ \E e \in Entries : Running /\ InitializationFails(e)
  \/ \E e \in Entries : Running /\ CreationFails(e)
  \/ \E e \in Entries : Running /\ Closes(e)
  \/ \E e \in Entries : Running /\ GraceOver(e)
  \/ \E e \in Entries : Running /\ CloseReturns(e)
  \/ \E e \in Entries : ProcessDies(e)
  \/ \E e \in Entries : Running /\ Evict(e)
  \/ \E s \in Subjects : Running /\ Logout(s)
  \/ \E s \in Subjects : Running /\ SignIn(s)
  \/ Running /\ RowDeleted
  \/ Running /\ Dropped
  \/ Terminate \/ SessionsClosed \/ SessionsFail \/ ServerClosed

(* Promises settle: codex answers its handshake and ends its turns or dies,*)
(* the timers of close() fire, rows are deleted.  Users owe nothing, and time  *)
(* need not pass for the sweeper.                                          *)
Fairness == WF_ServiceVars(Running /\ Work)
ServiceSpec == ServiceInit /\ [][ServiceNext]_ServiceVars /\ Fairness

------------------------------------------------------------------------------
(* No process is orphaned: one that is alive belongs to the entry its      *)
(* subject will find in the map, or somebody has asked for its close().    *)
(* Above all, the late failure of an entry that was dropped does not take  *)
(* its successor out of the map.                                           *)
NoProcessIsOrphaned ==
  \A e \in Entries :
    process[e] = "alive" => entryOf[entry[e].subject] = e \/ entry[e].asked # "no"

(* Once a logout is answered its subject's old clients are done: whatever  *)
(* became of the process it had, which may have been on its way up, failing*)
(* or hanging, it has been killed, and those evicted before are closed or  *)
(* about to be.  A client created since may log in only with a credential  *)
(* of a new sign-in.  What is left is one that was created while the row   *)
(* was being deleted: it may still have taken the old access token.        *)
LogoutEndsProcess ==
  (logout.count > 0 /\ logout.waits = {}) =>
    \A e \in CreatedFor(logout.subject) :
      /\ e = logout.entry => process[e] # "alive"
      /\ e \in logout.before => client[e] \in {"closed", "failed"} \/ entry[e].asked = "evict"
      /\ e \notin logout.before \cup logout.during /\ client[e] \in {"login", "up"}
           => logout.subject \in signedIn

(* Every request ends: neither a failed turn, nor a client that could not  *)
(* be created, nor a close() under queued turns leaves one waiting.        *)
RequestsEnd ==
  \A r \in Requests : Open(r) ~> (~Open(r) \/ ~Running)

(* A shutdown ends with every process gone, those evicted or dropped before*)
(* it included, unless a client whose creation was under way could not be  *)
(* created.                                                                *)
ShutdownEnds ==
  shutdown = "sessions" ~>
    \/ shutdown = "crashed"
    \/ shutdown = "done" /\ \A e \in Entries : process[e] # "alive"

==============================================================================
