------------------------------ MODULE FileStore ------------------------------
(***************************************************************************)
(* The Node file store (typescript/src/node/file-store.ts): one encrypted  *)
(* file under a lock file that names its owner, "pid:nonce".  A lock whose *)
(* owner is dead is reaped under a second lock file, the reaper, which can *)
(* be reaped in its turn.  An action is the code between two awaits: every *)
(* file is read, linked or removed in a step of its own.                   *)
(***************************************************************************)
EXTENDS StoreTypes

CONSTANTS
  Procs, Home,  \* processes, and the one each call runs in
  Before,       \* calls whose processes had died before this began
  Faults        \* the faults this instance allows, of {"crash", "io"}

ASSUME HomeAssumption == Home \in [Calls -> Procs]
ASSUME BeforeAssumption == Before \subseteq Calls

VARIABLES
  file,       \* the data file: subject -> row
  lock,       \* the owner of credentials.lock, or NoCall: no such file
  reaper,     \* the owner of credentials.lock.reaper
  pc, req, ans,
  saw,        \* the owner a call has read from a lock file
  reaped,     \* what reapStaleLock is about to return
  records,    \* the records a call read, with its own change
  calm        \* does this behaviour go without deadlines and I/O errors?

locals == <<saw, reaped, records>>
vars == <<file, lock, reaper, pc, req, ans, saw, reaped, records, calm>>

ReapPhases == {"reap", "peekReaper", "killReaper", "rmReaper", "confirm", "peekLock",
               "killLock", "confirmAgain", "rmLock", "dropReaper", "rmOwnReaper"}
Phases == ReapPhases \cup
  {"idle", "load", "try", "pause", "read", "write", "tidy", "unlock", "rmOwnLock",
   "return", "done", "dead"}
NoRecords == [s \in Subjects |-> Missing]

TypeOK ==
  /\ file \in [Subjects -> Row]
  /\ lock \in Calls \cup {NoCall} /\ reaper \in Calls \cup {NoCall}
  /\ pc \in [Calls -> Phases]
  /\ req \in [Calls -> Requests \cup {NoRequest}]
  /\ ans \in [Calls -> Answer]
  /\ saw \in [Calls -> Calls \cup {NoCall}]
  /\ reaped \in [Calls -> BOOLEAN]
  /\ records \in [Calls -> [Subjects -> Row]]
  /\ calm \in BOOLEAN

(* A process that died may have left the reaper behind.                     *)
Init ==
  /\ file \in SomeRows
  /\ lock = NoCall /\ reaper \in {NoCall} \cup Before
  /\ pc = [c \in Calls |-> IF c \in Before THEN "dead" ELSE "idle"]
  /\ req = [c \in Calls |-> NoRequest]
  /\ ans = [c \in Calls |-> Pending]
  /\ saw = [c \in Calls |-> NoCall]
  /\ reaped = [c \in Calls |-> FALSE]
  /\ records = [c \in Calls |-> NoRecords]
  /\ calm \in BOOLEAN

Dead(c) == pc[c] = "dead"
IOFails == "io" \in Faults /\ ~calm
Goto(c, phase) == pc' = [pc EXCEPT ![c] = phase]
Answers(c, answer) == ans' = [ans EXCEPT ![c] = answer]
Continue(c, phase) == Goto(c, phase) /\ UNCHANGED <<file, req, ans, locals>>
Reads(c, owner) == saw' = [saw EXCEPT ![c] = owner]

Invoke(c, r) ==
  /\ pc[c] = "idle"
  /\ req' = [req EXCEPT ![c] = r]
  /\ Goto(c, IF r.op = "load" THEN "load" ELSE "try")
  /\ UNCHANGED <<file, lock, reaper, ans, locals>>

(* load reads the file without the lock. *)
Load(c) ==
  /\ pc[c] = "load"
  /\ Answers(c, Found(file[req[c].subject]))
  /\ Goto(c, "return")
  /\ UNCHANGED <<file, lock, reaper, req, locals>>

-----------------------------------------------------------------------------
(* withLock: try, reap, wait *)

(* tryAcquireLock links a complete claim file to the lock's name. *)
Try(c) ==
  /\ pc[c] = "try"
  /\ IF lock = NoCall
       THEN lock' = c /\ Continue(c, "read")
       ELSE Continue(c, "reap") /\ UNCHANGED lock
  /\ UNCHANGED reaper

(* Ten milliseconds later the call tries again, or its deadline has passed. *)
Retry(c) ==
  /\ pc[c] = "pause"
  /\ Continue(c, "try")
  /\ UNCHANGED <<lock, reaper>>
GiveUp(c) ==
  /\ ~calm
  /\ pc[c] = "pause"
  /\ Answers(c, Failed)
  /\ Goto(c, "return")
  /\ UNCHANGED <<file, lock, reaper, req, locals>>

Reap(c) ==
  /\ pc[c] = "reap"
  /\ IF reaper = NoCall
       THEN reaper' = c /\ Continue(c, "confirm")
       ELSE Continue(c, "peekReaper") /\ UNCHANGED reaper
  /\ UNCHANGED lock

(* staleLock of the file that owner stands in: a file that is gone counts   *)
(* as stale, else the owner's process is asked for after the read.          *)
Peek(c, owner, ifGone, ifRead) ==
  /\ Reads(c, owner)
  /\ Goto(c, IF owner = NoCall THEN ifGone ELSE ifRead)
  /\ UNCHANGED <<file, lock, reaper, req, ans, reaped, records>>

SomeAlive(p) == \E c \in Calls : Home[c] = p /\ ~Dead(c)
Kill(c, ifDead, ifAlive) ==
  /\ Goto(c, IF SomeAlive(Home[saw[c]]) THEN ifAlive ELSE ifDead)
  /\ saw' = [saw EXCEPT ![c] = NoCall]
  /\ UNCHANGED <<file, lock, reaper, req, ans, reaped, records>>

(* Mutant: nobody looks after a reaper that died. *)
IgnoreReaper(c) ==
  /\ pc[c] = "peekReaper"
  /\ Continue(c, "pause")
  /\ UNCHANGED <<lock, reaper>>

(* A crashed reaper must not make the store permanently unavailable. *)
PeekReaper(c) == pc[c] = "peekReaper" /\ Peek(c, reaper, "rmReaper", "killReaper")
KillReaper(c) == pc[c] = "killReaper" /\ Kill(c, "rmReaper", "pause")
RmReaper(c) ==
  /\ pc[c] = "rmReaper"
  /\ reaper' = NoCall
  /\ Continue(c, "pause")
  /\ UNCHANGED lock

(* With the reaper's lock: still mine?  Is the lock stale?  Still mine?     *)
StillMine(c, phase) ==
  /\ Continue(c, IF reaper = c THEN phase ELSE "dropReaper")
  /\ UNCHANGED <<lock, reaper>>
ConfirmForgets(c) == pc[c] = "confirm" /\ StillMine(c, "rmLock")    \* mutant: is it stale?
Confirm(c)      == pc[c] = "confirm" /\ StillMine(c, "peekLock")
PeekLock(c)     == pc[c] = "peekLock" /\ Peek(c, lock, "confirmAgain", "killLock")
KillLock(c)     == pc[c] = "killLock" /\ Kill(c, "confirmAgain", "dropReaper")
ConfirmAgain(c) == pc[c] = "confirmAgain" /\ StillMine(c, "rmLock")

RmLock(c) ==
  /\ pc[c] = "rmLock"
  /\ lock' = NoCall
  /\ reaped' = [reaped EXCEPT ![c] = TRUE]
  /\ Goto(c, "dropReaper")
  /\ UNCHANGED <<file, reaper, req, ans, saw, records>>

(* The finally clause: releaseLock reads the owner before it removes.  Who  *)
(* removed the lock tries at once, the others wait first.                   *)
AfterReap(c) ==
  /\ Goto(c, IF ans[c] = Failed THEN "return" ELSE IF reaped[c] THEN "try" ELSE "pause")
  /\ reaped' = [reaped EXCEPT ![c] = FALSE]
  /\ UNCHANGED <<file, lock, req, ans, saw, records>>

DropReaper(c) ==
  /\ pc[c] = "dropReaper"
  /\ IF reaper = c THEN Continue(c, "rmOwnReaper") /\ UNCHANGED lock ELSE AfterReap(c)
  /\ UNCHANGED reaper
RmOwnReaper(c) ==
  /\ pc[c] = "rmOwnReaper"
  /\ reaper' = NoCall
  /\ AfterReap(c)

-----------------------------------------------------------------------------
(* The operation, under the lock *)

ReadRecords(c) ==
  /\ pc[c] = "read"
  /\ LET s == req[c].subject
         e == req[c].expected
         write(row) == /\ records' = [records EXCEPT ![c] = [file EXCEPT ![s] = row]]
                       /\ Goto(c, "write")
                       /\ UNCHANGED ans
     IN  \/ req[c].op = "delete" /\ write(Missing)
         \/ req[c].op = "cas" /\ file[s].ver = e /\ write(Stored(c, e))
         \/ /\ req[c].op = "cas" /\ file[s].ver # e
            /\ Answers(c, Lost(file[s]))
            /\ Goto(c, "unlock")
            /\ UNCHANGED records
  /\ UNCHANGED <<file, lock, reaper, req, saw, reaped>>

(* atomicWrite: the temporary file is renamed onto the data file. *)
Rename(c) ==
  /\ pc[c] = "write"
  /\ file' = records[c]
  /\ Answers(c, IF req[c].op = "delete" THEN Deleted ELSE Won(records[c][req[c].subject]))
  /\ records' = [records EXCEPT ![c] = NoRecords]
  /\ Goto(c, "tidy")
  /\ UNCHANGED <<lock, reaper, req, saw, reaped>>

Tidy(c) ==
  /\ pc[c] = "tidy"
  /\ Continue(c, "unlock")
  /\ UNCHANGED <<lock, reaper>>

(* Reading or writing throws; the finally clause releases the lock. *)
Throw(c) ==
  /\ IOFails
  /\ \/ pc[c] = "load" /\ Goto(c, "return")
     \/ pc[c] \in {"read", "write", "tidy"} /\ Goto(c, "unlock")
  /\ Answers(c, Failed)
  /\ records' = [records EXCEPT ![c] = NoRecords]
  /\ UNCHANGED <<file, lock, reaper, req, saw, reaped>>

(* releaseLock reads the owner, then removes the file. *)
Unlock(c) ==
  /\ pc[c] = "unlock"
  /\ Continue(c, IF lock = c THEN "rmOwnLock" ELSE "return")
  /\ UNCHANGED <<lock, reaper>>
RmOwnLock(c) ==
  /\ pc[c] = "rmOwnLock"
  /\ lock' = NoCall
  /\ Continue(c, "return")
  /\ UNCHANGED reaper

Return(c) ==
  /\ pc[c] = "return"
  /\ Continue(c, "done")
  /\ UNCHANGED <<lock, reaper>>

(* Input and output errors around the locks.  A lock file whose owner could *)
(* not clean up stays, with an owner that is alive.                         *)
LeaveLock(c) ==
  /\ IOFails
  /\ \/ pc[c] = "try" /\ lock = NoCall /\ lock' = c /\ UNCHANGED reaper
        /\ Goto(c, "return") /\ Answers(c, Failed)
     \/ pc[c] = "reap" /\ reaper = NoCall /\ reaper' = c /\ UNCHANGED lock
        /\ Goto(c, "return") /\ Answers(c, Failed)
     \/ pc[c] = "unlock" /\ Goto(c, "return") /\ UNCHANGED <<ans, lock, reaper>>
     \/ pc[c] \in {"rmReaper", "rmOwnReaper", "rmOwnLock"} /\ Goto(c, "return")
        /\ Answers(c, Failed) /\ UNCHANGED <<lock, reaper>>
     \/ pc[c] = "rmLock" /\ Goto(c, "dropReaper")
        /\ Answers(c, Failed) /\ UNCHANGED <<lock, reaper>>
  /\ UNCHANGED <<file, req, locals>>

(* A lock file that cannot be read is not stale, and not the caller's own.  *)
Unreadable(c) ==
  /\ IOFails
  /\ \/ pc[c] = "peekReaper" /\ Continue(c, "pause")
     \/ pc[c] \in {"confirm", "peekLock", "confirmAgain"} /\ Continue(c, "dropReaper")
     \/ pc[c] = "dropReaper" /\ AfterReap(c)
  /\ UNCHANGED <<lock, reaper>>

Running(c) == pc[c] \notin {"idle", "done", "dead"}

(* A process dies with all its calls; its lock files stay. *)
Crash(p) ==
  /\ "crash" \in Faults
  /\ \E c \in Calls : Home[c] = p /\ Running(c)
  /\ pc' = [c \in Calls |-> IF Home[c] = p THEN "dead" ELSE pc[c]]
  /\ ans' = [c \in Calls |-> IF Home[c] = p /\ Running(c) THEN Failed ELSE ans[c]]
  /\ UNCHANGED <<file, lock, reaper, req, locals>>

Step(c) ==
  \/ Load(c) \/ Try(c) \/ Retry(c) \/ Reap(c)
  \/ PeekReaper(c) \/ KillReaper(c) \/ RmReaper(c)
  \/ Confirm(c) \/ PeekLock(c) \/ KillLock(c) \/ ConfirmAgain(c) \/ RmLock(c)
  \/ DropReaper(c) \/ RmOwnReaper(c)
  \/ ReadRecords(c) \/ Rename(c) \/ Tidy(c) \/ Unlock(c) \/ RmOwnLock(c) \/ Return(c)

Goes(c) == Step(c) /\ UNCHANGED calm

TimesOut(c) == GiveUp(c) /\ UNCHANGED calm

Meets(c) ==
  /\ Throw(c) \/ LeaveLock(c) \/ Unreadable(c) \/ \E r \in Requests : Invoke(c, r)
  /\ UNCHANGED calm

Next ==
  \/ \E c \in Calls : Goes(c) \/ TimesOut(c) \/ Meets(c)
  \/ \E p \in Procs : Crash(p) /\ UNCHANGED calm

Spec == Init /\ [][Next]_vars

(* Every event loop runs, the file system settles every request, and the    *)
(* deadline of a call that keeps coming to it passes, unless this is a      *)
(* behaviour without deadlines.                                             *)
FairSpec ==
  /\ Spec
  /\ \A c \in Calls : WF_vars(Goes(c)) /\ SF_vars(TimesOut(c))

-----------------------------------------------------------------------------
(* A call took effect when its answer was fixed. *)
Phase(c) ==
  CASE pc[c] \in {"idle", "done"} -> pc[c]
    [] pc[c] = "dead" -> IF req[c] = NoRequest THEN "idle" ELSE "done"
    [] Running(c) /\ ans[c] = Failed -> "done"
    [] Running(c) /\ ans[c] = Pending -> "open"
    [] OTHER -> "decided"

Abstract == INSTANCE CredentialStore WITH
  rows <- file, phase <- [c \in Calls |-> Phase(c)], req <- req, ans <- ans

(* While no more than two calls meet, every call takes effect at one moment *)
(* or fails, through any crash.                                             *)
ImplementsStore == Abstract!Spec

(* Every call returns, at the latest when its deadline passes; and without  *)
(* deadlines too, as long as the file system works: a lock or a reaper's    *)
(* file that a dead process left never blocks the living for good           *)
(* (staleLock, and the comment in reapStaleLock).                           *)
EveryCallReturns == \A c \in Calls : Running(c) ~> ~Running(c)

(* docs/storage.md: fire N simultaneous writes at the same expected         *)
(* version.  Exactly one wins.                                              *)
ExactlyOneWins == Abstract!OneWinnerPerVersion

=============================================================================
