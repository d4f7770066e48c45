----------------------------- MODULE FlockStore -----------------------------
(***************************************************************************)
(* The Python file store (python/src/chatgpt_oauth/stores/file.py): all    *)
(* subjects in one encrypted file, replaced whole under flock, and read    *)
(* without the lock.  It implements CredentialStore, across the threads of *)
(* a process and across processes that die anywhere.                       *)
(***************************************************************************)
EXTENDS StoreTypes

CONSTANTS Procs, Home    \* processes, and the one each call runs in

ASSUME HomeAssumption == Home \in [Calls -> Procs]

VARIABLES
  file,       \* the data file: subject -> row
  holder,     \* the call whose descriptor has the flock
  pc,         \* where each call is
  req, ans,
  records     \* the records a call read, with its own change

vars == <<file, holder, pc, req, ans, records>>

Phases == {"idle", "load", "lock", "read", "write", "tidy", "unlock", "return", "done"}
NoRecords == [s \in Subjects |-> Missing]

TypeOK ==
  /\ file \in [Subjects -> Row]
  /\ holder \in Calls \cup {NoCall}
  /\ pc \in [Calls -> Phases]
  /\ req \in [Calls -> Requests \cup {NoRequest}]
  /\ ans \in [Calls -> Answer]
  /\ records \in [Calls -> [Subjects -> Row]]

Init ==
  /\ file \in SomeRows
  /\ holder = NoCall
  /\ pc = [c \in Calls |-> "idle"]
  /\ req = [c \in Calls |-> NoRequest]
  /\ ans = [c \in Calls |-> Pending]
  /\ records = [c \in Calls |-> NoRecords]

Goto(c, phase) == pc' = [pc EXCEPT ![c] = phase]
Answers(c, answer) == ans' = [ans EXCEPT ![c] = answer]

Invoke(c, r) ==
  /\ pc[c] = "idle"
  /\ req' = [req EXCEPT ![c] = r]
  /\ Goto(c, IF r.op = "load" THEN "load" ELSE "lock")
  /\ UNCHANGED <<file, holder, ans, records>>

(* The file is replaced by a rename, so a reader without the lock sees one  *)
(* generation of it.                                                        *)
Load(c) ==
  /\ pc[c] = "load"
  /\ Answers(c, Found(file[req[c].subject]))
  /\ Goto(c, "return")
  /\ UNCHANGED <<file, holder, req, records>>

(* Mutant: the lock belongs to the process, not to the descriptor. *)
LockPerProcess(c) ==
  /\ pc[c] = "lock"
  /\ holder \notin {d \in Calls : Home[d] # Home[c]}
  /\ holder' = c
  /\ Goto(c, "read")
  /\ UNCHANGED <<file, req, ans, records>>

Lock(c) ==
  /\ pc[c] = "lock" /\ holder = NoCall
  /\ holder' = c
  /\ Goto(c, "read")
  /\ UNCHANGED <<file, req, ans, records>>

(* Mutant: an expected version older than the row's is good enough.         *)
ReadRecordsOlder(c) ==
  /\ pc[c] = "read"
  /\ LET s == req[c].subject
         e == req[c].expected
         write(row, answer) == /\ records' = [records EXCEPT ![c] = [file EXCEPT ![s] = row]]
                               /\ Goto(c, "write")
                               /\ UNCHANGED ans
     IN  \/ req[c].op = "delete" /\ write(Missing, Deleted)
         \/ req[c].op = "cas" /\ file[s].ver >= e /\ write(Stored(c, e), Won(Stored(c, e)))
         \/ /\ req[c].op = "cas" /\ file[s].ver < e
            /\ Answers(c, Lost(file[s]))
            /\ Goto(c, "unlock")
            /\ UNCHANGED records
  /\ UNCHANGED <<file, holder, req>>

(* Under the lock: read every record, compare, and change one of them.      *)
ReadRecords(c) ==
  /\ pc[c] = "read"
  /\ LET s == req[c].subject
         e == req[c].expected
         write(row, answer) == /\ records' = [records EXCEPT ![c] = [file EXCEPT ![s] = row]]
                               /\ Goto(c, "write")
                               /\ UNCHANGED ans
     IN  \/ req[c].op = "delete" /\ write(Missing, Deleted)
         \/ req[c].op = "cas" /\ file[s].ver = e /\ write(Stored(c, e), Won(Stored(c, e)))
         \/ /\ req[c].op = "cas" /\ file[s].ver # e
            /\ Answers(c, Lost(file[s]))
            /\ Goto(c, "unlock")
            /\ UNCHANGED records
  /\ UNCHANGED <<file, holder, req>>

(* os.replace: the temporary file becomes the data file.                    *)
Replace(c) ==
  /\ pc[c] = "write"
  /\ file' = records[c]
  /\ Answers(c, IF req[c].op = "delete" THEN Deleted ELSE Won(records[c][req[c].subject]))
  /\ records' = [records EXCEPT ![c] = NoRecords]
  /\ Goto(c, "tidy")
  /\ UNCHANGED <<holder, req>>

(* The mode and the directory are made durable after the replacement.       *)
Tidy(c) ==
  /\ pc[c] = "tidy"
  /\ Goto(c, "unlock")
  /\ UNCHANGED <<file, holder, req, ans, records>>

(* Opening, reading, writing or making durable raises: the context manager  *)
(* unlocks what it locked.                                                  *)
Raise(c) ==
  /\ \/ pc[c] \in {"load", "lock"} /\ Goto(c, "return")
     \/ pc[c] \in {"read", "write", "tidy"} /\ Goto(c, "unlock")
  /\ Answers(c, Failed)
  /\ records' = [records EXCEPT ![c] = NoRecords]
  /\ UNCHANGED <<file, holder, req>>

Unlock(c) ==
  /\ pc[c] = "unlock"
  /\ holder' = NoCall
  /\ Goto(c, "return")
  /\ UNCHANGED <<file, req, ans, records>>

Return(c) ==
  /\ pc[c] = "return"
  /\ Goto(c, "done")
  /\ UNCHANGED <<file, holder, req, ans, records>>

Running(c) == pc[c] \notin {"idle", "done"}

(* A process dies: its calls end, the kernel drops its locks, and the       *)
(* temporary file it may have left is never read.                           *)
Crash(p) ==
  LET dying == {c \in Calls : Home[c] = p /\ Running(c)}
  IN  /\ dying # {}
      /\ pc' = [c \in Calls |-> IF c \in dying THEN "done" ELSE pc[c]]
      /\ ans' = [c \in Calls |-> IF c \in dying THEN Failed ELSE ans[c]]
      /\ records' = [c \in Calls |-> IF c \in dying THEN NoRecords ELSE records[c]]
      /\ holder' = IF holder \in dying THEN NoCall ELSE holder
      /\ UNCHANGED <<file, req>>

Step(c) ==
  \/ Load(c) \/ Lock(c) \/ ReadRecords(c) \/ Replace(c) \/ Tidy(c)
  \/ Unlock(c) \/ Return(c)

Next ==
  \/ \E c \in Calls : Step(c) \/ Raise(c) \/ \E r \in Requests : Invoke(c, r)
  \/ \E p \in Procs : Crash(p)

Spec == Init /\ [][Next]_vars

-----------------------------------------------------------------------------
(* A call took effect when its answer was fixed: at the read for a load and *)
(* a compare-and-swap that loses, at the replacement for a write.           *)
Phase(c) ==
  CASE pc[c] \in {"idle", "done"} -> pc[c]
    [] pc[c] \in {"load", "lock", "read", "write"} -> "open"
    [] OTHER -> IF ans[c] = Failed THEN "done" ELSE "decided"

Abstract == INSTANCE CredentialStore WITH
  rows <- file, phase <- [c \in Calls |-> Phase(c)], req <- req, ans <- ans

(* Every call takes effect at one moment between its invocation and its     *)
(* return, or fails, whatever the threads and processes do (_locked, _read, *)
(* _write).                                                                 *)
ImplementsStore == Abstract!Spec

(* docs/storage.md: of the writes that expect the same version exactly one  *)
(* wins, across threads and processes; and what a winner was told it wrote  *)
(* stays until a later version takes its place (compare_and_swap).          *)
OneWinnerPerVersion == Abstract!OneWinnerPerVersion
WinnersAreNotLost == Abstract!WinnersAreNotLost

(* Whoever changes the file holds the lock, and what it is about to write   *)
(* differs from the file in its own subject only: a write for one subject   *)
(* never takes back another subject's (the whole file is rewritten).        *)
WritersHoldTheLock ==
  \A c \in Calls : pc[c] = "write" =>
    /\ holder = c
    /\ \A s \in Subjects \ {req[c].subject} : records[c][s] = file[s]

=============================================================================
