----------------------------- MODULE SecureStore -----------------------------
(***************************************************************************)
(* The React Native store (typescript/src/react-native/index.ts): an item  *)
(* per subject in the device's secure storage, which offers no             *)
(* compare-and-swap, so the calls that change a subject run one after the  *)
(* other along a chain of promises kept per subject.  It implements        *)
(* CredentialStore while one process of the application runs at a time.    *)
(***************************************************************************)
EXTENDS StoreTypes

VARIABLES
  items,      \* the secure storage: subject -> row
  tail,       \* locks: the last call in a subject's chain
  prev,       \* the call a queued call waits for
  pc, req, ans,
  todo        \* the row a call has decided to store

vars == <<items, tail, prev, pc, req, ans, todo>>

Phases == {"idle", "load", "queued", "get", "set", "delete", "release", "return", "done"}

TypeOK ==
  /\ items \in [Subjects -> Row]
  /\ tail \in [Subjects -> Calls \cup {NoCall}]
  /\ prev \in [Calls -> Calls \cup {NoCall}]
  /\ pc \in [Calls -> Phases]
  /\ req \in [Calls -> Requests \cup {NoRequest}]
  /\ ans \in [Calls -> Answer]
  /\ todo \in [Calls -> Row]

Init ==
  /\ items \in SomeRows
  /\ tail = [s \in Subjects |-> NoCall]
  /\ prev = [c \in Calls |-> NoCall]
  /\ pc = [c \in Calls |-> "idle"]
  /\ req = [c \in Calls |-> NoRequest]
  /\ ans = [c \in Calls |-> Pending]
  /\ todo = [c \in Calls |-> Missing]

Goto(c, phase) == pc' = [pc EXCEPT ![c] = phase]
Answers(c, answer) == ans' = [ans EXCEPT ![c] = answer]

(* serialized, up to its first await: the call becomes the chain's tail.    *)
Invoke(c, r) ==
  /\ pc[c] = "idle"
  /\ req' = [req EXCEPT ![c] = r]
  /\ IF r.op = "load"
       THEN Goto(c, "load") /\ UNCHANGED <<tail, prev>>
       ELSE /\ prev' = [prev EXCEPT ![c] = tail[r.subject]]
            /\ tail' = [tail EXCEPT ![r.subject] = c]
            /\ Goto(c, "queued")
  /\ UNCHANGED <<items, ans, todo>>

Load(c) ==
  /\ pc[c] = "load"
  /\ Answers(c, Found(items[req[c].subject]))
  /\ Goto(c, "return")
  /\ UNCHANGED <<items, tail, prev, req, todo>>

Released(c) == pc[c] \in {"return", "done"}

(* Mutant: nothing is awaited. *)
EnterAtOnce(c) ==
  /\ pc[c] = "queued"
  /\ Goto(c, IF req[c].op = "cas" THEN "get" ELSE "delete")
  /\ UNCHANGED <<items, tail, prev, req, ans, todo>>

(* await previous: the tail of the chain as it was resolves when every call *)
(* before this one has released.                                            *)
Enter(c) ==
  /\ pc[c] = "queued"
  /\ prev[c] \in {NoCall} \cup {d \in Calls : Released(d)}
  /\ Goto(c, IF req[c].op = "cas" THEN "get" ELSE "delete")
  /\ UNCHANGED <<items, tail, prev, req, ans, todo>>

GetItem(c) ==
  /\ pc[c] = "get"
  /\ LET row == items[req[c].subject]
         e   == req[c].expected
     IN  \/ /\ row.ver = e
            /\ todo' = [todo EXCEPT ![c] = Stored(c, e)]
            /\ Goto(c, "set") /\ UNCHANGED ans
         \/ /\ row.ver # e
            /\ Answers(c, Lost(row))
            /\ Goto(c, "release") /\ UNCHANGED todo
  /\ UNCHANGED <<items, tail, prev, req>>

SetItem(c) ==
  /\ pc[c] = "set"
  /\ items' = [items EXCEPT ![req[c].subject] = todo[c]]
  /\ Answers(c, Won(todo[c]))
  /\ Goto(c, "release")
  /\ UNCHANGED <<tail, prev, req, todo>>

DeleteItem(c) ==
  /\ pc[c] = "delete"
  /\ items' = [items EXCEPT ![req[c].subject] = Missing]
  /\ Answers(c, Deleted)
  /\ Goto(c, "release")
  /\ UNCHANGED <<tail, prev, req, todo>>

(* The secure storage rejects: the device is locked, the item is too large, *)
(* the text is not the JSON of a token.                                     *)
Reject(c) ==
  /\ \/ pc[c] = "load" /\ Goto(c, "return")
     \/ pc[c] \in {"get", "set", "delete"} /\ Goto(c, "release")
  /\ Answers(c, Failed)
  /\ UNCHANGED <<items, tail, prev, req, todo>>

(* Mutant: the release is not in the finally clause. *)
ReleaseUnlessRejected(c) ==
  /\ pc[c] = "release" /\ ans[c] # Failed
  /\ Goto(c, "return")
  /\ UNCHANGED <<items, tail, prev, req, ans, todo>>

Release(c) ==
  /\ pc[c] = "release"
  /\ tail' = [tail EXCEPT ![req[c].subject] = IF @ = c THEN NoCall ELSE @]
  /\ prev' = [prev EXCEPT ![c] = NoCall]
  /\ todo' = [todo EXCEPT ![c] = Missing]
  /\ Goto(c, "return")
  /\ UNCHANGED <<items, req, ans>>

Return(c) ==
  /\ pc[c] = "return"
  /\ Goto(c, "done")
  /\ UNCHANGED <<items, tail, prev, req, ans, todo>>

Running(c) == pc[c] \notin {"idle", "done"}

(* The application dies and comes back with empty chains. *)
Restart ==
  LET dying == {c \in Calls : Running(c)}
  IN  /\ dying # {}
      /\ pc' = [c \in Calls |-> IF c \in dying THEN "done" ELSE pc[c]]
      /\ ans' = [c \in Calls |-> IF c \in dying THEN Failed ELSE ans[c]]
      /\ tail' = [s \in Subjects |-> NoCall]
      /\ prev' = [c \in Calls |-> NoCall] /\ todo' = [c \in Calls |-> Missing]
      /\ UNCHANGED <<items, req>>

Step(c) ==
  \/ Load(c) \/ Enter(c) \/ GetItem(c) \/ SetItem(c) \/ DeleteItem(c)
  \/ Release(c) \/ Return(c)

Next ==
  \/ \E c \in Calls : Step(c) \/ Reject(c) \/ \E r \in Requests : Invoke(c, r)
  \/ Restart

Spec == Init /\ [][Next]_vars

(* The secure storage settles every request. *)
FairSpec == Spec /\ \A c \in Calls : WF_vars(Step(c))

-----------------------------------------------------------------------------
(* A call took effect when its answer was fixed. *)
Phase(c) ==
  CASE pc[c] \in {"idle", "done"} -> pc[c]
    [] pc[c] \in {"load", "queued", "get", "set", "delete"} -> "open"
    [] OTHER -> IF ans[c] = Failed THEN "done" ELSE "decided"

Abstract == INSTANCE CredentialStore WITH
  rows <- items, phase <- [c \in Calls |-> Phase(c)], req <- req, ans <- ans

(* Every call takes effect at one moment or fails, although the storage     *)
(* reads and writes in separate requests (serialized).                      *)
ImplementsStore == Abstract!Spec

(* A rejected request does not leave the rest of the chain waiting. *)
EveryCallReturns == \A c \in Calls : Running(c) ~> pc[c] = "done"

=============================================================================
