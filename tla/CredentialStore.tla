-------------------------- MODULE CredentialStore --------------------------
(***************************************************************************)
(* What a CredentialStore promises its callers (typescript/src/core        *)
(* types.ts; docs/storage.md): between its invocation and its return every *)
(* call takes effect at one moment, or fails.  A call that fails may have  *)
(* taken effect, because a store error can follow the write.               *)
(*                                                                         *)
(* The memory stores are this specification with nothing between           *)
(* invocation, effect and return; the other stores implement it.           *)
(***************************************************************************)
EXTENDS StoreTypes

VARIABLES
  rows,       \* subject -> row
  phase,      \* idle, open (invoked), decided (took effect), done (returned)
  req,        \* what each call asked
  ans         \* what each call is answered

vars == <<rows, phase, req, ans>>

Init ==
  /\ rows \in SomeRows
  /\ phase = [c \in Calls |-> "idle"]
  /\ req = [c \in Calls |-> NoRequest]
  /\ ans = [c \in Calls |-> Pending]

Invoke(c, r) ==
  /\ phase[c] = "idle"
  /\ phase' = [phase EXCEPT ![c] = "open"]
  /\ req' = [req EXCEPT ![c] = r]
  /\ UNCHANGED <<rows, ans>>

Decide(c, answer) ==
  /\ phase[c] = "open"
  /\ phase' = [phase EXCEPT ![c] = "decided"]
  /\ ans' = [ans EXCEPT ![c] = answer]
  /\ UNCHANGED req

Load(c) ==
  /\ req[c].op = "load"
  /\ Decide(c, Found(rows[req[c].subject]))
  /\ UNCHANGED rows

Matches(c) == rows[req[c].subject].ver = req[c].expected

Swap(c) ==
  /\ req[c].op = "cas" /\ Matches(c)
  /\ rows' = [rows EXCEPT ![req[c].subject] = Stored(c, req[c].expected)]
  /\ Decide(c, Won(Stored(c, req[c].expected)))

Refuse(c) ==
  /\ req[c].op = "cas" /\ ~Matches(c)
  /\ Decide(c, Lost(rows[req[c].subject]))
  /\ UNCHANGED rows

Delete(c) ==
  /\ req[c].op = "delete"
  /\ rows' = [rows EXCEPT ![req[c].subject] = Missing]
  /\ Decide(c, Deleted)

Return(c) ==
  /\ phase[c] = "decided"
  /\ phase' = [phase EXCEPT ![c] = "done"]
  /\ UNCHANGED <<rows, req, ans>>

(* Calls end with an error, or die with their process.                      *)
Fail(C) ==
  /\ C # {} /\ \A c \in C : phase[c] \in {"open", "decided"}
  /\ phase' = [c \in Calls |-> IF c \in C THEN "done" ELSE phase[c]]
  /\ ans' = [c \in Calls |-> IF c \in C THEN Failed ELSE ans[c]]
  /\ UNCHANGED <<rows, req>>

Step(c) == Load(c) \/ Swap(c) \/ Refuse(c) \/ Delete(c) \/ Return(c)

Next ==
  \/ \E c \in Calls : Step(c) \/ \E r \in Requests : Invoke(c, r)
  \/ \E C \in SUBSET Calls : Fail(C)

Spec == Init /\ [][Next]_vars

-----------------------------------------------------------------------------
TypeOK ==
  /\ rows \in [Subjects -> Row]
  /\ phase \in [Calls -> {"idle", "open", "decided", "done"}]
  /\ req \in [Calls -> Requests \cup {NoRequest}]
  /\ ans \in [Calls -> Answer]

(* A subject nobody has removed or may be removing. *)
Undeleted(s) == \A c \in Calls : req[c] # NoRequest =>
                  ~(req[c].op = "delete" /\ req[c].subject = s)

Winner(c) == ans[c].kind = "won"
Same(c, d) == req[c].subject = req[d].subject /\ req[c].expected = req[d].expected

(* docs/storage.md: of the writes that expect the same version exactly one  *)
(* wins.  A delete starts the versions again, so it is excepted.            *)
OneWinnerPerVersion ==
  \A c, d \in Calls : Winner(c) /\ Winner(d) /\ Same(c, d) /\ Undeleted(req[c].subject) => c = d

(* No winner's write is lost: the row has its version, and then it is the   *)
(* winner's row, or a later one.                                            *)
WinnersAreNotLost ==
  \A c \in Calls : Winner(c) /\ Undeleted(req[c].subject) =>
    /\ rows[req[c].subject].ver >= ans[c].row.ver
    /\ rows[req[c].subject].ver = ans[c].row.ver => rows[req[c].subject].by = c

=============================================================================
