----------------------------- MODULE StoreTypes -----------------------------
(***************************************************************************)
(* What a credential store and its callers exchange, common to every store *)
(* of the repository (typescript/src/core/types.ts, CredentialStore).  The *)
(* content of a row is the call that wrote it: nothing else of a token set *)
(* matters to a store.                                                     *)
(***************************************************************************)
EXTENDS Naturals

CONSTANTS
  Calls,      \* invocations of the store
  NoCall,     \* "nobody": not a call
  Subjects,   \* keys
  Requests    \* what this instance's calls may ask, of Request

(* A missing row has version 0. *)
Row     == [ver: Nat, by: Calls \cup {NoCall}]
Missing == [ver |-> 0, by |-> NoCall]

(* expected is the version compareAndSwap compares with; load and delete    *)
(* have none.                                                               *)
Request   == [op: {"load", "cas", "delete"}, subject: Subjects, expected: Nat]
NoRequest == [op |-> "none"]

ASSUME NoCallAssumption   == NoCall \notin Calls
ASSUME RequestsAssumption == Requests \subseteq Request

(* found: load's answer; won and lost: compareAndSwap's ok, with current.   *)
Answer  == [kind: {"pending", "found", "won", "lost", "deleted", "failed"}, row: Row]

Pending  == [kind |-> "pending", row |-> Missing]
Found(r) == [kind |-> "found", row |-> r]
Won(r)   == [kind |-> "won", row |-> r]
Lost(r)  == [kind |-> "lost", row |-> r]
Deleted  == [kind |-> "deleted", row |-> Missing]
Failed   == [kind |-> "failed", row |-> Missing]

(* The row a call that wins its compare-and-swap stores: the store numbers  *)
(* it, whatever version the caller wrote in it.                             *)
Stored(c, expected) == [ver |-> expected + 1, by |-> c]

(* What the rows may be when the first call comes. *)
SomeRows == [Subjects -> {Missing, [ver |-> 1, by |-> NoCall]}]

=============================================================================
