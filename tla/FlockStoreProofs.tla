-------------------------- MODULE FlockStoreProofs --------------------------
(***************************************************************************)
(* The file store under flock implements the abstract store, for any       *)
(* number of calls, processes and subjects.                                *)
(***************************************************************************)
EXTENDS FlockStore, TLAPS

Deciding == {"idle", "load", "lock", "read", "write"}
Locked   == {"read", "write", "tidy", "unlock"}

(* What a call has asked and been told, by where it is. *)
CallsFit ==
  \A c \in Calls :
    /\ pc[c] = "idle" => req[c] = NoRequest
    /\ pc[c] # "idle" => req[c] \in Requests
    /\ pc[c] \in Deciding => ans[c] = Pending
    /\ pc[c] = "load" => req[c].op = "load"

(* The lock is where its holder is, and nobody else is under it. *)
LockFits == \A c \in Calls : pc[c] \in Locked => holder = c

(* What a call is about to write is the file as it is, with the change the  *)
(* abstract store would make.                                               *)
NewRow(c) == IF req[c].op = "delete" THEN Missing ELSE Stored(c, req[c].expected)
WritesFit ==
  \A c \in Calls : pc[c] = "write" =>
    /\ req[c].op \in {"cas", "delete"}
    /\ req[c].op = "cas" => file[req[c].subject].ver = req[c].expected
    /\ records[c] = [file EXCEPT ![req[c].subject] = NewRow(c)]

IInv == TypeOK /\ CallsFit /\ LockFits /\ WritesFit

LEMMA Data ==
  /\ Missing \in Row /\ NoRecords \in [Subjects -> Row]
  /\ Pending \in Answer /\ Deleted \in Answer /\ Failed \in Answer
  /\ \A r \in Row : Found(r) \in Answer /\ Won(r) \in Answer /\ Lost(r) \in Answer
  /\ \A c \in Calls, e \in Nat : Stored(c, e) \in Row
  /\ \A q \in Requests : q \in Request /\ q # NoRequest
  /\ Deleted # Failed /\ Pending # Failed
  /\ \A r : Found(r) # Failed /\ Won(r) # Failed /\ Lost(r) # Failed
BY RequestsAssumption DEF Missing, Row, NoRecords, Pending, Deleted, Failed, Found, Won, Lost,
   Answer, Stored, Request, NoRequest

LEMMA InitHolds == Init => IInv
BY Data DEF Init, IInv, TypeOK, Phases, CallsFit, LockFits, WritesFit, SomeRows, Row, Missing,
   Deciding, Locked

(* A call that is not under the lock moves to where it is not either. *)
LEMMA OutsideStep ==
  ASSUME IInv, NEW c \in Calls, NEW phase \in Phases \ {"write"}, Goto(c, phase), req' = req,
         pc[c] # "idle", phase # "idle",
         NEW answer \in Answer, Answers(c, answer), phase \in Deciding => answer = Pending,
         phase = "load" => req[c].op = "load",
         phase \in Locked => holder' = c,
         holder' = holder \/ (\A d \in Calls \ {c} : pc[d] \notin Locked),
         holder' \in Calls \cup {NoCall},
         file' = file, records' \in [Calls -> [Subjects -> Row]],
         \A d \in Calls \ {c} : records'[d] = records[d]
  PROVE  IInv'
<1>1. /\ pc' = [pc EXCEPT ![c] = phase] /\ ans' = [ans EXCEPT ![c] = answer]
      /\ pc \in [Calls -> Phases] /\ ans \in [Calls -> Answer]
  BY DEF Goto, Answers, IInv, TypeOK
<1>2. pc'[c] = phase /\ ans'[c] = answer
      /\ \A d \in Calls \ {c} : pc'[d] = pc[d] /\ ans'[d] = ans[d]
  BY <1>1
<1>3. TypeOK'
  BY <1>1 DEF IInv, TypeOK
<1>4. CallsFit'
  BY <1>2 DEF IInv, CallsFit
<1>5. LockFits'
  BY <1>2 DEF IInv, LockFits
<1>6. ASSUME NEW d \in Calls, pc'[d] = "write"
      PROVE d # c /\ pc[d] = "write" /\ records'[d] = records[d] /\ NewRow(d)' = NewRow(d)
  BY <1>2, <1>6 DEF NewRow
<1>7. WritesFit'
  BY <1>6 DEF IInv, WritesFit
<1> QED
  BY <1>3, <1>4, <1>5, <1>7 DEF IInv

LEMMA NextHolds == IInv /\ [Next]_vars => IInv'
<1> SUFFICES ASSUME IInv, [Next]_vars PROVE IInv'
  OBVIOUS
<1> USE Data
<1>0. TypeOK /\ CallsFit /\ LockFits /\ WritesFit
  BY DEF IInv
<1>1. ASSUME NEW c \in Calls, pc[c] # "idle"
      PROVE /\ req[c] \in Request /\ req[c].subject \in Subjects /\ req[c].expected \in Nat
            /\ req[c].op \in {"load", "cas", "delete"}
            /\ file[req[c].subject] \in Row /\ NewRow(c) \in Row
            /\ ans' = ans => Answers(c, ans[c])
  <2>1. req[c] \in Request
    BY <1>0, <1>1 DEF CallsFit
  <2>2. /\ req[c].subject \in Subjects /\ req[c].expected \in Nat
        /\ req[c].op \in {"load", "cas", "delete"}
    BY <2>1 DEF Request
  <2>3. file[req[c].subject] \in Row /\ NewRow(c) \in Row
    BY <1>0, <2>2 DEF TypeOK, NewRow
  <2>4. ans' = ans => Answers(c, ans[c])
    BY <1>0 DEF TypeOK, Answers
  <2> QED
    BY <2>1, <2>2, <2>3, <2>4
<1>2. ASSUME NEW c \in Calls, NEW r \in Requests, Invoke(c, r) PROVE IInv'
  <2>1. TypeOK'
    BY <1>0, <1>2 DEF Invoke, Goto, TypeOK, Phases
  <2>2. CallsFit'
    BY <1>0, <1>2 DEF Invoke, Goto, CallsFit, TypeOK, Deciding
  <2>3. LockFits'
    BY <1>0, <1>2 DEF Invoke, Goto, LockFits, TypeOK, Locked
  <2>4. WritesFit'
    BY <1>0, <1>2 DEF Invoke, Goto, WritesFit, TypeOK, NewRow
  <2> QED
    BY <2>1, <2>2, <2>3, <2>4 DEF IInv
<1>3. ASSUME NEW c \in Calls, Load(c) PROVE IInv'
  <2>1. Found(file[req[c].subject]) \in Answer /\ "return" \in Phases \ {"write"}
        /\ "return" \notin Deciding /\ "return" \notin Locked
    BY <1>1, <1>3 DEF Load, Phases, Deciding, Locked
  <2>2. /\ Goto(c, "return") /\ Answers(c, Found(file[req[c].subject])) /\ pc[c] # "idle"
        /\ req' = req /\ holder' = holder /\ file' = file /\ records' = records
    BY <1>3 DEF Load
  <2>3. holder' \in Calls \cup {NoCall} /\ records' \in [Calls -> [Subjects -> Row]]
    BY <1>0, <2>2 DEF TypeOK
  <2> QED
    BY <1>0, <1>3, <2>1, <2>2, <2>3, OutsideStep
<1>4. ASSUME NEW c \in Calls, Lock(c) PROVE IInv'
  <2>1. /\ ans[c] = Pending /\ ans[c] \in Answer /\ Answers(c, ans[c])
        /\ "read" \in Phases \ {"write"} /\ \A d \in Calls : pc[d] \notin Locked
    BY <1>0, <1>1, <1>4, NoCallAssumption DEF Lock, Phases, CallsFit, LockFits, Deciding
  <2> QED
    BY <1>0, <1>4, <2>1, OutsideStep DEF Lock, TypeOK
<1>5. ASSUME NEW c \in Calls, ReadRecords(c) PROVE IInv'
  <2>1. pc[c] = "read" /\ holder = c /\ UNCHANGED <<file, holder, req>>
    BY <1>0, <1>5 DEF ReadRecords, LockFits, Locked
  <2>2. CASE Goto(c, "unlock")
    <3>1. Answers(c, Lost(file[req[c].subject])) /\ UNCHANGED records
      BY <1>0, <1>5, <2>1, <2>2 DEF ReadRecords, Goto, TypeOK
    <3>2. Lost(file[req[c].subject]) \in Answer /\ "unlock" \in Phases \ {"write"}
          /\ "unlock" \notin Deciding
      BY <1>1, <2>1 DEF Phases, Deciding
    <3> QED
      BY <1>0, <2>1, <2>2, <3>1, <3>2, OutsideStep DEF TypeOK
  <2>3. CASE Goto(c, "write")
    <3>1. /\ pc' = [pc EXCEPT ![c] = "write"] /\ UNCHANGED ans
          /\ records' = [records EXCEPT ![c] = [file EXCEPT ![req[c].subject] = NewRow(c)]]
          /\ req[c].op \in {"cas", "delete"}
          /\ req[c].op = "cas" => file[req[c].subject].ver = req[c].expected
      BY <1>0, <1>5, <2>1, <2>3 DEF ReadRecords, Goto, NewRow, TypeOK
    <3>2. TypeOK'
      BY <1>0, <1>1, <2>1, <3>1 DEF TypeOK, Phases
    <3>3. CallsFit'
      BY <1>0, <2>1, <3>1 DEF CallsFit, TypeOK, Deciding
    <3>4. LockFits'
      BY <1>0, <2>1, <3>1 DEF LockFits, TypeOK, Locked
    <3>5. WritesFit'
      BY <1>0, <2>1, <3>1 DEF WritesFit, TypeOK, NewRow
    <3> QED
      BY <3>2, <3>3, <3>4, <3>5 DEF IInv
  <2> QED
    BY <1>5, <2>2, <2>3 DEF ReadRecords
<1>6. ASSUME NEW c \in Calls, Replace(c) PROVE IInv'
  <2>1. /\ pc' = [pc EXCEPT ![c] = "tidy"] /\ pc[c] = "write" /\ UNCHANGED <<holder, req>>
        /\ holder = c /\ file' = records[c] /\ records' = [records EXCEPT ![c] = NoRecords]
    BY <1>0, <1>6 DEF Replace, Goto, LockFits, Locked
  <2>2. \A d \in Calls \ {c} : pc'[d] \notin Locked /\ pc'[d] = pc[d] /\ ans'[d] = ans[d]
    BY <1>0, <1>6, <2>1 DEF LockFits, TypeOK, Replace, Answers
  <2>3. records[c][req[c].subject] \in Row
    BY <1>0, <1>1, <2>1 DEF TypeOK
  <2>4. TypeOK'
    BY <1>0, <1>6, <2>1, <2>3 DEF TypeOK, Phases, Replace, Answers
  <2>5. CallsFit'
    BY <1>0, <2>1, <2>2 DEF CallsFit, Deciding, TypeOK
  <2>6. LockFits'
    BY <1>0, <2>1, <2>2 DEF LockFits
  <2>7. WritesFit'
    BY <1>0, <2>1, <2>2 DEF WritesFit, TypeOK, Locked
  <2> QED
    BY <2>4, <2>5, <2>6, <2>7 DEF IInv
<1>7. ASSUME NEW c \in Calls, Tidy(c) PROVE IInv'
  <2>1. /\ ans[c] \in Answer /\ Answers(c, ans[c]) /\ holder = c
        /\ "unlock" \in Phases \ {"write"} /\ "unlock" \notin Deciding
    BY <1>0, <1>1, <1>7 DEF Tidy, Phases, TypeOK, LockFits, Locked, Deciding
  <2> QED
    BY <1>0, <1>7, <2>1, OutsideStep DEF Tidy, TypeOK
<1>8. ASSUME NEW c \in Calls, Raise(c) PROVE IInv'
  <2>1. /\ Answers(c, Failed) /\ UNCHANGED <<file, holder, req>>
        /\ records' = [records EXCEPT ![c] = NoRecords] /\ pc[c] # "idle"
        /\ Goto(c, "return") \/ (Goto(c, "unlock") /\ pc[c] \in Locked)
    BY <1>8 DEF Raise, Locked
  <2>2. {"return", "unlock"} \subseteq Phases \ {"write", "idle", "load"}
        /\ {"return", "unlock"} \cap Deciding = {} /\ "return" \notin Locked
    BY DEF Phases, Deciding, Locked
  <2>3. records' \in [Calls -> [Subjects -> Row]] /\ \A d \in Calls \ {c} : records'[d] = records[d]
    BY <1>0, <2>1 DEF TypeOK
  <2>4. pc[c] \in Locked => holder' = c
    BY <1>0, <2>1 DEF LockFits
  <2>5. CASE Goto(c, "return")
    BY <1>0, <2>1, <2>2, <2>3, <2>5, OutsideStep DEF TypeOK
  <2>6. CASE Goto(c, "unlock") /\ pc[c] \in Locked
    BY <1>0, <2>1, <2>2, <2>3, <2>4, <2>6, OutsideStep DEF TypeOK
  <2> QED
    BY <2>1, <2>5, <2>6
<1>9. ASSUME NEW c \in Calls, Unlock(c) PROVE IInv'
  <2>1. /\ ans[c] \in Answer /\ Answers(c, ans[c]) /\ holder = c
        /\ "return" \in Phases \ {"write"} /\ "return" \notin Deciding /\ "return" \notin Locked
    BY <1>0, <1>1, <1>9 DEF Unlock, Phases, TypeOK, LockFits, Locked, Deciding
  <2>2. \A d \in Calls \ {c} : pc[d] \notin Locked
    BY <1>0, <2>1 DEF LockFits
  <2> QED
    BY <1>0, <1>9, <2>1, <2>2, OutsideStep DEF Unlock, TypeOK
<1>10. ASSUME NEW c \in Calls, Return(c) PROVE IInv'
  <2>1. /\ ans[c] \in Answer /\ Answers(c, ans[c])
        /\ "done" \in Phases \ {"write"} /\ "done" \notin Deciding /\ "done" \notin Locked
    BY <1>0, <1>1, <1>10 DEF Return, Phases, TypeOK, Locked, Deciding
  <2> QED
    BY <1>0, <1>10, <2>1, OutsideStep DEF Return, TypeOK
<1>11. ASSUME NEW p \in Procs, Crash(p) PROVE IInv'
  <2> DEFINE dying == {c \in Calls : Home[c] = p /\ Running(c)}
  <2>1. /\ pc' = [c \in Calls |-> IF c \in dying THEN "done" ELSE pc[c]]
        /\ ans' = [c \in Calls |-> IF c \in dying THEN Failed ELSE ans[c]]
        /\ records' = [c \in Calls |-> IF c \in dying THEN NoRecords ELSE records[c]]
        /\ holder' = IF holder \in dying THEN NoCall ELSE holder
        /\ UNCHANGED <<file, req>> /\ \A c \in dying : pc[c] # "idle"
    BY <1>11 DEF Crash, Running
  <2> HIDE DEF dying
  <2>2. \A c \in Calls : c \notin dying => pc'[c] = pc[c] /\ ans'[c] = ans[c] /\ records'[c] = records[c]
    BY <2>1
  <2>3. \A c \in Calls : c \in dying => pc'[c] = "done" /\ pc[c] # "idle"
    BY <2>1
  <2>4. TypeOK'
    BY <1>0, <2>1 DEF TypeOK, Phases
  <2>5. CallsFit'
    BY <1>0, <2>1, <2>2, <2>3 DEF CallsFit, Deciding
  <2>6. LockFits'
    BY <1>0, <2>1, <2>2, <2>3 DEF LockFits, Locked
  <2>7. WritesFit'
    BY <1>0, <2>1, <2>2, <2>3 DEF WritesFit, NewRow
  <2> QED
    BY <2>4, <2>5, <2>6, <2>7 DEF IInv
<1>12. CASE UNCHANGED vars
  BY <1>12 DEF vars, IInv, TypeOK, CallsFit, LockFits, WritesFit, NewRow
<1> QED
  BY <1>2, <1>3, <1>4, <1>5, <1>6, <1>7, <1>8, <1>9, <1>10, <1>11, <1>12 DEF Next, Step

THEOREM Invariance == Spec => []IInv
BY InitHolds, NextHolds, PTL DEF Spec

(* Every variable keeps its type. *)
THEOREM FileTypeCorrect == Spec => []TypeOK
<1>1. IInv => TypeOK
  BY DEF IInv
<1> QED
  BY Invariance, <1>1, PTL

(* A write replaces the file its call read, and holds the lock that keeps   *)
(* it so: no subject's row is taken back by another subject's write.        *)
THEOREM OneWriterAtATime == Spec => []WritersHoldTheLock
<1>1. IInv => WritersHoldTheLock
  <2> SUFFICES ASSUME IInv, NEW c \in Calls, pc[c] = "write"
               PROVE /\ holder = c
                     /\ \A s \in Subjects \ {req[c].subject} : records[c][s] = file[s]
    BY DEF WritersHoldTheLock
  <2>1. holder = c
    BY DEF IInv, LockFits, Locked
  <2>2. records[c] = [file EXCEPT ![req[c].subject] = NewRow(c)] /\ file \in [Subjects -> Row]
    BY DEF IInv, TypeOK, WritesFit
  <2> QED
    BY <2>1, <2>2
<1> QED
  BY Invariance, <1>1, PTL

-----------------------------------------------------------------------------
(* The refinement: each step is a step of the abstract store or a stutter.  *)

AbstractPhase == [c \in Calls |-> Phase(c)]

(* The data of the abstract store is this store's. *)
LEMMA SameData ==
  /\ Abstract!SomeRows = SomeRows /\ Abstract!NoRequest = NoRequest
  /\ Abstract!Pending = Pending /\ Abstract!Deleted = Deleted /\ Abstract!Failed = Failed
  /\ Abstract!Missing = Missing
  /\ \A r : Abstract!Found(r) = Found(r) /\ Abstract!Won(r) = Won(r) /\ Abstract!Lost(r) = Lost(r)
  /\ \A c, e : Abstract!Stored(c, e) = Stored(c, e)
BY DEF SomeRows, Abstract!SomeRows, NoRequest, Abstract!NoRequest, Pending, Abstract!Pending,
   Deleted, Abstract!Deleted, Failed, Abstract!Failed, Missing, Abstract!Missing,
   Found, Abstract!Found, Won, Abstract!Won, Lost, Abstract!Lost, Stored, Abstract!Stored

LEMMA InitRefines == Init => Abstract!Init
BY SameData DEF Init, Abstract!Init, Phase

(* How the abstract phase changes with one call's. *)
LEMMA PhaseStep ==
  ASSUME NEW c \in Calls, NEW x, Phase(c)' = x,
         \A d \in Calls \ {c} : pc'[d] = pc[d] /\ ans'[d] = ans[d]
  PROVE  AbstractPhase' = [AbstractPhase EXCEPT ![c] = x]
<1>1. \A d \in Calls \ {c} : Phase(d)' = Phase(d)
  BY DEF Phase
<1> QED
  BY <1>1 DEF AbstractPhase

(* A call that fails before it returns fails in the abstract store.         *)
LEMMA FailRefines ==
  ASSUME IInv, NEW C \in SUBSET Calls, C # {},
         \A c \in C : Phase(c) \in {"open", "decided"},
         \A c \in C : Phase(c)' = "done",
         \A c \in Calls \ C : Phase(c)' = Phase(c),
         ans' = [c \in Calls |-> IF c \in C THEN Failed ELSE ans[c]],
         file' = file, req' = req
  PROVE  Abstract!Fail(C)
<1>1. [c \in Calls |-> Phase(c)]'
      = [c \in Calls |-> IF c \in C THEN "done" ELSE [d \in Calls |-> Phase(d)][c]]
  OBVIOUS
<1>2. \A c \in C : [d \in Calls |-> Phase(d)][c] \in {"open", "decided"}
  OBVIOUS
<1> QED
  BY <1>1, <1>2, SameData DEF Abstract!Fail

LEMMA StepRefines == IInv /\ [Next]_vars => [Abstract!Next]_(Abstract!vars)
<1> SUFFICES ASSUME IInv, [Next]_vars
             PROVE  [Abstract!Next]_(Abstract!vars)
  OBVIOUS
<1> USE Data, SameData
<1>0. /\ TypeOK /\ CallsFit /\ LockFits /\ WritesFit
      /\ pc \in [Calls -> Phases] /\ ans \in [Calls -> Answer] /\ file \in [Subjects -> Row]
      /\ AbstractPhase = [c \in Calls |-> Phase(c)]
  BY DEF IInv, TypeOK, AbstractPhase
<1>a. ASSUME UNCHANGED <<file, req, ans>>, \A c \in Calls : Phase(c)' = Phase(c)
      PROVE  UNCHANGED Abstract!vars
  BY <1>a DEF Abstract!vars
<1>2. ASSUME NEW c \in Calls, NEW r \in Requests, Invoke(c, r) PROVE Abstract!Next
  <2>1. /\ \A d \in Calls \ {c} : pc'[d] = pc[d] /\ ans'[d] = ans[d]
        /\ pc'[c] \in {"load", "lock"}
    BY <1>0, <1>2 DEF Invoke, Goto
  <2>2. Phase(c) = "idle" /\ Phase(c)' = "open"
    BY <1>2, <2>1 DEF Phase, Invoke
  <2>3. AbstractPhase' = [AbstractPhase EXCEPT ![c] = "open"] /\ AbstractPhase[c] = "idle"
    BY <2>1, <2>2, PhaseStep DEF AbstractPhase
  <2>4. Abstract!Invoke(c, r)
    BY <1>2, <2>3 DEF Abstract!Invoke, Invoke, AbstractPhase
  <2> QED
    BY <2>4 DEF Abstract!Next
<1>b. ASSUME NEW c \in Calls, NEW answer, answer # Failed, Answers(c, answer), req' = req,
             pc[c] \in Deciding \ {"idle"}, NEW x \in {"return", "unlock", "tidy"}, Goto(c, x)
      PROVE  Abstract!Decide(c, answer)
  <2>1. /\ \A d \in Calls \ {c} : pc'[d] = pc[d] /\ ans'[d] = ans[d]
        /\ pc'[c] = x /\ ans'[c] = answer
    BY <1>0, <1>b DEF Goto, Answers
  <2>2. Phase(c) = "open" /\ Phase(c)' = "decided"
    BY <1>b, <2>1 DEF Phase, Deciding
  <2>3. AbstractPhase' = [AbstractPhase EXCEPT ![c] = "decided"] /\ AbstractPhase[c] = "open"
    BY <2>1, <2>2, PhaseStep DEF AbstractPhase
  <2> QED
    BY <1>b, <2>3 DEF Abstract!Decide, Answers, AbstractPhase
<1>3. ASSUME NEW c \in Calls, Load(c) PROVE Abstract!Next
  <2>1. pc[c] \in Deciding \ {"idle"} /\ req[c].op = "load"
    BY <1>0, <1>3 DEF Load, CallsFit, Deciding
  <2>2. Abstract!Decide(c, Found(file[req[c].subject]))
    BY <1>3, <1>b, <2>1 DEF Load
  <2> QED
    BY <1>3, <2>1, <2>2 DEF Load, Abstract!Load, Abstract!Next, Abstract!Step
<1>c. ASSUME NEW c \in Calls, NEW x, Goto(c, x), UNCHANGED <<file, req, ans>>,
             \/ pc[c] \in {"lock", "read"} /\ x \in {"read", "write"}
             \/ pc[c] \in {"tidy", "unlock"} /\ x \in {"unlock", "return"}
      PROVE  UNCHANGED Abstract!vars
  <2>1. Phase(c)' = Phase(c)
    BY <1>0, <1>c DEF Phase, Goto
  <2>2. \A d \in Calls : Phase(d)' = Phase(d)
    BY <1>0, <1>c, <2>1 DEF Phase, Goto
  <2> QED
    BY <1>c, <2>2, <1>a
<1>4. ASSUME NEW c \in Calls, Lock(c) PROVE UNCHANGED Abstract!vars
  BY <1>4, <1>c DEF Lock
<1>5. ASSUME NEW c \in Calls, ReadRecords(c) PROVE [Abstract!Next]_(Abstract!vars)
  <2>1. pc[c] = "read" /\ UNCHANGED <<file, req>>
    BY <1>5 DEF ReadRecords
  <2>2. CASE Goto(c, "write")
    <3>1. UNCHANGED ans
      BY <1>0, <1>5, <2>1, <2>2 DEF ReadRecords, Goto
    <3> QED
      BY <1>c, <2>1, <2>2, <3>1
  <2>3. CASE Goto(c, "unlock")
    <3>1. /\ req[c].op = "cas" /\ file[req[c].subject].ver # req[c].expected
          /\ Answers(c, Lost(file[req[c].subject]))
      BY <1>0, <1>5, <2>1, <2>3 DEF ReadRecords, Goto
    <3>2. Abstract!Decide(c, Lost(file[req[c].subject]))
      BY <1>b, <2>1, <2>3, <3>1 DEF Deciding
    <3> QED
      BY <2>1, <3>1, <3>2 DEF Abstract!Refuse, Abstract!Matches, Abstract!Next, Abstract!Step
  <2> QED
    BY <1>5, <2>2, <2>3 DEF ReadRecords
<1>6. ASSUME NEW c \in Calls, Replace(c) PROVE Abstract!Next
  <2>1. /\ pc[c] = "write" /\ Goto(c, "tidy") /\ req' = req
        /\ req[c].op \in {"cas", "delete"}
        /\ req[c].op = "cas" => file[req[c].subject].ver = req[c].expected
        /\ file' = [file EXCEPT ![req[c].subject] = NewRow(c)]
    BY <1>0, <1>6 DEF Replace, WritesFit
  <2>2. req[c].subject \in Subjects
    BY <1>0, <2>1 DEF CallsFit, Request
  <2>3. records[c][req[c].subject] = NewRow(c)
    BY <1>0, <1>6, <2>1, <2>2 DEF Replace
  <2>4. CASE req[c].op = "delete"
    <3>1. Abstract!Decide(c, Deleted)
      BY <1>6, <1>b, <2>1, <2>4 DEF Replace, Deciding
    <3> QED
      BY <2>1, <2>4, <3>1 DEF NewRow, Abstract!Delete, Abstract!Next, Abstract!Step
  <2>5. CASE req[c].op = "cas"
    <3>1. Answers(c, Won(Stored(c, req[c].expected)))
      BY <1>6, <2>3, <2>5 DEF Replace, NewRow
    <3>2. Abstract!Decide(c, Won(Stored(c, req[c].expected)))
      BY <1>b, <2>1, <3>1 DEF Deciding
    <3> QED
      BY <2>1, <2>5, <3>2 DEF NewRow, Abstract!Swap, Abstract!Matches, Abstract!Next, Abstract!Step
  <2> QED
    BY <2>1, <2>4, <2>5
<1>7. ASSUME NEW c \in Calls, Tidy(c) \/ Unlock(c) PROVE UNCHANGED Abstract!vars
  BY <1>7, <1>c DEF Tidy, Unlock
<1>8. ASSUME NEW c \in Calls, Raise(c) PROVE [Abstract!Next]_(Abstract!vars)
  <2>1. /\ \A d \in Calls \ {c} : pc'[d] = pc[d] /\ ans'[d] = ans[d]
        /\ pc'[c] \in {"return", "unlock"} /\ ans' = [ans EXCEPT ![c] = Failed]
        /\ pc[c] \in {"load", "lock", "read", "write", "tidy"} /\ UNCHANGED <<file, req>>
    BY <1>0, <1>8 DEF Raise, Goto, Answers
  <2>2. /\ Phase(c)' = "done" /\ \A d \in Calls \ {c} : Phase(d)' = Phase(d)
    BY <1>0, <2>1 DEF Phase
  <2>3. ans' = [d \in Calls |-> IF d \in {c} THEN Failed ELSE ans[d]]
    BY <1>0, <2>1
  <2>4. CASE Phase(c) = "done"
    <3>1. ans[c] = Failed
      BY <2>1, <2>4 DEF Phase
    <3>2. ans' = ans
      BY <1>0, <2>1, <3>1
    <3> QED
      BY <1>a, <2>1, <2>2, <2>4, <3>2
  <2>5. CASE Phase(c) # "done"
    <3>1. Phase(c) \in {"open", "decided"}
      BY <2>1, <2>5 DEF Phase
    <3>2. Abstract!Fail({c})
      BY <2>1, <2>2, <2>3, <3>1, FailRefines
    <3> QED
      BY <3>2 DEF Abstract!Next
  <2> QED
    BY <2>4, <2>5
<1>9. ASSUME NEW c \in Calls, Return(c) PROVE [Abstract!Next]_(Abstract!vars)
  <2>1. /\ \A d \in Calls \ {c} : pc'[d] = pc[d] /\ ans'[d] = ans[d]
        /\ pc[c] = "return" /\ pc'[c] = "done" /\ UNCHANGED <<file, req, ans>>
    BY <1>0, <1>9 DEF Return, Goto
  <2>2. Phase(c)' = "done"
    BY <2>1 DEF Phase
  <2>3. CASE ans[c] = Failed
    <3>1. \A d \in Calls : Phase(d)' = Phase(d)
      BY <2>1, <2>2, <2>3 DEF Phase
    <3> QED
      BY <1>a, <2>1, <3>1
  <2>4. CASE ans[c] # Failed
    <3>1. AbstractPhase' = [AbstractPhase EXCEPT ![c] = "done"]
      BY <2>1, <2>2, PhaseStep
    <3>2. AbstractPhase[c] = "decided"
      BY <2>1, <2>4 DEF Phase, AbstractPhase
    <3>3. Abstract!Return(c)
      BY <2>1, <3>1, <3>2 DEF Abstract!Return, AbstractPhase
    <3> QED
      BY <3>3 DEF Abstract!Next, Abstract!Step
  <2> QED
    BY <2>3, <2>4
<1>10. ASSUME NEW p \in Procs, Crash(p) PROVE [Abstract!Next]_(Abstract!vars)
  <2> DEFINE dying == {c \in Calls : Home[c] = p /\ Running(c)}
             C == {c \in dying : Phase(c) # "done"}
  <2>1. /\ pc' = [c \in Calls |-> IF c \in dying THEN "done" ELSE pc[c]]
        /\ ans' = [c \in Calls |-> IF c \in dying THEN Failed ELSE ans[c]]
        /\ UNCHANGED <<file, req>>
    BY <1>10 DEF Crash
  <2>2. \A c \in dying : Phase(c) \in {"open", "decided", "done"} /\ (Phase(c) = "done" => ans[c] = Failed)
    BY DEF Running, Phase
  <2>3. \A c \in Calls \ dying : Phase(c)' = Phase(c)
    BY <2>1 DEF Phase
  <2>4. \A c \in dying : Phase(c)' = "done"
    BY <2>1 DEF Phase
  <2>5. ans' = [c \in Calls |-> IF c \in C THEN Failed ELSE ans[c]]
    BY <1>0, <2>1, <2>2
  <2>6. CASE C = {}
    <3>1. ans' = ans
      BY <1>0, <2>5, <2>6
    <3> QED
      BY <1>a, <2>1, <2>3, <2>4, <2>6, <3>1
  <2>7. CASE C # {}
    <3>1. C \in SUBSET Calls /\ \A c \in C : Phase(c) \in {"open", "decided"}
      BY <2>2
    <3>2. \A c \in Calls \ C : Phase(c)' = Phase(c)
      BY <2>3, <2>4
    <3>3. \A c \in C : Phase(c)' = "done"
      BY <2>4
    <3> HIDE DEF C
    <3>4. Abstract!Fail(C)
      BY <2>1, <2>5, <2>7, <3>1, <3>2, <3>3, FailRefines
    <3> QED
      BY <3>1, <3>4 DEF Abstract!Next
  <2> QED
    BY <2>6, <2>7
<1>11. CASE UNCHANGED vars
  BY <1>11 DEF vars, Abstract!vars, Phase
<1> QED
  BY <1>2, <1>3, <1>4, <1>5, <1>6, <1>7, <1>8, <1>9, <1>10, <1>11 DEF Next, Step

(* Whatever threads and processes do, callers cannot tell the file from the *)
(* abstract store.                                                          *)
THEOREM FileStoreImplementsStore == Spec => ImplementsStore
<1>1. IInv /\ IInv' /\ [Next]_vars => [Abstract!Next]_(Abstract!vars)
  BY StepRefines
<1> QED
  BY Invariance, InitRefines, <1>1, PTL DEF Spec, ImplementsStore, Abstract!Spec

-----------------------------------------------------------------------------
(* What holds of the abstract store holds of this one.                      *)

Contract == INSTANCE CredentialStoreProofs WITH
  rows <- file, phase <- AbstractPhase, req <- req, ans <- ans

LEMMA SameRequests == Requests \subseteq Contract!Request /\ NoCall \notin Calls
BY RequestsAssumption, NoCallAssumption DEF Request, Contract!Request

(* The theorems are about a copy of the abstract store of the refinement.   *)
LEMMA SameSteps ==
  /\ Abstract!Init = Contract!Init /\ Abstract!vars = Contract!vars
  /\ Abstract!Next = Contract!Next
<1> USE DEF AbstractPhase, Abstract!Missing, Contract!Missing, Abstract!Pending, Contract!Pending,
      Abstract!NoRequest, Contract!NoRequest
<1>1. Abstract!Init = Contract!Init /\ Abstract!vars = Contract!vars
  BY DEF Abstract!Init, Contract!Init, Abstract!SomeRows, Contract!SomeRows,
     Abstract!vars, Contract!vars
<1>2. \A c, answer : Abstract!Decide(c, answer) = Contract!Decide(c, answer)
  BY DEF Abstract!Decide, Contract!Decide
<1>3. \A c : Abstract!Load(c) = Contract!Load(c)
  BY <1>2 DEF Abstract!Load, Contract!Load, Abstract!Found, Contract!Found
<1>4. \A c : Abstract!Swap(c) = Contract!Swap(c) /\ Abstract!Refuse(c) = Contract!Refuse(c)
  BY <1>2 DEF Abstract!Swap, Contract!Swap, Abstract!Refuse, Contract!Refuse, Abstract!Matches,
     Contract!Matches, Abstract!Won, Contract!Won, Abstract!Lost, Contract!Lost,
     Abstract!Stored, Contract!Stored
<1>5. \A c : Abstract!Delete(c) = Contract!Delete(c) /\ Abstract!Return(c) = Contract!Return(c)
  BY <1>2 DEF Abstract!Delete, Contract!Delete, Abstract!Return, Contract!Return,
     Abstract!Deleted, Contract!Deleted
<1>6. /\ \A c, r : Abstract!Invoke(c, r) = Contract!Invoke(c, r)
      /\ \A C : Abstract!Fail(C) = Contract!Fail(C)
  BY DEF Abstract!Invoke, Contract!Invoke, Abstract!Fail, Contract!Fail,
     Abstract!Failed, Contract!Failed
<1> QED
  BY <1>1, <1>3, <1>4, <1>5, <1>6 DEF Abstract!Next, Contract!Next, Abstract!Step, Contract!Step

THEOREM ContractHolds == Spec => []Contract!IInv
<1>1. Abstract!Init => Contract!IInv
  BY SameRequests, SameSteps, Contract!InitHolds
<1>2. Contract!IInv /\ [Abstract!Next]_(Abstract!vars) => Contract!IInv'
  <2>1. Contract!IInv /\ [Contract!Next]_(Contract!vars) =>
          Contract!TypeOK' /\ Contract!AnswersFit'
    BY SameRequests, Contract!TypeStep DEF Contract!IInv
  <2>2. Contract!IInv /\ [Contract!Next]_(Contract!vars) =>
          Contract!WinnersAreNotLost' /\ Contract!OneWinnerPerVersion'
    BY SameRequests, Contract!WinnersStep
  <2>3. [Abstract!Next]_(Abstract!vars) => [Contract!Next]_(Contract!vars)
    BY SameSteps DEF AbstractPhase, Abstract!vars, Contract!vars
  <2> QED
    BY <2>1, <2>2, <2>3 DEF Contract!IInv
<1> QED
  BY <1>1, <1>2, FileStoreImplementsStore, PTL DEF ImplementsStore, Abstract!Spec

(* Whatever threads and processes do, of the writes to the file that expect *)
(* the same version one wins, unless the row was removed.                   *)
THEOREM FileHasOneWinner == Spec => []OneWinnerPerVersion
<1>1. Contract!IInv => OneWinnerPerVersion
  BY DEF Contract!IInv, OneWinnerPerVersion, Contract!OneWinnerPerVersion,
     Abstract!OneWinnerPerVersion, Contract!Winner, Abstract!Winner, Contract!Same, Abstract!Same,
     Contract!Undeleted, Abstract!Undeleted, Contract!NoRequest, Abstract!NoRequest
<1> QED
  BY ContractHolds, <1>1, PTL

(* The file keeps what a winner wrote until a later version replaces it.    *)
THEOREM FileKeepsWinners == Spec => []WinnersAreNotLost
<1>1. Contract!IInv => WinnersAreNotLost
  BY DEF Contract!IInv, WinnersAreNotLost, Contract!WinnersAreNotLost,
     Abstract!WinnersAreNotLost, Contract!Winner, Abstract!Winner,
     Contract!Undeleted, Abstract!Undeleted, Contract!NoRequest, Abstract!NoRequest
<1> QED
  BY ContractHolds, <1>1, PTL

=============================================================================
