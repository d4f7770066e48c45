--------------------------- MODULE FileStoreProofs ---------------------------
(* Proofs about the Node file store, for any number of calls, processes,    *)
(* subjects and requests: while who waits for the lock waits alone, callers *)
(* cannot tell it from the abstract store.                                  *)
EXTENDS FileStore, TLAPS

(***************************************************************************)
(* The condition.                                                          *)
(***************************************************************************)

(* The behaviours in which who waits for the lock waits alone: no other call*)
(* comes to the lock, to try or to wait, until this one has tried again.    *)
Waits(c) == pc[c] \in ReapPhases \cup {"pause"}
WaitsAlone == \A c, d \in Calls : Waits(c) /\ (Waits(d) \/ pc[d] = "try") => c = d
AloneSpec == Init /\ [][Next /\ WaitsAlone']_vars

(***************************************************************************)
(* The inductive invariant of AloneSpec: who waits for the lock waits       *)
(* alone, so that a lock it finds stale stays as it is until it is gone.    *)
(***************************************************************************)

Inside  == {"read", "write", "tidy", "unlock", "rmOwnLock"}
Past    == Inside \cup {"return", "done", "dead"}
Reaping == ReapPhases \cup {"pause"}
Undecided == {"idle", "load", "try", "read", "write"} \cup (Reaping \ {"dropReaper", "rmOwnReaper"})
Dropping == {"dropReaper", "rmOwnReaper"}
Leaving == {"tidy", "unlock", "rmOwnLock", "return"}

(* What a call may have been answered, by where it is.                      *)
AnswerFits(phase, answer) ==
  /\ phase \in Undecided => answer = Pending
  /\ phase \in Dropping => answer \in {Pending, Failed}
  /\ phase \in Leaving => answer # Pending

AsksFit ==
  \A c \in Calls :
    /\ c \in Before => pc[c] = "dead"
    /\ pc[c] = "idle" => req[c] = NoRequest
    /\ pc[c] \notin {"idle", "dead"} => req[c] \in Requests
    /\ pc[c] = "load" => req[c].op = "load"
    /\ AnswerFits(pc[c], ans[c])

(* Who is inside has the lock, and its owner is past its last attempt at it.*)
LocksFit ==
  /\ lock \in {NoCall} \cup (Calls \ Before)
  /\ \A c \in Calls :
       /\ pc[c] \in Inside => lock = c
       /\ lock = c => pc[c] \in Past

(* While a call looks for the owner it has read, the lock has that owner or *)
(* is gone; and who has found the lock stale is right, and stays so.        *)
ReapsFit ==
  \A c \in Calls :
    /\ pc[c] = "killLock" => saw[c] \in Calls \ {c} /\ lock \in {NoCall, saw[c]}
    /\ pc[c] \in {"confirmAgain", "rmLock"} => lock = NoCall \/ Dead(lock)

(* What a call is about to write is the file as it is, with the change the  *)
(* abstract store would make.                                               *)
RowOf(c) == IF req[c].op = "delete" THEN Missing ELSE Stored(c, req[c].expected)
ReplacesFit ==
  \A c \in Calls : pc[c] = "write" =>
    /\ req[c].op \in {"cas", "delete"}
    /\ req[c].op = "cas" => file[req[c].subject].ver = req[c].expected
    /\ records[c] = [file EXCEPT ![req[c].subject] = RowOf(c)]

IInv == TypeOK /\ AsksFit /\ LocksFit /\ ReapsFit /\ ReplacesFit

StaysAlone == WaitsAlone /\ WaitsAlone'

LEMMA FileData ==
  /\ Missing \in Row /\ NoRecords \in [Subjects -> Row]
  /\ Pending \in Answer /\ Deleted \in Answer /\ Failed \in Answer
  /\ \A r \in Row : Found(r) \in Answer /\ Won(r) \in Answer /\ Lost(r) \in Answer
  /\ \A c \in Calls, e \in Nat : Stored(c, e) \in Row
  /\ \A q \in Requests : q \in Request /\ q # NoRequest
  /\ Deleted # Failed /\ Pending # Failed /\ Deleted # Pending
  /\ \A r : Found(r) # Failed /\ Won(r) # Failed /\ Lost(r) # Failed
  /\ \A r : Found(r) # Pending /\ Won(r) # Pending /\ Lost(r) # Pending
BY RequestsAssumption DEF Missing, Row, NoRecords, Pending, Deleted, Failed, Found, Won, Lost,
   Answer, Stored, Request, NoRequest

LEMMA Places ==
  /\ Inside \subseteq Phases /\ Past \subseteq Phases /\ Reaping \subseteq Phases
  /\ Past \cap Reaping = {} /\ "try" \notin Past /\ "try" \notin Reaping /\ "dead" \notin Inside /\ "dead" \in Past
  /\ "write" \in Inside /\ Inside \subseteq Past /\ "idle" \notin Past \cup Reaping
  /\ {"killLock", "confirmAgain", "rmLock"} \subseteq Reaping
BY DEF Inside, Past, Reaping, ReapPhases, Phases

LEMMA InitHolds ==
  ASSUME Init
  PROVE  IInv
<1>1. TypeOK
  BY FileData, BeforeAssumption DEF Init, TypeOK, SomeRows, Row, Missing, Phases, ReapPhases
<1>2. /\ lock = NoCall
      /\ \A c \in Calls : pc[c] \in {"idle", "dead"} /\ ans[c] = Pending /\ req[c] = NoRequest
                          /\ (c \in Before => pc[c] = "dead")
  BY DEF Init
<1>3. AsksFit
  BY <1>2 DEF AsksFit, AnswerFits, Dropping, Leaving
<1>4. LocksFit
  <2>1. \A c \in Calls : pc[c] \notin Inside \cup Reaping /\ lock # c
    BY <1>2, NoCallAssumption, Places
  <2> QED
    BY <1>2, <2>1, Places DEF LocksFit
<1>5. ReapsFit /\ ReplacesFit
  BY <1>2 DEF ReapsFit, ReplacesFit
<1> QED
  BY <1>1, <1>3, <1>4, <1>5 DEF IInv

(***************************************************************************)
(* What each step does to it.                                               *)
(***************************************************************************)

(* A call moves on, and leaves the file.                                    *)
MovesOn(c, phase, answer) ==
  /\ pc[c] \notin {"idle", "dead"}
  /\ phase \in Phases \ {"idle", "write", "dead"} /\ pc' = [pc EXCEPT ![c] = phase]
  /\ answer \in Answer /\ ans' = [ans EXCEPT ![c] = answer] /\ AnswerFits(phase, answer)
  /\ phase = "load" => pc[c] = "load"
  /\ pc[c] \in Past => phase \in Past
  /\ UNCHANGED <<file, req, calm>>
  /\ \/ lock' = lock /\ (lock = c => phase \in Past)
     \/ lock' = c /\ pc[c] = "try" /\ lock = NoCall /\ phase \in Past
     \/ lock' = NoCall /\ \A d \in Calls \ {c} : pc[d] \notin Inside
  /\ phase \in Inside => lock' = c
  /\ phase \in Reaping => pc[c] \in Reaping \/ (pc[c] = "try" /\ lock # NoCall)
  /\ phase = "killLock" => saw'[c] \in Calls \ {c} /\ lock' \in {NoCall, saw'[c]}
  /\ phase \in {"confirmAgain", "rmLock"} => lock' = NoCall \/ (lock' = lock /\ Dead(lock))
  /\ reaper' \in Calls \cup {NoCall}
  /\ saw' \in [Calls -> Calls \cup {NoCall}] /\ \A d \in Calls \ {c} : saw'[d] = saw[d]
  /\ reaped' \in [Calls -> BOOLEAN]
  /\ records' \in [Calls -> [Subjects -> Row]] /\ \A d \in Calls \ {c} : records'[d] = records[d]

LEMMA MovesKeep ==
  ASSUME IInv, StaysAlone, NEW c \in Calls, NEW phase, NEW answer, MovesOn(c, phase, answer)
  PROVE  IInv'
<1>0. /\ pc[c] \notin {"idle", "dead"}
      /\ phase \in Phases \ {"idle", "write", "dead"} /\ pc' = [pc EXCEPT ![c] = phase]
      /\ answer \in Answer /\ ans' = [ans EXCEPT ![c] = answer] /\ AnswerFits(phase, answer)
      /\ phase = "load" => pc[c] = "load"
      /\ pc[c] \in Past => phase \in Past
      /\ file' = file /\ req' = req /\ calm' = calm
      /\ lock' \in {lock, NoCall, c}
      /\ lock' = c => phase \in Past
      /\ lock' = lock \/ (pc[c] = "try" /\ lock = NoCall) \/ \A d \in Calls \ {c} : pc[d] \notin Inside
      /\ lock' = lock \/ lock' = NoCall \/ (pc[c] = "try" /\ lock = NoCall)
      /\ phase \in Inside => lock' = c
      /\ phase \in Reaping => pc[c] \in Reaping \/ (pc[c] = "try" /\ lock # NoCall)
      /\ phase = "killLock" => saw'[c] \in Calls \ {c} /\ lock' \in {NoCall, saw'[c]}
      /\ phase \in {"confirmAgain", "rmLock"} => lock' = NoCall \/ (lock' = lock /\ Dead(lock))
      /\ reaper' \in Calls \cup {NoCall}
      /\ saw' \in [Calls -> Calls \cup {NoCall}] /\ \A d \in Calls \ {c} : saw'[d] = saw[d]
      /\ reaped' \in [Calls -> BOOLEAN]
      /\ records' \in [Calls -> [Subjects -> Row]] /\ \A d \in Calls \ {c} : records'[d] = records[d]
  BY NoCallAssumption DEF MovesOn
<1>1. /\ TypeOK /\ AsksFit /\ LocksFit /\ ReapsFit /\ ReplacesFit
      /\ pc \in [Calls -> Phases] /\ ans \in [Calls -> Answer]
  BY DEF IInv, TypeOK
<1>2. /\ pc'[c] = phase /\ ans'[c] = answer
      /\ \A d \in Calls \ {c} : pc'[d] = pc[d] /\ ans'[d] = ans[d]
  BY <1>0, <1>1
<1>3. c \in Calls \ Before /\ NoCall \notin Calls
  BY <1>0, <1>1, NoCallAssumption DEF AsksFit
<1>4. TypeOK'
  BY <1>0, <1>1, <1>3 DEF TypeOK
<1>5. AsksFit'
  <2> SUFFICES ASSUME NEW d \in Calls
      PROVE /\ d \in Before => pc'[d] = "dead"
            /\ pc'[d] = "idle" => req'[d] = NoRequest
            /\ pc'[d] \notin {"idle", "dead"} => req'[d] \in Requests
            /\ pc'[d] = "load" => req'[d].op = "load"
            /\ AnswerFits(pc'[d], ans'[d])
    BY DEF AsksFit, AnswerFits
  <2>1. CASE d = c
    BY <1>0, <1>1, <1>2, <1>3, <2>1 DEF AsksFit
  <2>2. CASE d # c
    BY <1>0, <1>1, <1>2, <2>2 DEF AsksFit
  <2> QED
    BY <2>1, <2>2
<1>6. LocksFit'
  <2>1. lock' \in {NoCall} \cup (Calls \ Before)
    BY <1>0, <1>1, <1>3 DEF LocksFit
  <2>2. ASSUME NEW d \in Calls, pc'[d] \in Inside PROVE lock' = d
    <3>1. CASE d = c
      BY <1>0, <1>2, <2>2, <3>1
    <3>2. CASE d # c
      <4>1. pc[d] \in Inside /\ lock = d
        BY <1>0, <1>1, <1>2, <2>2, <3>2 DEF LocksFit
      <4> QED
        BY <1>0, <1>3, <3>2, <4>1
    <3> QED
      BY <3>1, <3>2
  <2>3. ASSUME NEW d \in Calls, lock' = d PROVE pc'[d] \in Past
    BY <1>0, <1>1, <1>2, <1>3, <2>3 DEF LocksFit
  <2> QED
    BY <2>1, <2>2, <2>3 DEF LocksFit
<1>7. ReapsFit'
  <2>1. ASSUME NEW d \in Calls \ {c}, pc[d] \in Reaping PROVE lock' = lock \/ lock' = NoCall
    <3>1. pc'[d] = pc[d]
      BY <1>2
    <3>2. pc[c] # "try"
      BY <2>1 DEF StaysAlone, WaitsAlone, Waits, Reaping
    <3> QED
      BY <1>0, <3>2
  <2>2. ASSUME NEW d \in Calls, pc'[d] = "killLock"
        PROVE  saw'[d] \in Calls \ {d} /\ lock' \in {NoCall, saw'[d]}
    <3>1. CASE d = c
      BY <1>0, <1>2, <2>2, <3>1
    <3>2. CASE d # c
      <4>1. pc[d] = "killLock" /\ saw'[d] = saw[d] /\ saw[d] \in Calls \ {d} /\ lock \in {NoCall, saw[d]}
        BY <1>0, <1>1, <1>2, <2>2, <3>2 DEF ReapsFit
      <4> QED
        BY <2>1, <3>2, <4>1, Places
    <3> QED
      BY <3>1, <3>2
  <2>3. ASSUME NEW d \in Calls, pc'[d] \in {"confirmAgain", "rmLock"}
        PROVE lock' = NoCall \/ pc'[lock'] = "dead"
    <3>1. CASE d = c
      BY <1>0, <1>1, <1>2, <2>3, <3>1 DEF Dead, LocksFit
    <3>2. CASE d # c
      <4>1. pc[d] \in Reaping /\ (lock = NoCall \/ pc[lock] = "dead")
        BY <1>0, <1>1, <1>2, <2>3, <3>2, Places DEF ReapsFit, Dead
      <4>2. lock' = lock \/ lock' = NoCall
        BY <2>1, <3>2, <4>1
      <4> QED
        BY <1>0, <1>1, <1>2, <4>1, <4>2 DEF LocksFit
    <3> QED
      BY <3>1, <3>2
  <2> QED
    BY <2>2, <2>3 DEF ReapsFit, Dead
<1>8. ReplacesFit'
  <2>1. ASSUME NEW d \in Calls, pc'[d] = "write"
        PROVE d # c /\ pc[d] = "write" /\ records'[d] = records[d] /\ RowOf(d)' = RowOf(d)
    BY <1>0, <1>2, <2>1 DEF RowOf
  <2> QED
    BY <1>0, <1>1, <2>1 DEF ReplacesFit, RowOf
<1> QED
  BY <1>4, <1>5, <1>6, <1>7, <1>8 DEF IInv

(* A call that moves on has asked, and its answer fits.                     *)
LEMMA CallAsked ==
  ASSUME IInv, NEW c \in Calls, pc[c] \notin {"idle", "dead"}
  PROVE  /\ req[c] \in Request /\ req[c].subject \in Subjects /\ req[c].expected \in Nat
         /\ req[c].op \in {"load", "cas", "delete"}
         /\ file[req[c].subject] \in Row /\ RowOf(c) \in Row
         /\ ans[c] \in Answer /\ ans = [ans EXCEPT ![c] = ans[c]]
         /\ AnswerFits(pc[c], ans[c]) /\ c \notin Before
<1>1. TypeOK /\ AsksFit
  BY DEF IInv
<1>2. req[c] \in Request
  BY <1>1, FileData DEF AsksFit
<1>3. req[c].subject \in Subjects /\ req[c].expected \in Nat /\ req[c].op \in {"load", "cas", "delete"}
  BY <1>2 DEF Request
<1>4. file[req[c].subject] \in Row /\ RowOf(c) \in Row
  BY <1>1, <1>3, FileData DEF TypeOK, RowOf
<1> QED
  BY <1>1, <1>2, <1>3, <1>4 DEF TypeOK, AsksFit

(* The moves that leave the lock and the answer, too.                       *)
LEMMA ContinuesKeep ==
  ASSUME IInv, StaysAlone, NEW c \in Calls, pc[c] \notin {"idle", "dead"},
         NEW phase \in Phases \ {"idle", "write", "dead", "load"}, Goto(c, phase),
         UNCHANGED <<file, lock, req, ans, calm>>,
         AnswerFits(pc[c], ans[c]) => AnswerFits(phase, ans[c]),
         pc[c] \in Past => phase \in Past,
         phase \in Inside => pc[c] \in Inside,
         phase \in Reaping => pc[c] \in Reaping \/ (pc[c] = "try" /\ lock # NoCall),
         phase = "killLock" => saw'[c] \in Calls \ {c} /\ lock \in {NoCall, saw'[c]},
         phase \in {"confirmAgain", "rmLock"} => lock = NoCall \/ Dead(lock),
         reaper' \in Calls \cup {NoCall},
         saw' = saw \/ (\E x \in Calls \cup {NoCall} : saw' = [saw EXCEPT ![c] = x]),
         reaped' = reaped \/ (\E x \in BOOLEAN : reaped' = [reaped EXCEPT ![c] = x]),
         records' = records
  PROVE  IInv'
<1>1. /\ TypeOK /\ LocksFit /\ pc' = [pc EXCEPT ![c] = phase]
      /\ ans[c] \in Answer /\ ans' = [ans EXCEPT ![c] = ans[c]] /\ AnswerFits(phase, ans[c])
  BY CallAsked DEF IInv, Goto
<1>2. /\ saw' \in [Calls -> Calls \cup {NoCall}] /\ \A d \in Calls \ {c} : saw'[d] = saw[d]
      /\ reaped' \in [Calls -> BOOLEAN] /\ records' \in [Calls -> [Subjects -> Row]]
  BY <1>1 DEF TypeOK
<1>3. (phase \in Inside => lock' = c) /\ (lock' = c => phase \in Past)
  BY <1>1 DEF LocksFit
<1>4. phase = "load" => pc[c] = "load"
  OBVIOUS
<1>5. MovesOn(c, phase, ans[c])
  BY <1>1, <1>2, <1>3, <1>4 DEF MovesOn
<1> QED
  BY <1>5, MovesKeep

(* Before the lock.                                                         *)
LEMMA TriesKeep ==
  ASSUME IInv, StaysAlone, NEW c \in Calls, UNCHANGED calm, Load(c) \/ Try(c) \/ Retry(c) \/ GiveUp(c)
  PROVE  IInv'
<1> USE FileData DEF Phases, ReapPhases, Inside, Past, Reaping, Undecided, Dropping, Leaving, AnswerFits
<1>0. /\ TypeOK /\ AsksFit /\ LocksFit /\ pc[c] \in {"load", "try", "pause"}
      /\ reaper' \in Calls \cup {NoCall} /\ saw' \in [Calls -> Calls \cup {NoCall}] /\ saw' = saw
      /\ reaped' \in [Calls -> BOOLEAN] /\ records' \in [Calls -> [Subjects -> Row]] /\ records' = records
      /\ NoCall \notin Calls
  BY NoCallAssumption DEF IInv, TypeOK, Load, Try, Retry, GiveUp, Continue, locals
<1>1. CASE Load(c)
  <2>1. /\ Found(file[req[c].subject]) \in Answer /\ Found(file[req[c].subject]) # Pending
    BY <1>0, CallAsked
  <2>2. /\ pc[c] = "load" /\ pc' = [pc EXCEPT ![c] = "return"]
        /\ ans' = [ans EXCEPT ![c] = Found(file[req[c].subject])] /\ UNCHANGED <<file, lock, reaper, req>>
    BY <1>1 DEF Load, Goto, Answers
  <2>3. lock # c
    BY <1>0, <2>2 DEF LocksFit
  <2> QED
    <3>1. MovesOn(c, "return", Found(file[req[c].subject]))
      BY <1>0, <2>1, <2>2, <2>3 DEF MovesOn
    <3> QED
      BY <3>1, MovesKeep
<1>2. CASE Try(c) /\ lock = NoCall
  <2>1. /\ pc[c] = "try" /\ lock' = c /\ pc' = [pc EXCEPT ![c] = "read"] /\ UNCHANGED <<file, reaper, req, ans>>
    BY <1>2 DEF Try, Continue, Goto
  <2>2. ans[c] \in Answer /\ ans' = [ans EXCEPT ![c] = ans[c]] /\ AnswerFits("read", ans[c])
    BY <2>1, CallAsked
  <2> QED
    <3>1. MovesOn(c, "read", ans[c])
      BY <1>0, <1>2, <2>1, <2>2 DEF MovesOn
    <3> QED
      BY <3>1, MovesKeep
<1>3. CASE Try(c) /\ lock # NoCall
  <2>1. pc[c] = "try" /\ Goto(c, "reap") /\ UNCHANGED <<file, lock, reaper, req, ans, saw, reaped, records>>
    BY <1>3 DEF Try, Continue, locals
  <2> QED
    BY <1>0, <1>3, <2>1, ContinuesKeep
<1>4. CASE Retry(c)
  <2>1. pc[c] = "pause" /\ Goto(c, "try") /\ UNCHANGED <<file, lock, reaper, req, ans, saw, reaped, records>>
    BY <1>4 DEF Retry, Continue, locals
  <2> QED
    BY <1>0, <2>1, ContinuesKeep
<1>5. CASE GiveUp(c)
  <2>1. /\ pc[c] = "pause" /\ pc' = [pc EXCEPT ![c] = "return"]
        /\ ans' = [ans EXCEPT ![c] = Failed] /\ UNCHANGED <<file, lock, reaper, req>>
    BY <1>5 DEF GiveUp, Goto, Answers
  <2>2. lock # c
    BY <1>0, <2>1 DEF LocksFit
  <2> QED
    <3>1. MovesOn(c, "return", Failed)
      BY <1>0, <2>1, <2>2 DEF MovesOn
    <3> QED
      BY <3>1, MovesKeep
<1> QED
  BY <1>1, <1>2, <1>3, <1>4, <1>5

(* The reaper's file is not what keeps two calls apart.                     *)
LEMMA ReapsKeep ==
  ASSUME IInv, StaysAlone, NEW c \in Calls, UNCHANGED calm,
         Reap(c) \/ PeekReaper(c) \/ KillReaper(c) \/ RmReaper(c) \/ Confirm(c)
  PROVE  IInv'
<1> USE DEF Phases, ReapPhases, Inside, Past, Reaping, Undecided, Dropping, Leaving, AnswerFits
<1>0. TypeOK /\ reaper \in Calls \cup {NoCall} /\ NoCall \in Calls \cup {NoCall} /\ c \in Calls \cup {NoCall}
  BY DEF IInv, TypeOK
<1>1. CASE Reap(c)
  <2>1. /\ pc[c] = "reap" /\ UNCHANGED <<file, lock, req, ans, saw, reaped, records>>
        /\ reaper' \in Calls \cup {NoCall} /\ (Goto(c, "confirm") \/ Goto(c, "peekReaper"))
    BY <1>0, <1>1 DEF Reap, Continue, locals
  <2> QED
    BY <2>1, ContinuesKeep
<1>2. CASE PeekReaper(c)
  <2>1. /\ pc[c] = "peekReaper" /\ UNCHANGED <<file, lock, reaper, req, ans, reaped, records>>
        /\ saw' = [saw EXCEPT ![c] = reaper] /\ (Goto(c, "rmReaper") \/ Goto(c, "killReaper"))
    BY <1>2 DEF PeekReaper, Peek, Reads
  <2> QED
    BY <1>0, <2>1, ContinuesKeep
<1>3. CASE KillReaper(c)
  <2>1. /\ pc[c] = "killReaper" /\ UNCHANGED <<file, lock, reaper, req, ans, reaped, records>>
        /\ saw' = [saw EXCEPT ![c] = NoCall] /\ (Goto(c, "rmReaper") \/ Goto(c, "pause"))
    BY <1>3 DEF KillReaper, Kill
  <2> QED
    BY <1>0, <2>1, ContinuesKeep
<1>4. CASE RmReaper(c)
  <2>1. /\ pc[c] = "rmReaper" /\ UNCHANGED <<file, lock, req, ans, saw, reaped, records>>
        /\ reaper' = NoCall /\ Goto(c, "pause")
    BY <1>4 DEF RmReaper, Continue, locals
  <2> QED
    BY <1>0, <2>1, ContinuesKeep
<1>5. CASE Confirm(c)
  <2>1. /\ pc[c] = "confirm" /\ UNCHANGED <<file, lock, reaper, req, ans, saw, reaped, records>>
        /\ (Goto(c, "peekLock") \/ Goto(c, "dropReaper"))
    BY <1>5 DEF Confirm, StillMine, Continue, locals
  <2> QED
    BY <1>0, <2>1, ContinuesKeep
<1> QED
  BY <1>1, <1>2, <1>3, <1>4, <1>5

(* Nobody takes the lock while a call waits: the owner it has read is the   *)
(* owner still, or the lock is gone, and a process that is dead stays so.   *)
LEMMA FindsStaleKeeps ==
  ASSUME IInv, StaysAlone, NEW c \in Calls, UNCHANGED calm, PeekLock(c) \/ KillLock(c) \/ ConfirmAgain(c)
  PROVE  IInv'
<1> USE DEF Phases, ReapPhases, Inside, Past, Reaping, Undecided, Dropping, Leaving, AnswerFits
<1>0. /\ TypeOK /\ LocksFit /\ ReapsFit /\ reaper \in Calls \cup {NoCall} /\ lock \in Calls \cup {NoCall}
      /\ NoCall \in Calls \cup {NoCall} /\ NoCall \notin Calls /\ saw \in [Calls -> Calls \cup {NoCall}]
      /\ pc[c] \in {"peekLock", "killLock", "confirmAgain"}
  BY NoCallAssumption DEF IInv, TypeOK, PeekLock, KillLock, ConfirmAgain
<1>1. CASE PeekLock(c)
  <2>1. /\ pc[c] = "peekLock" /\ UNCHANGED <<file, lock, reaper, req, ans, reaped, records>>
        /\ saw' = [saw EXCEPT ![c] = lock]
        /\ Goto(c, IF lock = NoCall THEN "confirmAgain" ELSE "killLock")
    BY <1>1 DEF PeekLock, Peek, Reads
  <2>2. CASE lock = NoCall
    <3>1. Goto(c, "confirmAgain")
      BY <2>1, <2>2
    <3> QED
      BY <1>0, <2>1, <2>2, <3>1, ContinuesKeep
  <2>3. CASE lock # NoCall
    <3>1. Goto(c, "killLock")
      BY <2>1, <2>3
    <3>2. lock \in Calls \ {c} /\ saw'[c] = lock
      BY <1>0, <2>1, <2>3 DEF LocksFit
    <3> QED
      BY <1>0, <2>1, <3>1, <3>2, ContinuesKeep
  <2> QED
    BY <2>2, <2>3
<1>2. CASE KillLock(c)
  <2>1. /\ pc[c] = "killLock" /\ UNCHANGED <<file, lock, reaper, req, ans, reaped, records>>
        /\ saw' = [saw EXCEPT ![c] = NoCall]
        /\ Goto(c, IF SomeAlive(Home[saw[c]]) THEN "dropReaper" ELSE "confirmAgain")
    BY <1>2 DEF KillLock, Kill
  <2>2. saw[c] \in Calls \ {c} /\ lock \in {NoCall, saw[c]}
    BY <1>0, <2>1 DEF ReapsFit
  <2>3. CASE SomeAlive(Home[saw[c]])
    <3>1. Goto(c, "dropReaper")
      BY <2>1, <2>3
    <3> QED
      BY <1>0, <2>1, <3>1, ContinuesKeep
  <2>4. CASE ~SomeAlive(Home[saw[c]])
    <3>1. Goto(c, "confirmAgain")
      BY <2>1, <2>4
    <3>2. Dead(saw[c])
      BY <2>2, <2>4 DEF SomeAlive
    <3>3. lock = NoCall \/ lock = saw[c]
      BY <2>2
    <3>4. lock = NoCall \/ Dead(lock)
      BY <3>2, <3>3
    <3> QED
      BY <1>0, <2>1, <3>1, <3>4, ContinuesKeep
  <2> QED
    BY <2>3, <2>4
<1>3. CASE ConfirmAgain(c)
  <2>1. /\ pc[c] = "confirmAgain" /\ UNCHANGED <<file, lock, reaper, req, ans, saw, reaped, records>>
        /\ (Goto(c, "rmLock") \/ Goto(c, "dropReaper"))
    BY <1>3 DEF ConfirmAgain, StillMine, Continue, locals
  <2>2. lock = NoCall \/ Dead(lock)
    BY <1>0, <2>1 DEF ReapsFit
  <2> QED
    BY <1>0, <2>1, <2>2, ContinuesKeep
<1> QED
  BY <1>1, <1>2, <1>3

(* The stale lock is removed; nobody is inside, for its owner is dead.      *)
LEMMA NobodyInside ==
  ASSUME IInv, NEW c \in Calls, pc[c] = "rmLock"
  PROVE  \A d \in Calls : pc[d] \notin Inside
<1>1. LocksFit /\ (lock = NoCall \/ pc[lock] = "dead")
  BY DEF IInv, ReapsFit, Dead
<1> QED
  BY <1>1, NoCallAssumption, Places DEF LocksFit

LEMMA RemovesKeep ==
  ASSUME IInv, StaysAlone, NEW c \in Calls, UNCHANGED calm, RmLock(c) \/ RmOwnLock(c)
  PROVE  IInv'
<1> USE DEF Phases, ReapPhases, Inside, Past, Reaping, Undecided, Dropping, Leaving, AnswerFits
<1>0. /\ TypeOK /\ LocksFit /\ NoCall \notin Calls /\ pc[c] \in {"rmLock", "rmOwnLock"}
      /\ reaper \in Calls \cup {NoCall} /\ saw \in [Calls -> Calls \cup {NoCall}]
      /\ reaped \in [Calls -> BOOLEAN] /\ records \in [Calls -> [Subjects -> Row]]
      /\ ans[c] \in Answer /\ ans = [ans EXCEPT ![c] = ans[c]] /\ AnswerFits(pc[c], ans[c])
  BY NoCallAssumption, CallAsked DEF IInv, TypeOK, RmLock, RmOwnLock
<1>1. CASE RmLock(c)
  <2>1. /\ pc[c] = "rmLock" /\ pc' = [pc EXCEPT ![c] = "dropReaper"] /\ lock' = NoCall
        /\ reaped' = [reaped EXCEPT ![c] = TRUE] /\ UNCHANGED <<file, reaper, req, ans, saw, records>>
    BY <1>1 DEF RmLock, Goto
  <2>2. \A d \in Calls \ {c} : pc[d] \notin Inside
    BY <2>1, NobodyInside
  <2>3. reaped' \in [Calls -> BOOLEAN]
    BY <1>0, <2>1
  <2>4. MovesOn(c, "dropReaper", ans[c])
    BY <1>0, <2>1, <2>2, <2>3 DEF MovesOn
  <2> QED
    BY <2>4, MovesKeep
<1>2. CASE RmOwnLock(c)
  <2>1. /\ pc[c] = "rmOwnLock" /\ pc' = [pc EXCEPT ![c] = "return"] /\ lock' = NoCall
        /\ UNCHANGED <<file, reaper, req, ans, saw, reaped, records>>
    BY <1>2 DEF RmOwnLock, Continue, Goto, locals
  <2>2. lock = c /\ \A d \in Calls \ {c} : pc[d] \notin Inside
    BY <1>0, <2>1 DEF LocksFit
  <2>3. MovesOn(c, "return", ans[c])
    BY <1>0, <2>1, <2>2 DEF MovesOn
  <2> QED
    BY <2>3, MovesKeep
<1> QED
  BY <1>1, <1>2

LEMMA DropsKeep ==
  ASSUME IInv, StaysAlone, NEW c \in Calls, UNCHANGED <<calm, lock>>,
         pc[c] \in Dropping, reaper' \in Calls \cup {NoCall},
         AfterReap(c) \/ Continue(c, "rmOwnReaper")
  PROVE  IInv'
<1> USE DEF Phases, ReapPhases, Inside, Past, Reaping, Undecided, Dropping, Leaving, AnswerFits
<1>1. CASE Continue(c, "rmOwnReaper")
  <2>1. Goto(c, "rmOwnReaper") /\ UNCHANGED <<file, req, ans, saw, reaped, records>>
    BY <1>1 DEF Continue, locals
  <2> QED
    BY <2>1, ContinuesKeep
<1>2. CASE AfterReap(c)
  <2>1. /\ Goto(c, IF ans[c] = Failed THEN "return" ELSE IF reaped[c] THEN "try" ELSE "pause")
        /\ reaped' = [reaped EXCEPT ![c] = FALSE] /\ UNCHANGED <<file, req, ans, saw, records>>
    BY <1>2 DEF AfterReap
  <2>2. \/ Goto(c, "return") /\ ans[c] = Failed
        \/ (Goto(c, "try") \/ Goto(c, "pause")) /\ ans[c] # Failed
    BY <2>1
  <2> QED
    BY <2>1, <2>2, FileData, ContinuesKeep
<1> QED
  BY <1>1, <1>2

(* Under the lock: what is to be written fits the file.                     *)
LEMMA ReadsKeep ==
  ASSUME IInv, StaysAlone, NEW c \in Calls, UNCHANGED calm, ReadRecords(c)
  PROVE  IInv'
<1> USE FileData DEF Phases, ReapPhases, Inside, Past, Reaping, Undecided, Dropping, Leaving, AnswerFits
<1>0. /\ TypeOK /\ AsksFit /\ LocksFit /\ ReapsFit /\ ReplacesFit
      /\ pc[c] = "read" /\ lock = c /\ UNCHANGED <<file, lock, reaper, req, saw, reaped>>
      /\ reaper \in Calls \cup {NoCall} /\ saw \in [Calls -> Calls \cup {NoCall}]
      /\ reaped \in [Calls -> BOOLEAN] /\ records \in [Calls -> [Subjects -> Row]]
      /\ pc \in [Calls -> Phases] /\ ans \in [Calls -> Answer]
  BY DEF IInv, TypeOK, ReadRecords, LocksFit
<1>1. CASE Goto(c, "unlock")
  <2> DEFINE answer == Lost(file[req[c].subject])
  <2>1. pc' = [pc EXCEPT ![c] = "unlock"] /\ ans' = [ans EXCEPT ![c] = answer] /\ UNCHANGED records
    BY <1>0, <1>1 DEF ReadRecords, Goto, Answers
  <2>2. answer \in Answer /\ answer # Pending
    BY <1>0, CallAsked
  <2> HIDE DEF answer
  <2>3. MovesOn(c, "unlock", answer)
    BY <1>0, <2>1, <2>2 DEF MovesOn
  <2> QED
    BY <2>3, MovesKeep
<1>2. CASE Goto(c, "write")
  <2>1. /\ pc' = [pc EXCEPT ![c] = "write"] /\ UNCHANGED ans
        /\ records' = [records EXCEPT ![c] = [file EXCEPT ![req[c].subject] = RowOf(c)]]
        /\ req[c].op \in {"cas", "delete"}
        /\ req[c].op = "cas" => file[req[c].subject].ver = req[c].expected
    BY <1>0, <1>2 DEF ReadRecords, Goto, RowOf
  <2>2. RowOf(c) \in Row /\ AnswerFits("read", ans[c]) /\ file \in [Subjects -> Row]
    BY <1>0, CallAsked DEF TypeOK
  <2>3. [file EXCEPT ![req[c].subject] = RowOf(c)] \in [Subjects -> Row]
    BY <2>2
  <2>4. TypeOK'
    BY <1>0, <2>1, <2>3 DEF TypeOK
  <2>5. pc'[c] = "write" /\ \A d \in Calls \ {c} : pc'[d] = pc[d]
    BY <1>0, <2>1
  <2>6. AsksFit'
    <3> SUFFICES ASSUME NEW d \in Calls
        PROVE /\ d \in Before => pc'[d] = "dead"
              /\ pc'[d] = "idle" => req'[d] = NoRequest
              /\ pc'[d] \notin {"idle", "dead"} => req'[d] \in Requests
              /\ pc'[d] = "load" => req'[d].op = "load"
              /\ AnswerFits(pc'[d], ans'[d])
      BY DEF AsksFit
    <3>1. CASE d = c
      BY <1>0, <2>1, <2>2, <2>5, <3>1 DEF AsksFit
    <3>2. CASE d # c
      BY <1>0, <2>1, <2>5, <3>2 DEF AsksFit
    <3> QED
      BY <3>1, <3>2
  <2>7. LocksFit'
    BY <1>0, <2>5 DEF LocksFit
  <2>8. ReapsFit'
    BY <1>0, <2>5 DEF ReapsFit, Dead
  <2>9. ReplacesFit'
    <3> SUFFICES ASSUME NEW d \in Calls, pc'[d] = "write"
        PROVE /\ req'[d].op \in {"cas", "delete"}
              /\ req'[d].op = "cas" => file'[req'[d].subject].ver = req'[d].expected
              /\ records'[d] = [file' EXCEPT ![req'[d].subject] = RowOf(d)']
      BY DEF ReplacesFit
    <3>1. RowOf(d)' = RowOf(d)
      BY <1>0 DEF RowOf
    <3>2. d = c
      BY <1>0, <2>5 DEF LocksFit
    <3> QED
      BY <1>0, <2>1, <3>1, <3>2
  <2> QED
    BY <2>4, <2>6, <2>7, <2>8, <2>9 DEF IInv
<1> QED
  BY <1>1, <1>2 DEF ReadRecords

LEMMA WritesKeep ==
  ASSUME IInv, StaysAlone, NEW c \in Calls, UNCHANGED calm, Rename(c)
  PROVE  IInv'
<1> USE FileData DEF Phases, ReapPhases, Inside, Past, Reaping, Undecided, Dropping, Leaving, AnswerFits
<1> DEFINE answer == IF req[c].op = "delete" THEN Deleted ELSE Won(records[c][req[c].subject])
<1>0. /\ TypeOK /\ AsksFit /\ LocksFit /\ ReapsFit /\ ReplacesFit
      /\ pc[c] = "write" /\ lock = c /\ UNCHANGED <<lock, reaper, req, saw, reaped>>
      /\ pc' = [pc EXCEPT ![c] = "tidy"] /\ ans' = [ans EXCEPT ![c] = answer]
      /\ file' = records[c] /\ records' = [records EXCEPT ![c] = NoRecords]
      /\ records \in [Calls -> [Subjects -> Row]] /\ pc \in [Calls -> Phases] /\ ans \in [Calls -> Answer]
  BY DEF IInv, TypeOK, Rename, LocksFit, Goto, Answers
<1>1. answer \in Answer /\ answer # Pending
  BY <1>0, CallAsked
<1> HIDE DEF answer
<1>2. TypeOK'
  BY <1>0, <1>1 DEF TypeOK
<1>3. /\ pc'[c] = "tidy" /\ ans'[c] = answer /\ \A d \in Calls \ {c} : pc'[d] = pc[d] /\ ans'[d] = ans[d]
  BY <1>0
<1>4. AsksFit'
  <2> SUFFICES ASSUME NEW d \in Calls
      PROVE /\ d \in Before => pc'[d] = "dead"
            /\ pc'[d] = "idle" => req'[d] = NoRequest
            /\ pc'[d] \notin {"idle", "dead"} => req'[d] \in Requests
            /\ pc'[d] = "load" => req'[d].op = "load"
            /\ AnswerFits(pc'[d], ans'[d])
    BY DEF AsksFit
  <2>1. CASE d = c
    BY <1>0, <1>1, <1>3, <2>1 DEF AsksFit
  <2>2. CASE d # c
    BY <1>0, <1>3, <2>2 DEF AsksFit
  <2> QED
    BY <2>1, <2>2
<1>5. LocksFit'
  BY <1>0, <1>3 DEF LocksFit
<1>6. ReapsFit'
  BY <1>0, <1>3 DEF ReapsFit, Dead
<1>7. \A d \in Calls : pc'[d] # "write"
  BY <1>0, <1>3 DEF LocksFit
<1>8. ReplacesFit'
  BY <1>7 DEF ReplacesFit
<1> QED
  BY <1>2, <1>4, <1>5, <1>6, <1>8 DEF IInv

LEMMA LeavesKeep ==
  ASSUME IInv, StaysAlone, NEW c \in Calls, UNCHANGED calm, Tidy(c) \/ Unlock(c) \/ Return(c)
  PROVE  IInv'
<1> USE DEF Phases, ReapPhases, Inside, Past, Reaping, Undecided, Dropping, Leaving, AnswerFits
<1>0. /\ pc[c] \in {"tidy", "unlock", "return"} /\ UNCHANGED <<file, lock, reaper, req, ans, saw, reaped, records>>
      /\ reaper \in Calls \cup {NoCall}
  BY DEF IInv, TypeOK, Tidy, Unlock, Return, Continue, locals
<1>1. CASE Tidy(c)
  <2>1. pc[c] = "tidy" /\ Goto(c, "unlock")
    BY <1>1 DEF Tidy, Continue
  <2> QED
    BY <1>0, <2>1, ContinuesKeep
<1>2. CASE Unlock(c)
  <2>1. pc[c] = "unlock" /\ (Goto(c, "rmOwnLock") \/ Goto(c, "return"))
    BY <1>2 DEF Unlock, Continue
  <2> QED
    BY <1>0, <2>1, ContinuesKeep
<1>3. CASE Return(c)
  <2>1. pc[c] = "return" /\ Goto(c, "done")
    BY <1>3 DEF Return, Continue
  <2> QED
    BY <1>0, <2>1, ContinuesKeep
<1> QED
  BY <1>1, <1>2, <1>3

(* A call that fails, whose lock may stay.                                  *)
LEMMA FailsKeep ==
  ASSUME IInv, StaysAlone, NEW c \in Calls, UNCHANGED <<file, req, calm>>, pc[c] \notin {"idle", "dead", "done"},
         NEW phase \in {"return", "unlock", "dropReaper"}, Goto(c, phase), Answers(c, Failed),
         phase = "unlock" => pc[c] \in Inside,
         phase = "dropReaper" => pc[c] = "rmLock",
         lock' = lock \/ (lock' = c /\ phase = "return" /\ pc[c] = "try" /\ lock = NoCall),
         reaper' \in Calls \cup {NoCall}, saw' = saw, reaped' = reaped,
         records' = records \/ records' = [records EXCEPT ![c] = NoRecords]
  PROVE  IInv'
<1> USE DEF Phases, ReapPhases, Inside, Past, Reaping, Undecided, Dropping, Leaving, AnswerFits
<1>0. /\ TypeOK /\ LocksFit /\ saw \in [Calls -> Calls \cup {NoCall}]
      /\ reaped \in [Calls -> BOOLEAN] /\ records \in [Calls -> [Subjects -> Row]]
      /\ pc' = [pc EXCEPT ![c] = phase] /\ ans' = [ans EXCEPT ![c] = Failed] /\ Failed \in Answer /\ Failed # Pending
  BY FileData DEF IInv, TypeOK, Goto, Answers
<1>1. records' \in [Calls -> [Subjects -> Row]] /\ \A d \in Calls \ {c} : records'[d] = records[d]
  BY <1>0, FileData
<1>2. lock = c => pc[c] \in Past /\ phase \in Past
  BY <1>0 DEF LocksFit
<1>3. phase = "unlock" => lock' = c
  BY <1>0 DEF LocksFit
<1>4. MovesOn(c, phase, Failed)
  BY <1>0, <1>1, <1>2, <1>3 DEF MovesOn
<1> QED
  BY <1>4, MovesKeep

LEMMA ErrorsKeep ==
  ASSUME IInv, StaysAlone, NEW c \in Calls, UNCHANGED calm, Throw(c) \/ LeaveLock(c) \/ Unreadable(c)
  PROVE  IInv'
<1> USE DEF Phases, ReapPhases, Inside, Past, Reaping, Undecided, Dropping, Leaving, AnswerFits
<1>0. reaper \in Calls \cup {NoCall} /\ c \in Calls \cup {NoCall}
  BY DEF IInv, TypeOK
<1>1. CASE Throw(c)
  <2>1. /\ \/ pc[c] = "load" /\ Goto(c, "return")
           \/ pc[c] \in {"read", "write", "tidy"} /\ Goto(c, "unlock")
        /\ Answers(c, Failed) /\ records' = [records EXCEPT ![c] = NoRecords]
        /\ UNCHANGED <<file, lock, reaper, req, saw, reaped>>
    BY <1>1 DEF Throw
  <2> QED
    BY <1>0, <2>1, FailsKeep
<1>2. CASE LeaveLock(c)
  <2>1. UNCHANGED <<file, req, saw, reaped, records>>
    BY <1>2 DEF LeaveLock, locals
  <2>2. CASE pc[c] = "unlock"
    <3>1. Goto(c, "return") /\ UNCHANGED <<ans, lock, reaper>>
      BY <1>2, <2>2 DEF LeaveLock
    <3> QED
      BY <1>0, <2>1, <2>2, <3>1, ContinuesKeep
  <2>3. CASE pc[c] # "unlock"
    <3>1. /\ Answers(c, Failed) /\ reaper' \in {reaper, c} /\ pc[c] \notin {"idle", "dead", "done"}
          /\ \/ lock' = lock /\ Goto(c, "return")
             \/ lock' = c /\ pc[c] = "try" /\ lock = NoCall /\ Goto(c, "return")
             \/ lock' = lock /\ pc[c] = "rmLock" /\ Goto(c, "dropReaper")
      BY <1>2, <2>3 DEF LeaveLock
    <3>2. reaper' \in Calls \cup {NoCall}
      BY <1>0, <3>1
    <3> QED
      BY <2>1, <3>1, <3>2, FailsKeep
  <2> QED
    BY <2>2, <2>3
<1>3. CASE Unreadable(c)
  <2>1. UNCHANGED <<lock, reaper>>
    BY <1>3 DEF Unreadable
  <2>2. CASE pc[c] = "dropReaper"
    <3>1. AfterReap(c)
      BY <1>3, <2>2 DEF Unreadable
    <3> QED
      BY <1>0, <2>1, <2>2, <3>1, DropsKeep
  <2>3. CASE pc[c] = "peekReaper"
    <3>1. Goto(c, "pause") /\ UNCHANGED <<file, req, ans, saw, reaped, records>>
      BY <1>3, <2>3 DEF Unreadable, Continue, locals
    <3> QED
      BY <1>0, <2>1, <2>3, <3>1, ContinuesKeep
  <2>4. CASE pc[c] \in {"confirm", "peekLock", "confirmAgain"}
    <3>1. Goto(c, "dropReaper") /\ UNCHANGED <<file, req, ans, saw, reaped, records>>
      BY <1>3, <2>4 DEF Unreadable, Continue, locals
    <3> QED
      BY <1>0, <2>1, <2>4, <3>1, ContinuesKeep
  <2> QED
    BY <1>3, <2>2, <2>3, <2>4 DEF Unreadable
<1> QED
  BY <1>1, <1>2, <1>3

LEMMA InvokesKeep ==
  ASSUME IInv, StaysAlone, NEW c \in Calls, UNCHANGED calm, NEW r \in Requests, Invoke(c, r)
  PROVE  IInv'
<1> USE FileData DEF Phases, ReapPhases, Inside, Past, Reaping, Undecided, Dropping, Leaving, AnswerFits
<1>0. /\ TypeOK /\ AsksFit /\ LocksFit /\ ReapsFit /\ ReplacesFit
      /\ pc \in [Calls -> Phases] /\ req \in [Calls -> Requests \cup {NoRequest}]
      /\ pc[c] = "idle" /\ req' = [req EXCEPT ![c] = r]
      /\ UNCHANGED <<file, lock, reaper, ans, saw, reaped, records>>
  BY DEF IInv, TypeOK, Invoke, locals
<1>1. PICK phase \in {"load", "try"} : pc' = [pc EXCEPT ![c] = phase] /\ (phase = "load" => r.op = "load")
  BY DEF Invoke, Goto
<1>2. /\ pc'[c] = phase /\ req'[c] = r /\ c \notin Before
      /\ \A d \in Calls \ {c} : pc'[d] = pc[d] /\ req'[d] = req[d]
  BY <1>0, <1>1 DEF AsksFit
<1>3. TypeOK'
  BY <1>0, <1>1 DEF TypeOK
<1>4. AsksFit'
  <2> SUFFICES ASSUME NEW d \in Calls
      PROVE /\ d \in Before => pc'[d] = "dead"
            /\ pc'[d] = "idle" => req'[d] = NoRequest
            /\ pc'[d] \notin {"idle", "dead"} => req'[d] \in Requests
            /\ pc'[d] = "load" => req'[d].op = "load"
            /\ AnswerFits(pc'[d], ans'[d])
    BY DEF AsksFit
  <2>1. CASE d = c
    BY <1>0, <1>1, <1>2, <2>1 DEF AsksFit
  <2>2. CASE d # c
    BY <1>0, <1>2, <2>2 DEF AsksFit
  <2> QED
    BY <2>1, <2>2
<1>5. LocksFit'
  BY <1>0, <1>2 DEF LocksFit
<1>6. ReapsFit'
  BY <1>0, <1>2, NoCallAssumption DEF ReapsFit, Dead, LocksFit
<1>7. ReplacesFit'
  <2>1. \A d \in Calls : pc'[d] = "write" => pc[d] = "write" /\ req'[d] = req[d] /\ RowOf(d)' = RowOf(d)
    BY <1>2 DEF RowOf
  <2> QED
    BY <1>0, <2>1 DEF ReplacesFit, RowOf
<1> QED
  BY <1>3, <1>4, <1>5, <1>6, <1>7 DEF IInv

(* The lock of a process that dies stays, with a dead owner.                *)
LEMMA CrashKeeps ==
  ASSUME IInv, StaysAlone, NEW p \in Procs, UNCHANGED calm, Crash(p)
  PROVE  IInv'
<1> USE FileData DEF Phases, ReapPhases, Inside, Past, Reaping, Undecided, Dropping, Leaving, AnswerFits
<1>0. /\ TypeOK /\ AsksFit /\ LocksFit /\ ReapsFit /\ ReplacesFit
      /\ pc' = [c \in Calls |-> IF Home[c] = p THEN "dead" ELSE pc[c]]
      /\ ans' = [c \in Calls |-> IF Home[c] = p /\ Running(c) THEN Failed ELSE ans[c]]
      /\ UNCHANGED <<file, lock, reaper, req, saw, reaped, records>>
  BY DEF IInv, Crash, locals
<1>1. TypeOK'
  BY <1>0 DEF TypeOK
<1>2. \A c \in Calls : pc'[c] = "dead" \/ (pc'[c] = pc[c] /\ ans'[c] = ans[c])
  BY <1>0
<1>3. AsksFit'
  <2> SUFFICES ASSUME NEW d \in Calls
      PROVE /\ d \in Before => pc'[d] = "dead"
            /\ pc'[d] = "idle" => req'[d] = NoRequest
            /\ pc'[d] \notin {"idle", "dead"} => req'[d] \in Requests
            /\ pc'[d] = "load" => req'[d].op = "load"
            /\ AnswerFits(pc'[d], ans'[d])
    BY DEF AsksFit
  <2>1. CASE pc'[d] = "dead"
    BY <2>1
  <2>2. CASE pc'[d] = pc[d] /\ ans'[d] = ans[d]
    BY <1>0, <2>2 DEF AsksFit
  <2> QED
    BY <1>2, <2>1, <2>2
<1>4. LocksFit'
  BY <1>0, <1>2 DEF LocksFit
<1>5. ReapsFit'
  BY <1>0, <1>2 DEF ReapsFit, Dead, LocksFit
<1>6. ReplacesFit'
  <2>1. \A d \in Calls : pc'[d] = "write" => pc[d] = "write" /\ RowOf(d)' = RowOf(d)
    BY <1>0, <1>2 DEF RowOf
  <2> QED
    BY <1>0, <2>1 DEF ReplacesFit, RowOf
<1> QED
  BY <1>1, <1>3, <1>4, <1>5, <1>6 DEF IInv

LEMMA NextHolds ==
  ASSUME IInv, StaysAlone, [Next]_vars
  PROVE  IInv'
<1>1. ASSUME NEW c \in Calls, Step(c), UNCHANGED calm PROVE IInv'
  <2>1. CASE Load(c) \/ Try(c) \/ Retry(c)
    BY <1>1, <2>1, TriesKeep
  <2>2. CASE Reap(c) \/ PeekReaper(c) \/ KillReaper(c) \/ RmReaper(c) \/ Confirm(c)
    BY <1>1, <2>2, ReapsKeep
  <2>3. CASE PeekLock(c) \/ KillLock(c) \/ ConfirmAgain(c)
    BY <1>1, <2>3, FindsStaleKeeps
  <2>4. CASE RmLock(c) \/ RmOwnLock(c)
    BY <1>1, <2>4, RemovesKeep
  <2>5. CASE DropReaper(c) \/ RmOwnReaper(c)
    <3>1. /\ pc[c] \in Dropping /\ UNCHANGED lock
          /\ reaper' \in {reaper, NoCall} /\ (AfterReap(c) \/ Continue(c, "rmOwnReaper"))
      BY <2>5 DEF DropReaper, RmOwnReaper, AfterReap, Dropping
    <3>2. reaper' \in Calls \cup {NoCall}
      BY <3>1 DEF IInv, TypeOK
    <3> QED
      BY <1>1, <3>1, <3>2, DropsKeep
  <2>6. CASE ReadRecords(c)
    BY <1>1, <2>6, ReadsKeep
  <2>7. CASE Rename(c)
    BY <1>1, <2>7, WritesKeep
  <2>8. CASE Tidy(c) \/ Unlock(c) \/ Return(c)
    BY <1>1, <2>8, LeavesKeep
  <2> QED
    BY <1>1, <2>1, <2>2, <2>3, <2>4, <2>5, <2>6, <2>7, <2>8 DEF Step
<1>2. CASE UNCHANGED vars
  BY <1>2 DEF vars, IInv, TypeOK, AsksFit, LocksFit, ReapsFit, ReplacesFit, AnswerFits, Dead, RowOf
<1>3. ASSUME NEW c \in Calls, GiveUp(c), UNCHANGED calm PROVE IInv'
  BY <1>3, TriesKeep
<1> QED
  BY <1>1, <1>2, <1>3, ErrorsKeep, InvokesKeep, CrashKeeps DEF Next, Goes, TimesOut, Meets

(***************************************************************************)
(* The store keeps the contract.                                            *)
(***************************************************************************)

LEMMA AloneStarts ==
  ASSUME Init
  PROVE  WaitsAlone
BY DEF Init, WaitsAlone, Waits, ReapPhases

(* The inductive invariant holds while who waits waits alone.               *)
THEOREM Invariance == AloneSpec => [](IInv /\ WaitsAlone)
<1>1. Init => IInv /\ WaitsAlone
  BY InitHolds, AloneStarts
<1>2. IInv /\ WaitsAlone /\ [Next /\ WaitsAlone']_vars => IInv' /\ WaitsAlone'
  <2>1. CASE Next /\ WaitsAlone'
    BY <2>1, NextHolds DEF StaysAlone
  <2>2. CASE UNCHANGED vars
    <3>1. UNCHANGED pc
      BY <2>2 DEF vars
    <3>2. WaitsAlone => WaitsAlone'
      BY <3>1 DEF WaitsAlone, Waits
    <3> QED
      BY <2>2, <3>2, NextHolds DEF StaysAlone
  <2> QED
    BY <2>1, <2>2
<1> QED
  BY <1>1, <1>2, PTL DEF AloneSpec

Working == Phases \ {"idle", "done", "dead"}
StorePhase == [c \in Calls |-> Phase(c)]

LEMMA SameStoreData ==
  /\ Abstract!SomeRows = SomeRows /\ Abstract!NoRequest = NoRequest
  /\ Abstract!Pending = Pending /\ Abstract!Deleted = Deleted /\ Abstract!Failed = Failed
  /\ Abstract!Missing = Missing
  /\ \A r : Abstract!Found(r) = Found(r) /\ Abstract!Won(r) = Won(r) /\ Abstract!Lost(r) = Lost(r)
  /\ \A c, e : Abstract!Stored(c, e) = Stored(c, e)
BY DEF SomeRows, Abstract!SomeRows, NoRequest, Abstract!NoRequest, Pending, Abstract!Pending,
   Deleted, Abstract!Deleted, Failed, Abstract!Failed, Missing, Abstract!Missing,
   Found, Abstract!Found, Won, Abstract!Won, Lost, Abstract!Lost, Stored, Abstract!Stored

(* The abstract phase of a call at work is told by its answer.              *)
LEMMA PhaseOf ==
  ASSUME NEW c
  PROVE  /\ pc[c] = "idle" => Phase(c) = "idle"
         /\ pc[c] = "done" => Phase(c) = "done"
         /\ pc[c] = "dead" => Phase(c) = (IF req[c] = NoRequest THEN "idle" ELSE "done")
         /\ pc[c] \in Working =>
              /\ ans[c] = Failed => Phase(c) = "done"
              /\ ans[c] = Pending => Phase(c) = "open"
              /\ ans[c] \notin {Failed, Pending} => Phase(c) = "decided"
         /\ (pc[c] = "idle")' => Phase(c)' = "idle"
         /\ (pc[c] = "done")' => Phase(c)' = "done"
         /\ (pc[c] = "dead")' => Phase(c)' = (IF req'[c] = NoRequest THEN "idle" ELSE "done")
         /\ pc'[c] \in Working =>
              /\ ans'[c] = Failed => Phase(c)' = "done"
              /\ ans'[c] = Pending => Phase(c)' = "open"
              /\ ans'[c] \notin {Failed, Pending} => Phase(c)' = "decided"
BY FileData DEF Phase, Running, Working

LEMMA PhaseStays ==
  ASSUME NEW c, pc'[c] = pc[c], ans'[c] = ans[c], req'[c] = req[c]
  PROVE  Phase(c)' = Phase(c)
BY DEF Phase, Running

LEMMA InitRefines ==
  ASSUME Init
  PROVE  Abstract!Init
<1>1. \A c \in Calls : Phase(c) = "idle"
  BY PhaseOf DEF Init
<1> QED
  BY <1>1, SameStoreData DEF Init, Abstract!Init

LEMMA OnePhaseMoves ==
  ASSUME NEW c \in Calls, NEW x, Phase(c)' = x, \A d \in Calls \ {c} : Phase(d)' = Phase(d)
  PROVE  StorePhase' = [StorePhase EXCEPT ![c] = x]
BY DEF StorePhase

(* Nothing the callers could tell.                                          *)
LEMMA StoreStands ==
  ASSUME UNCHANGED <<file, req, ans>>, \A c \in Calls : Phase(c)' = Phase(c)
  PROVE  UNCHANGED Abstract!vars
BY DEF Abstract!vars

LEMMA WorkGoesOn ==
  ASSUME IInv, NEW c \in Calls, pc[c] \in Working, NEW x \in Working, Goto(c, x), UNCHANGED <<file, req, ans>>
  PROVE  UNCHANGED Abstract!vars
<1>1. pc \in [Calls -> Phases] /\ pc' = [pc EXCEPT ![c] = x]
  BY DEF IInv, TypeOK, Goto
<1>2. pc'[c] \in Working /\ \A d \in Calls \ {c} : pc'[d] = pc[d]
  BY <1>1
<1>3. Phase(c)' = Phase(c)
  BY <1>2, PhaseOf
<1>4. \A d \in Calls \ {c} : Phase(d)' = Phase(d)
  BY <1>2, PhaseStays
<1> QED
  BY <1>3, <1>4, StoreStands

(* A call is answered: it takes effect.                                     *)
LEMMA CallDecides ==
  ASSUME IInv, NEW c \in Calls, pc[c] \in {"load", "read", "write"}, NEW x \in Working, Goto(c, x), req' = req,
         NEW answer, answer \notin {Failed, Pending}, Answers(c, answer)
  PROVE  Abstract!Decide(c, answer)
<1>1. /\ pc \in [Calls -> Phases] /\ pc' = [pc EXCEPT ![c] = x]
      /\ ans \in [Calls -> Answer] /\ ans' = [ans EXCEPT ![c] = answer]
  BY DEF IInv, TypeOK, Goto, Answers
<1>2. /\ pc'[c] = x /\ ans'[c] = answer /\ \A d \in Calls \ {c} : pc'[d] = pc[d] /\ ans'[d] = ans[d]
  BY <1>1
<1>3. ans[c] = Pending /\ pc[c] \in Working
  BY DEF IInv, AsksFit, AnswerFits, Undecided, Working, Phases
<1>4. Phase(c) = "open" /\ Phase(c)' = "decided"
  BY <1>2, <1>3, PhaseOf
<1>5. \A d \in Calls \ {c} : Phase(d)' = Phase(d)
  BY <1>2, PhaseStays
<1>6. StorePhase' = [StorePhase EXCEPT ![c] = "decided"] /\ StorePhase[c] = "open"
  BY <1>4, <1>5, OnePhaseMoves DEF StorePhase
<1> QED
  BY <1>1, <1>6 DEF Abstract!Decide, StorePhase

LEMMA CallsFail ==
  ASSUME NEW C \in SUBSET Calls, C # {},
         \A c \in C : Phase(c) \in {"open", "decided"},
         \A c \in C : Phase(c)' = "done",
         \A c \in Calls \ C : Phase(c)' = Phase(c),
         ans' = [c \in Calls |-> IF c \in C THEN Failed ELSE ans[c]],
         file' = file, req' = req
  PROVE  Abstract!Fail(C)
<1>1. [c \in Calls |-> Phase(c)]'
      = [c \in Calls |-> IF c \in C THEN "done" ELSE [d \in Calls |-> Phase(d)][c]]
  OBVIOUS
<1>2. \A c \in C : [d \in Calls |-> Phase(d)][c] \in {"open", "decided"}
  OBVIOUS
<1> QED
  BY <1>1, <1>2, SameStoreData DEF Abstract!Fail

(* A call fails, if it has not yet.                                         *)
LEMMA CallFails ==
  ASSUME IInv, NEW c \in Calls, pc[c] \in Working, NEW x \in Working, Goto(c, x), Answers(c, Failed),
         UNCHANGED <<file, req>>
  PROVE  [Abstract!Next]_(Abstract!vars)
<1>1. /\ pc \in [Calls -> Phases] /\ pc' = [pc EXCEPT ![c] = x]
      /\ ans \in [Calls -> Answer] /\ ans' = [ans EXCEPT ![c] = Failed]
  BY DEF IInv, TypeOK, Goto, Answers
<1>2. /\ pc'[c] = x /\ ans'[c] = Failed /\ \A d \in Calls \ {c} : pc'[d] = pc[d] /\ ans'[d] = ans[d]
  BY <1>1
<1>3. Phase(c)' = "done" /\ \A d \in Calls \ {c} : Phase(d)' = Phase(d)
  BY <1>2, PhaseOf, PhaseStays
<1>4. CASE ans[c] = Failed
  <2>1. ans' = ans /\ Phase(c) = "done"
    BY <1>1, <1>4, PhaseOf
  <2> QED
    BY <1>3, <2>1, StoreStands
<1>5. CASE ans[c] # Failed
  <2>1. Phase(c) \in {"open", "decided"}
    BY <1>5, PhaseOf
  <2>2. ans' = [d \in Calls |-> IF d \in {c} THEN Failed ELSE ans[d]]
    BY <1>1
  <2> DEFINE C == {c}
  <2>3. /\ C \in SUBSET Calls /\ C # {} /\ \A d \in C : Phase(d) \in {"open", "decided"} /\ Phase(d)' = "done"
        /\ \A d \in Calls \ C : Phase(d)' = Phase(d)
        /\ ans' = [d \in Calls |-> IF d \in C THEN Failed ELSE ans[d]]
    BY <1>3, <2>1, <2>2
  <2> HIDE DEF C
  <2>4. Abstract!Fail(C)
    BY <2>3, CallsFail
  <2> QED
    BY <2>3, <2>4 DEF Abstract!Next
<1> QED
  BY <1>4, <1>5

LEMMA LockStepsRefine ==
  ASSUME IInv, NEW c \in Calls,
         \/ Try(c) \/ Retry(c) \/ Reap(c) \/ PeekReaper(c) \/ KillReaper(c) \/ RmReaper(c)
         \/ Confirm(c) \/ PeekLock(c) \/ KillLock(c) \/ ConfirmAgain(c) \/ RmLock(c)
         \/ DropReaper(c) \/ RmOwnReaper(c) \/ Tidy(c) \/ Unlock(c) \/ RmOwnLock(c) \/ Unreadable(c)
  PROVE  UNCHANGED Abstract!vars
<1>1. UNCHANGED <<file, req, ans>> /\ pc[c] \in Working
  BY DEF Try, Retry, Reap, PeekReaper, KillReaper, RmReaper, Confirm, PeekLock, KillLock, ConfirmAgain, RmLock,
         DropReaper, RmOwnReaper, Tidy, Unlock, RmOwnLock, Unreadable, Continue, Peek, Kill, StillMine, AfterReap,
         Working, Phases, ReapPhases
<1>2. \E x \in Working : Goto(c, x)
  <2> USE DEF Working, Phases, ReapPhases
  <2>1. ASSUME NEW x, Continue(c, x) PROVE Goto(c, x)
    BY <2>1 DEF Continue
  <2>2. AfterReap(c) => Goto(c, "return") \/ Goto(c, "try") \/ Goto(c, "pause")
    BY DEF AfterReap
  <2>3. ASSUME Try(c) \/ Retry(c) \/ Reap(c) \/ RmReaper(c) \/ Tidy(c) \/ Unlock(c) \/ RmOwnLock(c)
        PROVE  \/ Goto(c, "read") \/ Goto(c, "reap") \/ Goto(c, "try") \/ Goto(c, "confirm") \/ Goto(c, "peekReaper")
               \/ Goto(c, "pause") \/ Goto(c, "unlock") \/ Goto(c, "rmOwnLock") \/ Goto(c, "return")
    BY <2>1, <2>3 DEF Try, Retry, Reap, RmReaper, Tidy, Unlock, RmOwnLock
  <2>4. ASSUME PeekReaper(c) \/ KillReaper(c) \/ PeekLock(c) \/ KillLock(c)
        PROVE  \/ Goto(c, "rmReaper") \/ Goto(c, "killReaper") \/ Goto(c, "pause") \/ Goto(c, "confirmAgain")
               \/ Goto(c, "killLock") \/ Goto(c, "dropReaper")
    BY <2>4 DEF PeekReaper, KillReaper, PeekLock, KillLock, Peek, Kill
  <2>5. ASSUME Confirm(c) \/ ConfirmAgain(c) \/ RmLock(c)
        PROVE  Goto(c, "peekLock") \/ Goto(c, "rmLock") \/ Goto(c, "dropReaper")
    BY <2>5 DEF Confirm, ConfirmAgain, RmLock, StillMine, Continue
  <2>6. ASSUME DropReaper(c) \/ RmOwnReaper(c) \/ Unreadable(c)
        PROVE  \/ Goto(c, "rmOwnReaper") \/ Goto(c, "return") \/ Goto(c, "try") \/ Goto(c, "pause")
               \/ Goto(c, "dropReaper")
    BY <2>1, <2>2, <2>6 DEF DropReaper, RmOwnReaper, Unreadable
  <2>7. CASE Try(c) \/ Retry(c) \/ Reap(c) \/ RmReaper(c) \/ Tidy(c) \/ Unlock(c) \/ RmOwnLock(c)
    BY <2>3, <2>7
  <2>8. CASE PeekReaper(c) \/ KillReaper(c) \/ PeekLock(c) \/ KillLock(c)
    BY <2>4, <2>8
  <2>9. CASE Confirm(c) \/ ConfirmAgain(c) \/ RmLock(c)
    BY <2>5, <2>9
  <2>10. CASE DropReaper(c) \/ RmOwnReaper(c) \/ Unreadable(c)
    BY <2>6, <2>10
  <2> QED
    BY <2>7, <2>8, <2>9, <2>10
<1> QED
  BY <1>1, <1>2, WorkGoesOn

LEMMA DataStepsRefine ==
  ASSUME IInv, NEW c \in Calls, Load(c) \/ ReadRecords(c) \/ Rename(c)
  PROVE  [Abstract!Next]_(Abstract!vars)
<1> USE FileData, SameStoreData
<1>0. /\ {"return", "write", "unlock", "tidy", "read", "load"} \subseteq Working
      /\ pc \in [Calls -> Phases] /\ file \in [Subjects -> Row]
  BY DEF Working, Phases, IInv, TypeOK
<1>1. CASE Load(c)
  <2> DEFINE answer == Found(file[req[c].subject])
  <2>1. /\ pc[c] = "load" /\ Goto(c, "return") /\ Answers(c, answer) /\ UNCHANGED <<file, req>>
        /\ req[c].op = "load" /\ answer \notin {Failed, Pending}
    BY <1>1 DEF Load, IInv, AsksFit
  <2> HIDE DEF answer
  <2>2. Abstract!Decide(c, answer)
    BY <1>0, <2>1, CallDecides
  <2> QED
    BY <2>1, <2>2 DEF answer, Abstract!Load, Abstract!Step, Abstract!Next
<1>2. CASE ReadRecords(c) /\ Goto(c, "write")
  <2>1. pc[c] = "read" /\ UNCHANGED <<file, req, ans>>
    BY <1>0, <1>2 DEF ReadRecords, Goto
  <2> QED
    BY <1>0, <1>2, <2>1, WorkGoesOn
<1>3. CASE ReadRecords(c) /\ Goto(c, "unlock")
  <2> DEFINE answer == Lost(file[req[c].subject])
  <2>1. /\ pc[c] = "read" /\ Answers(c, answer) /\ UNCHANGED <<file, req>>
        /\ req[c].op = "cas" /\ file[req[c].subject].ver # req[c].expected /\ answer \notin {Failed, Pending}
    BY <1>0, <1>3 DEF ReadRecords, Goto
  <2> HIDE DEF answer
  <2>2. Abstract!Decide(c, answer)
    BY <1>0, <1>3, <2>1, CallDecides
  <2> QED
    BY <2>1, <2>2 DEF answer, Abstract!Refuse, Abstract!Matches, Abstract!Step, Abstract!Next
<1>4. CASE Rename(c)
  <2>1. /\ pc[c] = "write" /\ Goto(c, "tidy") /\ req' = req
        /\ req[c].op \in {"cas", "delete"}
        /\ req[c].op = "cas" => file[req[c].subject].ver = req[c].expected
        /\ file' = [file EXCEPT ![req[c].subject] = RowOf(c)]
        /\ records[c][req[c].subject] = RowOf(c)
        /\ Answers(c, IF req[c].op = "delete" THEN Deleted ELSE Won(records[c][req[c].subject]))
    BY <1>0, <1>4, CallAsked DEF Rename, IInv, ReplacesFit
  <2>2. CASE req[c].op = "delete"
    <3>1. Answers(c, Deleted) /\ Deleted \notin {Failed, Pending}
      BY <2>1, <2>2
    <3>2. Abstract!Decide(c, Deleted)
      BY <1>0, <2>1, <3>1, CallDecides
    <3> QED
      BY <2>1, <2>2, <3>2 DEF RowOf, Abstract!Delete, Abstract!Step, Abstract!Next
  <2>3. CASE req[c].op = "cas"
    <3> DEFINE answer == Won(Stored(c, req[c].expected))
    <3>1. Answers(c, answer) /\ answer \notin {Failed, Pending} /\ RowOf(c) = Stored(c, req[c].expected)
      BY <2>1, <2>3 DEF RowOf
    <3> HIDE DEF answer
    <3>2. Abstract!Decide(c, answer)
      BY <1>0, <2>1, <3>1, CallDecides
    <3> QED
      BY <2>1, <2>3, <3>1, <3>2 DEF answer, Abstract!Swap, Abstract!Matches, Abstract!Step, Abstract!Next
  <2> QED
    BY <2>1, <2>2, <2>3
<1> QED
  BY <1>1, <1>2, <1>3, <1>4 DEF ReadRecords

LEMMA ErrorsRefine ==
  ASSUME IInv, NEW c \in Calls, GiveUp(c) \/ Throw(c) \/ LeaveLock(c)
  PROVE  [Abstract!Next]_(Abstract!vars)
<1> USE DEF Working, Phases, ReapPhases
<1>1. CASE LeaveLock(c) /\ pc[c] = "unlock"
  <2>1. Goto(c, "return") /\ UNCHANGED <<file, req, ans>>
    BY <1>1 DEF LeaveLock
  <2> QED
    BY <1>1, <2>1, WorkGoesOn
<1>2. CASE GiveUp(c) \/ Throw(c) \/ (LeaveLock(c) /\ pc[c] # "unlock")
  <2>1. /\ UNCHANGED <<file, req>> /\ Answers(c, Failed) /\ pc[c] \in Working
        /\ (Goto(c, "return") \/ Goto(c, "unlock") \/ Goto(c, "dropReaper"))
    BY <1>2 DEF GiveUp, Throw, LeaveLock
  <2> QED
    BY <2>1, CallFails
<1> QED
  BY <1>1, <1>2

LEMMA EndsRefine ==
  ASSUME IInv, NEW c \in Calls, Return(c) \/ \E r \in Requests : Invoke(c, r)
  PROVE  [Abstract!Next]_(Abstract!vars)
<1>0. pc \in [Calls -> Phases] /\ req \in [Calls -> Requests \cup {NoRequest}] /\ ans \in [Calls -> Answer]
  BY DEF IInv, TypeOK
<1>1. CASE Return(c)
  <2>1. /\ pc[c] = "return" /\ pc'[c] = "done" /\ UNCHANGED <<file, req, ans>>
        /\ \A d \in Calls \ {c} : pc'[d] = pc[d]
    BY <1>0, <1>1 DEF Return, Continue, Goto
  <2>2. Phase(c)' = "done" /\ \A d \in Calls \ {c} : Phase(d)' = Phase(d)
    BY <2>1, PhaseOf, PhaseStays
  <2>3. "return" \in Working /\ ans[c] # Pending
    BY <2>1 DEF Working, Phases, IInv, AsksFit, AnswerFits, Leaving
  <2>4. CASE ans[c] = Failed
    <3>1. Phase(c) = "done"
      BY <2>1, <2>3, <2>4, PhaseOf
    <3> QED
      BY <2>1, <2>2, <3>1, StoreStands
  <2>5. CASE ans[c] # Failed
    <3>1. Phase(c) = "decided"
      BY <2>1, <2>3, <2>5, PhaseOf
    <3>2. StorePhase' = [StorePhase EXCEPT ![c] = "done"] /\ StorePhase[c] = "decided"
      BY <2>2, <3>1, OnePhaseMoves DEF StorePhase
    <3>3. Abstract!Return(c)
      BY <2>1, <3>2 DEF Abstract!Return, StorePhase
    <3> QED
      BY <3>3 DEF Abstract!Step, Abstract!Next
  <2> QED
    BY <2>4, <2>5
<1>2. ASSUME NEW r \in Requests, Invoke(c, r) PROVE Abstract!Next
  <2>1. /\ pc[c] = "idle" /\ pc'[c] \in {"load", "try"} /\ UNCHANGED <<file, ans>> /\ req' = [req EXCEPT ![c] = r]
        /\ \A d \in Calls \ {c} : pc'[d] = pc[d] /\ req'[d] = req[d]
    BY <1>0, <1>2 DEF Invoke, Goto
  <2>2. ans[c] = Pending /\ {"load", "try"} \subseteq Working
    BY <2>1 DEF IInv, AsksFit, AnswerFits, Undecided, Working, Phases
  <2>3. Phase(c) = "idle" /\ Phase(c)' = "open"
    BY <2>1, <2>2, PhaseOf
  <2>4. \A d \in Calls \ {c} : Phase(d)' = Phase(d)
    BY <2>1, PhaseStays
  <2>5. StorePhase' = [StorePhase EXCEPT ![c] = "open"] /\ StorePhase[c] = "idle"
    BY <2>3, <2>4, OnePhaseMoves DEF StorePhase
  <2>6. Abstract!Invoke(c, r)
    BY <2>1, <2>5 DEF Abstract!Invoke, StorePhase
  <2> QED
    BY <2>6 DEF Abstract!Next
<1> QED
  BY <1>1, <1>2

(* A process dies: its calls fail that had no answer or had not given it.   *)
LEMMA CrashRefines ==
  ASSUME IInv, NEW p \in Procs, Crash(p)
  PROVE  [Abstract!Next]_(Abstract!vars)
<1> DEFINE dying == {c \in Calls : Home[c] = p}
           C == {c \in dying : pc[c] \in Working /\ ans[c] # Failed}
<1>0. pc \in [Calls -> Phases] /\ ans \in [Calls -> Answer] /\ AsksFit
  BY DEF IInv, TypeOK
<1>1. /\ pc' = [c \in Calls |-> IF c \in dying THEN "dead" ELSE pc[c]]
      /\ ans' = [c \in Calls |-> IF c \in C THEN Failed ELSE ans[c]]
      /\ UNCHANGED <<file, req>>
  BY <1>0 DEF Crash, Running, Working
<1>2. \A c \in Calls \ dying : Phase(c)' = Phase(c)
  BY <1>1, PhaseStays
<1>3. \A c \in C : Phase(c) \in {"open", "decided"}
  BY PhaseOf
<1>4. ASSUME NEW c \in dying
      PROVE  (c \in C => Phase(c)' = "done") /\ (c \notin C => Phase(c)' = Phase(c))
  <2>1. pc'[c] = "dead" /\ req'[c] = req[c] /\ c \in Calls
    BY <1>1
  <2>2. Phase(c)' = (IF req[c] = NoRequest THEN "idle" ELSE "done")
    BY <2>1, PhaseOf
  <2>3. pc[c] \notin {"idle", "dead"} => req[c] # NoRequest
    BY <1>0, <2>1, FileData DEF AsksFit
  <2>4. CASE pc[c] \in Working /\ ans[c] # Failed
    BY <2>2, <2>3, <2>4 DEF Working
  <2>5. CASE pc[c] \in Working /\ ans[c] = Failed
    <3>1. Phase(c) = "done"
      BY <2>5, PhaseOf
    <3> QED
      BY <2>2, <2>3, <2>5, <3>1 DEF Working
  <2>6. CASE pc[c] \in {"idle", "done", "dead"}
    <3>1. pc[c] = "idle" => req[c] = NoRequest
      BY <1>0, <2>1 DEF AsksFit
    <3>2. Phase(c) = (IF req[c] = NoRequest THEN "idle" ELSE "done")
      BY <2>3, <2>6, <3>1, PhaseOf
    <3> QED
      BY <2>2, <2>6, <3>2 DEF Working
  <2> QED
    BY <1>0, <2>1, <2>4, <2>5, <2>6 DEF Working
<1>5. \A c \in C : Phase(c)' = "done"
  BY <1>4
<1>6. \A c \in Calls \ C : Phase(c)' = Phase(c)
  BY <1>2, <1>4
<1>7. C \in SUBSET Calls
  OBVIOUS
<1> HIDE DEF C, dying
<1>8. CASE C = {}
  <2>1. ans' = ans
    BY <1>0, <1>1, <1>8
  <2> QED
    BY <1>1, <1>6, <1>8, <2>1, StoreStands
<1>9. CASE C # {}
  <2>1. Abstract!Fail(C)
    BY <1>1, <1>3, <1>5, <1>6, <1>7, <1>9, CallsFail
  <2> QED
    BY <1>7, <2>1 DEF Abstract!Next
<1> QED
  BY <1>8, <1>9

LEMMA StepRefines ==
  ASSUME IInv, [Next]_vars
  PROVE  [Abstract!Next]_(Abstract!vars)
<1>1. ASSUME NEW c \in Calls, Step(c) PROVE [Abstract!Next]_(Abstract!vars)
  BY <1>1, LockStepsRefine, DataStepsRefine, EndsRefine DEF Step
<1>2. CASE UNCHANGED vars
  <2>1. \A c \in Calls : Phase(c)' = Phase(c)
    BY <1>2, PhaseStays DEF vars
  <2> QED
    BY <1>2, <2>1, StoreStands DEF vars
<1>3. ASSUME NEW c \in Calls, Meets(c) PROVE [Abstract!Next]_(Abstract!vars)
  BY <1>3, ErrorsRefine, LockStepsRefine, EndsRefine DEF Meets
<1>4. ASSUME NEW c \in Calls, GiveUp(c) PROVE [Abstract!Next]_(Abstract!vars)
  BY <1>4, ErrorsRefine
<1> QED
  BY <1>1, <1>2, <1>3, <1>4, CrashRefines DEF Next, Goes, TimesOut

(* While who waits for the lock waits alone, callers cannot tell the Node   *)
(* file from the abstract store: for any number of calls, one after the     *)
(* other or as pairs, with loads at any time, in any number of processes    *)
(* that may die at any moment, with I/O errors and deadlines.               *)
THEOREM AloneImplementsStore == AloneSpec => ImplementsStore
<1>1. IInv /\ IInv' /\ [Next /\ WaitsAlone']_vars => [Abstract!Next]_(Abstract!vars)
  BY StepRefines
<1>2. Init => Abstract!Init
  BY InitRefines
<1> QED
  BY <1>1, <1>2, Invariance, PTL DEF AloneSpec, ImplementsStore, Abstract!Spec

(***************************************************************************)
(* Two calls.  When one finds the lock taken, the other has taken it, and   *)
(* does not come back to it: who waits waits alone.                         *)
(***************************************************************************)

(* There are no more than two calls but for those that died before.         *)
PairMeets == \A c, d, e \in Calls \ Before : c = d \/ d = e \/ c = e

OtherIsPast == \A c, d \in Calls : pc[c] \in Reaping /\ c # d => pc[d] \in Past

(* No call goes back to the lock once it is past it, and one only waits     *)
(* that has found the lock taken.                                           *)
Onward(c) ==
  /\ pc[c] \in Past => pc'[c] \in Past
  /\ pc'[c] \in Reaping => pc[c] \in Reaping \/ (pc[c] = "try" /\ lock # NoCall)

LEMMA CallsGoOn ==
  ASSUME TypeOK, [Next]_vars
  PROVE  \A c \in Calls : Onward(c)
<1> USE DEF Inside, Past, Reaping, ReapPhases
<1>0. pc \in [Calls -> Phases]
  BY DEF TypeOK
<1>1. ASSUME NEW c \in Calls, NEW x, Goto(c, x), pc[c] \in Past => x \in Past,
             x \in Reaping => pc[c] \in Reaping \/ (pc[c] = "try" /\ lock # NoCall)
      PROVE  \A d \in Calls : Onward(d)
  <2>1. pc'[c] = x /\ \A d \in Calls \ {c} : pc'[d] = pc[d]
    BY <1>0, <1>1 DEF Goto
  <2>2. \A d \in Calls \ {c} : Onward(d)
    BY <2>1, Places DEF Onward
  <2>3. Onward(c)
    BY <1>1, <2>1 DEF Onward
  <2> QED
    BY <2>2, <2>3
<1>2. ASSUME NEW c \in Calls, Load(c) \/ Try(c) \/ Retry(c) \/ Reap(c) \/ GiveUp(c)
      PROVE  \A d \in Calls : Onward(d)
  <2>1. \/ pc[c] \in {"load", "pause"} /\ Goto(c, "return")
        \/ pc[c] = "try" /\ Goto(c, "read")
        \/ pc[c] = "try" /\ lock # NoCall /\ Goto(c, "reap")
        \/ pc[c] = "pause" /\ Goto(c, "try")
        \/ pc[c] = "reap" /\ (Goto(c, "confirm") \/ Goto(c, "peekReaper"))
    BY <1>2 DEF Load, Try, Retry, Reap, GiveUp, Continue
  <2> QED
    BY <1>1, <2>1
<1>3. ASSUME NEW c \in Calls, PeekReaper(c) \/ KillReaper(c) \/ RmReaper(c) \/ Confirm(c) \/ PeekLock(c)
                              \/ KillLock(c) \/ ConfirmAgain(c) \/ RmLock(c)
      PROVE  \A d \in Calls : Onward(d)
  <2>1. pc[c] \in Reaping /\ \E x \in Reaping : Goto(c, x)
    BY <1>3 DEF PeekReaper, KillReaper, RmReaper, Confirm, PeekLock, KillLock, ConfirmAgain, RmLock,
       Peek, Kill, StillMine, Continue
  <2> QED
    BY <1>1, <2>1
<1>4. ASSUME NEW c \in Calls, DropReaper(c) \/ RmOwnReaper(c) \/ Unreadable(c) \/ LeaveLock(c)
      PROVE  \A d \in Calls : Onward(d)
  <2>1. ASSUME AfterReap(c), pc[c] = "dropReaper" \/ pc[c] = "rmOwnReaper" PROVE \A d \in Calls : Onward(d)
    <3>1. Goto(c, "return") \/ Goto(c, "try") \/ Goto(c, "pause")
      BY <2>1 DEF AfterReap
    <3> QED
      BY <1>1, <2>1, <3>1
  <2>2. CASE DropReaper(c) \/ RmOwnReaper(c)
    BY <1>1, <2>1, <2>2 DEF DropReaper, RmOwnReaper, Continue
  <2>3. CASE Unreadable(c)
    BY <1>1, <2>1, <2>3 DEF Unreadable, Continue
  <2>4. CASE LeaveLock(c)
    <3>1. Goto(c, "return") \/ (pc[c] = "rmLock" /\ Goto(c, "dropReaper"))
      BY <2>4 DEF LeaveLock
    <3> QED
      BY <1>1, <3>1
  <2> QED
    BY <1>4, <2>2, <2>3, <2>4
<1>5. ASSUME NEW c \in Calls, \/ ReadRecords(c) \/ Rename(c) \/ Tidy(c) \/ Unlock(c) \/ RmOwnLock(c)
                              \/ Return(c) \/ Throw(c)
      PROVE  \A d \in Calls : Onward(d)
  <2>1. Goto(c, "write") \/ Goto(c, "unlock") \/ Goto(c, "tidy") \/ Goto(c, "rmOwnLock") \/ Goto(c, "return")
        \/ Goto(c, "done")
    BY <1>5 DEF ReadRecords, Rename, Tidy, Unlock, RmOwnLock, Return, Throw, Continue
  <2> QED
    BY <1>1, <2>1
<1>6. ASSUME NEW c \in Calls, NEW q \in Requests, Invoke(c, q) PROVE \A d \in Calls : Onward(d)
  <2>1. pc[c] = "idle" /\ (Goto(c, "load") \/ Goto(c, "try"))
    BY <1>6 DEF Invoke
  <2> QED
    BY <1>1, <2>1
<1>7. ASSUME NEW p \in Procs, Crash(p) PROVE \A d \in Calls : Onward(d)
  BY <1>7 DEF Crash, Onward
<1>8. CASE UNCHANGED vars
  BY <1>8, Places DEF vars, Onward
<1> QED
  BY <1>2, <1>3, <1>4, <1>5, <1>6, <1>7, <1>8 DEF Next, Goes, TimesOut, Meets, Step

LEMMA OtherStaysPast ==
  ASSUME PairMeets, IInv, OtherIsPast, [Next]_vars
  PROVE  OtherIsPast'
<1> SUFFICES ASSUME NEW c \in Calls, NEW d \in Calls, pc'[c] \in Reaping, c # d
             PROVE  pc'[d] \in Past
  BY DEF OtherIsPast
<1>1. Onward(c) /\ Onward(d)
  BY CallsGoOn DEF IInv
<1>2. pc[d] \in Past
  <2>1. CASE pc[c] \in Reaping
    BY <2>1 DEF OtherIsPast
  <2>2. CASE pc[c] = "try" /\ lock # NoCall
    <3>1. AsksFit /\ LocksFit
      BY DEF IInv
    <3>2. c \notin Before /\ lock \in Calls \ Before /\ lock # c /\ pc[lock] \in Past
      BY <2>2, <3>1, Places DEF AsksFit, LocksFit
    <3>3. d \in Before \/ d = lock
      BY <3>2 DEF PairMeets
    <3> QED
      BY <3>1, <3>2, <3>3, Places DEF AsksFit
  <2> QED
    BY <1>1, <2>1, <2>2 DEF Onward
<1> QED
  BY <1>1, <1>2 DEF Onward

LEMMA PairsWaitAlone ==
  ASSUME PairMeets
  PROVE  Spec => AloneSpec
<1>1. OtherIsPast => WaitsAlone
  BY Places DEF OtherIsPast, WaitsAlone, Waits, Reaping
<1>2. OtherIsPast' => WaitsAlone'
  BY Places DEF OtherIsPast, WaitsAlone, Waits, Reaping
<1>3. Init => IInv /\ OtherIsPast
  <2>1. ASSUME Init PROVE OtherIsPast
    BY <2>1, Places DEF Init, OtherIsPast
  <2> QED
    BY <2>1, InitHolds
<1>4. IInv /\ OtherIsPast /\ [Next]_vars => IInv' /\ OtherIsPast'
  BY <1>1, <1>2, OtherStaysPast, NextHolds DEF StaysAlone
<1>5. [Next]_vars /\ OtherIsPast' => [Next /\ WaitsAlone']_vars
  BY <1>2
<1> QED
  BY <1>3, <1>4, <1>5, PTL DEF Spec, AloneSpec

(* So two calls get what the contract promises, in whatever processes, next *)
(* to any number that died before and left their files.                     *)
THEOREM PairImplementsStore == PairMeets => (Spec => ImplementsStore)
<1> SUFFICES ASSUME PairMeets PROVE Spec => ImplementsStore
  OBVIOUS
<1>1. Spec => AloneSpec
  BY PairsWaitAlone
<1> QED
  BY <1>1, AloneImplementsStore, PTL

(***************************************************************************)
(* What holds of the abstract store holds of this one.                      *)
(***************************************************************************)

Contract == INSTANCE CredentialStoreProofs WITH
  rows <- file, phase <- StorePhase, req <- req, ans <- ans

LEMMA SameRequests == Requests \subseteq Contract!Request /\ NoCall \notin Calls
BY RequestsAssumption, NoCallAssumption DEF Request, Contract!Request

(* The theorems are about a copy of the abstract store of the refinement.   *)
LEMMA SameSteps ==
  /\ Abstract!Init = Contract!Init /\ Abstract!vars = Contract!vars
  /\ Abstract!Next = Contract!Next
<1> USE DEF StorePhase, Abstract!Missing, Contract!Missing, Abstract!Pending, Contract!Pending,
      Abstract!NoRequest, Contract!NoRequest
<1>1. Abstract!Init = Contract!Init /\ Abstract!vars = Contract!vars
  BY DEF Abstract!Init, Contract!Init, Abstract!SomeRows, Contract!SomeRows,
     Abstract!vars, Contract!vars
<1>2. \A c, answer : Abstract!Decide(c, answer) = Contract!Decide(c, answer)
  BY DEF Abstract!Decide, Contract!Decide
<1>3. \A c : Abstract!Load(c) = Contract!Load(c)
  BY <1>2 DEF Abstract!Load, Contract!Load, Abstract!Found, Contract!Found
<1>4. \A c : Abstract!Swap(c) = Contract!Swap(c) /\ Abstract!Refuse(c) = Contract!Refuse(c)
  BY <1>2 DEF Abstract!Swap, Contract!Swap, Abstract!Refuse, Contract!Refuse, Abstract!Matches,
     Contract!Matches, Abstract!Won, Contract!Won, Abstract!Lost, Contract!Lost,
     Abstract!Stored, Contract!Stored
<1>5. \A c : Abstract!Delete(c) = Contract!Delete(c) /\ Abstract!Return(c) = Contract!Return(c)
  BY <1>2 DEF Abstract!Delete, Contract!Delete, Abstract!Return, Contract!Return,
     Abstract!Deleted, Contract!Deleted
<1>6. /\ \A c, r : Abstract!Invoke(c, r) = Contract!Invoke(c, r)
      /\ \A C : Abstract!Fail(C) = Contract!Fail(C)
  BY DEF Abstract!Invoke, Contract!Invoke, Abstract!Fail, Contract!Fail,
     Abstract!Failed, Contract!Failed
<1> QED
  BY <1>1, <1>3, <1>4, <1>5, <1>6 DEF Abstract!Next, Contract!Next, Abstract!Step, Contract!Step

LEMMA ContractHolds == AloneSpec => []Contract!IInv
<1>1. Abstract!Init => Contract!IInv
  BY SameRequests, SameSteps, Contract!InitHolds
<1>2. Contract!IInv /\ [Abstract!Next]_(Abstract!vars) => Contract!IInv'
  <2>1. Contract!IInv /\ [Contract!Next]_(Contract!vars) =>
          Contract!TypeOK' /\ Contract!AnswersFit'
    BY SameRequests, Contract!TypeStep DEF Contract!IInv
  <2>2. Contract!IInv /\ [Contract!Next]_(Contract!vars) =>
          Contract!WinnersAreNotLost' /\ Contract!OneWinnerPerVersion'
    BY SameRequests, Contract!WinnersStep
  <2>3. [Abstract!Next]_(Abstract!vars) => [Contract!Next]_(Contract!vars)
    BY SameSteps DEF StorePhase, Abstract!vars, Contract!vars
  <2> QED
    BY <2>1, <2>2, <2>3 DEF Contract!IInv
<1> QED
  BY <1>1, <1>2, AloneImplementsStore, PTL DEF ImplementsStore, Abstract!Spec

(* Of the writes that expect the same version one wins, unless the row was  *)
(* removed: what docs/storage.md says, of calls that wait alone.            *)
THEOREM AloneHasOneWinner == AloneSpec => []ExactlyOneWins
<1>1. Contract!IInv => ExactlyOneWins
  BY DEF Contract!IInv, ExactlyOneWins, Contract!OneWinnerPerVersion,
     Abstract!OneWinnerPerVersion, Contract!Winner, Abstract!Winner, Contract!Same, Abstract!Same,
     Contract!Undeleted, Abstract!Undeleted, Contract!NoRequest, Abstract!NoRequest
<1> QED
  BY ContractHolds, <1>1, PTL

(***************************************************************************)
(* Types, for any number of calls, whoever waits.                           *)
(***************************************************************************)

Typed ==
  /\ TypeOK
  /\ \A c \in Calls : pc[c] \notin {"idle", "dead"} => req[c] \in Requests

LEMMA CallTypes ==
  ASSUME Typed, NEW c \in Calls, pc[c] \notin {"idle", "dead"}, NEW x \in Phases \ {"idle"}, Goto(c, x),
         UNCHANGED <<req, calm>>, file' = file \/ file' = records[c],
         ans' = ans \/ (\E a \in Answer : Answers(c, a)),
         lock' \in {lock, c, NoCall}, reaper' \in {reaper, c, NoCall},
         saw' = saw \/ (\E o \in {lock, reaper, NoCall} : saw' = [saw EXCEPT ![c] = o]),
         reaped' = reaped \/ (\E v \in BOOLEAN : reaped' = [reaped EXCEPT ![c] = v]),
         records' = records \/ (\E f \in [Subjects -> Row] : records' = [records EXCEPT ![c] = f])
  PROVE  Typed'
<1>1. TypeOK'
  <2>1. pc' \in [Calls -> Phases] /\ ans' \in [Calls -> Answer] /\ req' \in [Calls -> Requests \cup {NoRequest}]
    BY DEF Typed, TypeOK, Goto, Answers
  <2>2. file' \in [Subjects -> Row] /\ records' \in [Calls -> [Subjects -> Row]] /\ calm' \in BOOLEAN
    BY DEF Typed, TypeOK
  <2>3. lock' \in Calls \cup {NoCall} /\ reaper' \in Calls \cup {NoCall}
    BY DEF Typed, TypeOK
  <2>4. saw' \in [Calls -> Calls \cup {NoCall}]
    <3>1. /\ saw \in [Calls -> Calls \cup {NoCall}]
          /\ \A o \in {lock, reaper, NoCall} : o \in Calls \cup {NoCall}
      BY DEF Typed, TypeOK
    <3> QED
      BY <3>1
  <2>5. reaped' \in [Calls -> BOOLEAN]
    BY DEF Typed, TypeOK
  <2> QED
    BY <2>1, <2>2, <2>3, <2>4, <2>5 DEF TypeOK
<1>2. \A d \in Calls : pc'[d] \notin {"idle", "dead"} => req'[d] \in Requests
  BY DEF Typed, TypeOK, Goto
<1> QED
  BY <1>1, <1>2 DEF Typed

LEMMA TypesHold ==
  ASSUME Typed, [Next]_vars
  PROVE  Typed'
<1> USE DEF Phases, ReapPhases
<1>1. ASSUME NEW c \in Calls, UNCHANGED calm, NEW x \in Phases \ {"idle"}, Continue(c, x),
             pc[c] \notin {"idle", "dead"}, lock' \in {lock, c, NoCall}, reaper' \in {reaper, c, NoCall}
      PROVE  Typed'
  BY <1>1, CallTypes DEF Continue, locals
<1>2. ASSUME NEW c \in Calls, UNCHANGED calm, AfterReap(c), pc[c] \in {"dropReaper", "rmOwnReaper"},
             reaper' \in {reaper, NoCall}
      PROVE  Typed'
  <2>1. /\ Goto(c, "return") \/ Goto(c, "try") \/ Goto(c, "pause")
        /\ \E v \in BOOLEAN : reaped' = [reaped EXCEPT ![c] = v]
        /\ UNCHANGED <<file, lock, req, ans, saw, records>>
    BY <1>2 DEF AfterReap
  <2> QED
    BY <1>2, <2>1, CallTypes
<1>3. ASSUME NEW c \in Calls, UNCHANGED calm,
             \/ Try(c) \/ Retry(c) \/ Reap(c) \/ RmReaper(c) \/ Confirm(c) \/ ConfirmAgain(c)
             \/ Tidy(c) \/ Unlock(c) \/ RmOwnLock(c) \/ Return(c)
      PROVE  Typed'
  BY <1>1, <1>3 DEF Try, Retry, Reap, RmReaper, Confirm, ConfirmAgain, StillMine, Tidy, Unlock, RmOwnLock, Return
<1>4. ASSUME NEW c \in Calls, UNCHANGED calm, DropReaper(c) \/ RmOwnReaper(c) \/ Unreadable(c)
      PROVE  Typed'
  BY <1>1, <1>2, <1>4 DEF DropReaper, RmOwnReaper, Unreadable
<1>5. ASSUME NEW c \in Calls, UNCHANGED calm,
             PeekReaper(c) \/ KillReaper(c) \/ PeekLock(c) \/ KillLock(c) \/ RmLock(c)
      PROVE  Typed'
  <2>1. /\ pc[c] \in ReapPhases /\ UNCHANGED <<file, reaper, req, ans, records>> /\ lock' \in {lock, NoCall}
        /\ \E x \in ReapPhases \cup {"pause"} : Goto(c, x)
        /\ saw' = saw \/ (\E o \in {lock, reaper, NoCall} : saw' = [saw EXCEPT ![c] = o])
        /\ reaped' = reaped \/ (\E v \in BOOLEAN : reaped' = [reaped EXCEPT ![c] = v])
    BY <1>5 DEF PeekReaper, KillReaper, PeekLock, KillLock, Peek, Kill, Reads, RmLock
  <2> QED
    BY <1>5, <2>1, CallTypes
<1>6. ASSUME NEW c \in Calls, UNCHANGED calm, Load(c) \/ GiveUp(c) \/ Throw(c) \/ LeaveLock(c)
      PROVE  Typed'
  <2>1. Failed \in Answer /\ NoRecords \in [Subjects -> Row]
    BY FileData
  <2>2. pc[c] = "load" => Found(file[req[c].subject]) \in Answer
    BY FileData DEF Typed, TypeOK, Request
  <2>3. /\ UNCHANGED <<file, req, saw, reaped>> /\ pc[c] \notin {"idle", "dead"}
        /\ lock' \in {lock, c} /\ reaper' \in {reaper, c}
        /\ Goto(c, "return") \/ Goto(c, "unlock") \/ Goto(c, "dropReaper")
    BY <1>6 DEF Load, GiveUp, Throw, LeaveLock, locals
  <2>4. ans' = ans \/ (\E a \in Answer : Answers(c, a))
    BY <1>6, <2>1, <2>2 DEF Load, GiveUp, Throw, LeaveLock
  <2>5. records' = records \/ (\E f \in [Subjects -> Row] : records' = [records EXCEPT ![c] = f])
    BY <1>6, <2>1 DEF Load, GiveUp, Throw, LeaveLock, locals
  <2> QED
    BY <1>6, <2>3, <2>4, <2>5, CallTypes
<1>7. ASSUME NEW c \in Calls, UNCHANGED calm, ReadRecords(c) \/ Rename(c)
      PROVE  Typed'
  <2>1. /\ req[c].subject \in Subjects /\ req[c].expected \in Nat /\ pc[c] \notin {"idle", "dead"}
        /\ file \in [Subjects -> Row] /\ records[c] \in [Subjects -> Row]
    BY <1>7, FileData DEF Typed, TypeOK, Request, ReadRecords, Rename
  <2>2. CASE ReadRecords(c)
    <3>1. /\ Goto(c, "write") \/ Goto(c, "unlock")
          /\ ans' = ans \/ (\E a \in Answer : Answers(c, a))
      BY <2>1, <2>2, FileData DEF ReadRecords
    <3>2. records' = records \/ (\E f \in [Subjects -> Row] : records' = [records EXCEPT ![c] = f])
      <4>1. /\ [file EXCEPT ![req[c].subject] = Missing] \in [Subjects -> Row]
            /\ [file EXCEPT ![req[c].subject] = Stored(c, req[c].expected)] \in [Subjects -> Row]
        BY <2>1, FileData
      <4> QED
        BY <2>2, <4>1 DEF ReadRecords
    <3> QED
      BY <1>7, <2>1, <2>2, <3>1, <3>2, CallTypes DEF ReadRecords
  <2>3. CASE Rename(c)
    <3>1. ans' = ans \/ (\E a \in Answer : Answers(c, a))
      BY <2>1, <2>3, FileData DEF Rename
    <3>2. \E f \in [Subjects -> Row] : records' = [records EXCEPT ![c] = f]
      BY <2>3, FileData DEF Rename
    <3> QED
      BY <1>7, <2>1, <2>3, <3>1, <3>2, CallTypes DEF Rename
  <2> QED
    BY <1>7, <2>2, <2>3
<1>8. ASSUME NEW c \in Calls, UNCHANGED calm, NEW q \in Requests, Invoke(c, q) PROVE Typed'
  BY <1>8 DEF Invoke, Goto, locals, Typed, TypeOK
<1>9. ASSUME NEW p \in Procs, Crash(p), UNCHANGED calm PROVE Typed'
  BY <1>9, FileData DEF Crash, locals, Typed, TypeOK
<1>10. CASE UNCHANGED vars
  BY <1>10 DEF vars, Typed, TypeOK
<1> QED
  BY <1>3, <1>4, <1>5, <1>6, <1>7, <1>8, <1>9, <1>10 DEF Next, Goes, TimesOut, Meets, Step

(* Every variable keeps its type, however many calls wait and reap at once. *)
THEOREM FileTypeCorrect == Spec => []TypeOK
<1>1. Init => Typed
  <2>1. ASSUME Init PROVE TypeOK /\ \A c \in Calls : pc[c] \in {"idle", "dead"}
    BY <2>1, InitHolds DEF IInv, Init
  <2> QED
    BY <2>1 DEF Typed
<1>2. Typed => TypeOK
  BY DEF Typed
<1> QED
  BY <1>1, <1>2, TypesHold, PTL DEF Spec

=============================================================================
