--------------------------- MODULE WebSignInProofs ---------------------------
(* Proofs about WebSignIn and the handler it composes, for any number of    *)
(* operations, polls and callback requests, either keeper of the login, and *)
(* with the library's buttons or an application's own.                      *)
EXTENDS WebSignIn, TLAPS

(***************************************************************************)
(* The inductive invariant.                                                *)
(***************************************************************************)

(* Operations are taken in order, and only a login has a window.           *)
OpsFit ==
  /\ \A i \in Ops : i > operation => op[i] = OpAt("none", "idle", None)
  /\ \A i \in Ops : ~(i > operation) => op[i].kind # "none" /\ op[i].pc # "idle"
  /\ \A i \in Ops : op[i].kind = "unmount" => i = operation /\ op[i].pc = "done"
  /\ \A i \in Ops : op[i].kind # "login" => op[i].win = None
  /\ \A i \in Ops : ~(op[i].win > operation)
  /\ ~(window.id > operation)

(* What the newest operation was answered was so since it began.           *)
AnswerOf(o) ==
  /\ o.ok /\ (o.pc = "polled" \/ (o.pc = "reply" /\ o.kind = "refresh")) => o.got \in seen
  /\ o.ok /\ o.pc = "reply" /\ o.kind = "logout" => None \in seen
AnswersFit == row \in seen /\ AnswerOf(op[operation])

(* A login that a store keeps, or that a callback has taken, has begun, and*)
(* the one that is kept was not taken before.                              *)
Begun(l) == op[l].pc \notin {"idle", "fetch"}
CallbacksFit ==
  /\ \A r \in Requests : callback[r].at # "unsent" => callback[r].login \in Logins
  /\ custody = "store" =>
       /\ kept # None => Begun(kept) /\ \A r \in Requests : Proceeded(r) => callback[r].login # kept
       /\ \A r \in Requests : Proceeded(r) => Begun(callback[r].login)

(* With the library's buttons a window is never handed on.                 *)
OwnWindows == Buttons => \A i \in Ops : i # operation /\ op[i].win # None => op[i].win # window.id

PageFits == BusyWhileNewestRuns /\ ViewWasTrue
WindowFits == WindowIsAttended /\ OwnWindows

IInv == TypeOK /\ OpsFit /\ AnswersFit /\ CallbacksFit /\ TakenOnce /\ PageFits /\ WindowFits

(***************************************************************************)
(* The steps, by what they leave to the invariant.                         *)
(***************************************************************************)

LEMMA OpsTyped == MaxLogins \in Nat /\ 1 \in Ops /\ None \notin Ops /\ Ops \subseteq Nat /\ Logins = Ops
BY HookAssumption, CountsAssumption DEF Ops, Logins, None

LEMMA OpAtTyped ==
  ASSUME NEW k \in Kinds, NEW p \in {"idle", "fetch", "done"}, NEW w \in Ops \cup {None}
  PROVE  /\ OpAt(k, p, w) \in Operation
         /\ OpAt(k, p, w).kind = k /\ OpAt(k, p, w).pc = p /\ OpAt(k, p, w).win = w
         /\ OpAt(k, p, w).ok = FALSE /\ OpAt(k, p, w).got = None
BY HookAssumption DEF OpAt, Operation

(* An operation begins: a refresh, a sign-in, a sign-out, the page goes.   *)
LEMMA BeginKeeps ==
  ASSUME IInv, TypeOK', NEW n \in Ops, n = operation + 1, Mounted,
         NEW k \in Kinds \ {"none"}, NEW p \in {"fetch", "done"}, NEW w \in Ops \cup {None},
         operation' = n, op' = [op EXCEPT ![n] = OpAt(k, p, w)], seen' = {row}, UNCHANGED handler,
         k = "unmount" => p = "done", k # "login" => w = None, ~(w > n), ~(window'.id > n),
         k # "unmount" => (view'.status \in Busy <=> p = "fetch"),
         p = "done" /\ k # "unmount" => view'.status = "error",
         window'.id # None => popup' = window'.id /\ p = "fetch" /\ w = window'.id,
         Buttons /\ window'.id # None => window'.id = n
  PROVE  IInv'
<1> USE OpsTyped DEF IInv
<1>0. /\ operation \in Nat /\ n > operation /\ ~(operation > n) /\ operation # n
      /\ \A i \in Ops : i > n => i > operation
      /\ \A i \in Ops : ~(i > n) => i = n \/ ~(i > operation)
      /\ \A x \in Ops \cup {None} : ~(x > operation) => ~(x > n) /\ x # n
  BY DEF TypeOK, None
<1>1. /\ op'[n].kind = k /\ op'[n].pc = p /\ op'[n].win = w /\ op'[n].ok = FALSE /\ op'[n].got = None
      /\ \A i \in Ops \ {n} : op'[i] = op[i]
      /\ op[n].pc = "idle"
  <2>1. op[n].pc = "idle"
    BY <1>0 DEF OpsFit, OpAt
  <2>2. op \in [Ops -> Operation] /\ k \in Kinds
    BY DEF TypeOK
  <2>3. op'[n] = OpAt(k, p, w) /\ \A i \in Ops \ {n} : op'[i] = op[i]
    BY <2>2
  <2> QED
    BY <2>1, <2>3 DEF OpAt
<1>2. OpsFit'
  <2>1. \A i \in Ops : op[i].kind = "unmount" => FALSE
    BY DEF OpsFit, Mounted
  <2>2. \A i \in Ops : op'[i].win \in Ops \cup {None} /\ op[i].win \in Ops \cup {None}
    BY DEF TypeOK, Operation
  <2>3. \A i \in Ops : i > operation' => op'[i] = OpAt("none", "idle", None)
    BY <1>0, <1>1 DEF OpsFit
  <2>4. \A i \in Ops : ~(i > operation') => op'[i].kind # "none" /\ op'[i].pc # "idle"
    BY <1>0, <1>1 DEF OpsFit
  <2>5. \A i \in Ops : op'[i].kind = "unmount" => i = operation' /\ op'[i].pc = "done"
    BY <1>1, <2>1
  <2>6. \A i \in Ops : op'[i].kind # "login" => op'[i].win = None
    BY <1>1 DEF OpsFit
  <2>7. \A i \in Ops : ~(op'[i].win > operation')
    <3>1. \A i \in Ops : ~(op[i].win > operation)
      BY DEF OpsFit
    <3>2. ASSUME NEW i \in Ops PROVE ~(op'[i].win > n)
      <4>1. CASE i = n
        BY <1>1, <4>1
      <4>2. CASE i # n
        BY <1>0, <1>1, <2>2, <3>1, <4>2
      <4> QED
        BY <4>1, <4>2
    <3> QED
      BY <3>2
  <2> QED
    BY <2>3, <2>4, <2>5, <2>6, <2>7 DEF OpsFit
<1>3. AnswersFit'
  BY <1>1 DEF AnswersFit, AnswerOf, handler
<1>4. CallbacksFit' /\ TakenOnce'
  <2>1. \A l \in Ops : Begun(l) => Begun(l)'
    BY <1>1 DEF Begun
  <2>2. UNCHANGED <<custody, kept, callback>> /\ \A r \in Requests : Proceeded(r)' <=> Proceeded(r)
    BY DEF handler, Proceeded
  <2>3. kept \in Logins \cup {None} /\ \A r \in Requests : Proceeded(r) => callback[r].login \in Ops
    BY DEF TypeOK, HandlerTypeOK, CallbacksFit, Proceeded
  <2> QED
    BY <2>1, <2>2, <2>3 DEF CallbacksFit, TakenOnce
<1>5. PageFits'
  BY <1>1 DEF PageFits, BusyWhileNewestRuns, ViewWasTrue, Mounted, Running, Busy
<1>6. WindowFits'
  <2>1. WindowIsAttended'
    BY <1>1 DEF WindowIsAttended, Running
  <2>2. OwnWindows'
    <3>1. \A i \in Ops : op[i].win \in Ops \cup {None} /\ ~(op[i].win > operation)
      BY DEF TypeOK, Operation, OpsFit
    <3> QED
      BY <1>0, <1>1, <3>1 DEF OwnWindows
  <2> QED
    BY <2>1, <2>2 DEF WindowFits
<1> QED
  BY <1>2, <1>3, <1>4, <1>5, <1>6

(* The server answers the request of operation i.                          *)
LEMMA ServeKeeps ==
  ASSUME IInv, TypeOK', NEW i \in Ops, op[i].pc \in {"fetch", "poll"},
         NEW ok \in BOOLEAN, NEW got \in Logins \cup {None},
         op'[i].pc = IF op[i].pc = "fetch" THEN "reply" ELSE "polled",
         op'[i].ok = ok, op'[i].got = got, op'[i].kind = op[i].kind, op'[i].win = op[i].win,
         \A j \in Ops \ {i} : op'[j] = op[j],
         UNCHANGED <<operation, popup, window, view, custody, callback>>,
         seen \subseteq seen', row' \in seen',
         kept' = kept \/ (kept' = i /\ op[i].pc = "fetch"),
         ok /\ AsksSession(i) => got \in seen,
         ok /\ op[i].pc = "fetch" /\ op[i].kind = "logout" => None \in seen'
  PROVE  IInv'
<1> USE OpsTyped DEF IInv
<1>1. ~(i > operation) /\ op[i].kind # "unmount"
  <2>1. OpAt("none", "idle", None).pc = "idle"
    BY DEF OpAt
  <2> QED
    BY <2>1 DEF OpsFit
<1>2. OpsFit'
  BY <1>1 DEF OpsFit
<1>3. AnswersFit'
  <2>1. operation \in Ops
    BY DEF TypeOK
  <2>2. AnswerOf(op[operation])'
    <3>1. CASE i = operation
      BY <3>1 DEF AnswerOf, AsksSession
    <3>2. CASE i # operation
      BY <2>1, <3>2 DEF AnswersFit, AnswerOf
    <3> QED
      BY <3>1, <3>2
  <2> QED
    BY <2>2 DEF AnswersFit
<1>4. CallbacksFit' /\ TakenOnce'
  <2>1. \A l \in Ops : Begun(l) => Begun(l)'
    BY DEF Begun
  <2>2. \A r \in Requests : Proceeded(r)' <=> Proceeded(r)
    BY DEF Proceeded
  <2>3. kept \in Logins \cup {None} /\ \A r \in Requests : Proceeded(r) => callback[r].login \in Ops
    BY DEF TypeOK, HandlerTypeOK, CallbacksFit, Proceeded
  <2>4. Begun(i)' /\ (op[i].pc = "fetch" => ~Begun(i))
    BY DEF Begun
  <2> QED
    BY <2>1, <2>2, <2>3, <2>4 DEF CallbacksFit, TakenOnce
<1>5. \A j \in Ops : Running(j)' <=> Running(j)
  BY DEF Running
<1>6. operation \in Ops /\ op'[operation].kind = op[operation].kind /\ op'[operation].win = op[operation].win
      /\ \A j \in Ops : op'[j].win = op[j].win
  BY DEF TypeOK
<1>7. PageFits'
  BY <1>5, <1>6 DEF PageFits, BusyWhileNewestRuns, ViewWasTrue, Mounted
<1>8. WindowFits'
  BY <1>5, <1>6 DEF WindowFits, WindowIsAttended, OwnWindows
<1> QED
  BY <1>2, <1>3, <1>4, <1>7, <1>8

(* An answer arrives at operation i, or its pause is over.                 *)
LEMMA ArriveKeeps ==
  ASSUME IInv, TypeOK', NEW i \in Ops, op[i].pc \in {"reply", "polled", "pause"},
         op'[i].kind = op[i].kind, op'[i].pc \in {"done", "poll", "pause"},
         op'[i].win = op[i].win \/ op'[i].win = None,
         \A j \in Ops \ {i} : op'[j] = op[j],
         UNCHANGED <<operation, seen, custody, row, spent, callback>>,
         custody = "store" => kept' = kept,
         i # operation => view' = view,
         i = operation /\ op'[i].pc # "done" => view' = view /\ op'[i].win = op[i].win,
         i = operation /\ op'[i].pc = "done" =>
           /\ window'.id = None
           /\ view'.status \notin Busy
           /\ view'.status = "connected" => view'.session # None /\ view'.session \in seen
           /\ view'.status = "signed-out" => None \in seen,
         window'.id = window.id \/ window'.id = None,
         window'.id # None => popup' = window.id
  PROVE  IInv'
<1> USE OpsTyped DEF IInv
<1>1. ~(i > operation) /\ op[i].kind # "unmount" /\ ~(None > operation)
  <2>1. OpAt("none", "idle", None).pc = "idle"
    BY DEF OpAt
  <2>2. operation \in Nat
    BY DEF TypeOK
  <2> QED
    BY <2>1, <2>2 DEF OpsFit, None
<1>2. operation \in Ops /\ op'[operation].kind = op[operation].kind
  BY DEF TypeOK
<1>3. OpsFit'
  <2>1. \A j \in Ops : op'[j].win = op[j].win \/ op'[j].win = None
    OBVIOUS
  <2>2. ~(window'.id > operation')
    BY <1>1 DEF OpsFit
  <2>3. \A j \in Ops : ~(op'[j].win > operation')
    BY <1>1, <2>1 DEF OpsFit
  <2> QED
    BY <1>1, <2>1, <2>2, <2>3 DEF OpsFit
<1>4. AnswersFit'
  BY <1>2 DEF AnswersFit, AnswerOf
<1>5. CallbacksFit' /\ TakenOnce'
  <2>1. \A l \in Ops : Begun(l) => Begun(l)'
    BY DEF Begun
  <2>2. \A r \in Requests : Proceeded(r)' <=> Proceeded(r)
    BY DEF Proceeded
  <2>3. kept \in Logins \cup {None} /\ \A r \in Requests : Proceeded(r) => callback[r].login \in Ops
    BY DEF TypeOK, HandlerTypeOK, CallbacksFit, Proceeded
  <2> QED
    BY <2>1, <2>2, <2>3 DEF CallbacksFit, TakenOnce
<1>6. PageFits'
  BY <1>2 DEF PageFits, BusyWhileNewestRuns, ViewWasTrue, Mounted, Running
<1>7. WindowFits'
  <2>1. WindowIsAttended'
    BY <1>2 DEF WindowFits, WindowIsAttended, Running
  <2>2. OwnWindows'
    BY <1>2 DEF WindowFits, OwnWindows
  <2> QED
    BY <2>1, <2>2 DEF WindowFits
<1> QED
  BY <1>3, <1>4, <1>5, <1>6, <1>7

(* A callback takes a step at the server.                                  *)
LEMMA CallbackKeeps ==
  ASSUME IInv, TypeOK', NEW r \in Requests, Callback(r)
  PROVE  IInv'
<1> USE OpsTyped DEF IInv
<1>1. UNCHANGED <<operation, op, popup, window, view>> /\ seen' = seen \cup {row'}
  BY DEF Callback
<1>2. OpsFit' /\ WindowFits'
  BY <1>1 DEF OpsFit, WindowFits, WindowIsAttended, OwnWindows, Running
<1>3. AnswersFit' /\ PageFits'
  BY <1>1 DEF AnswersFit, AnswerOf, PageFits, BusyWhileNewestRuns, ViewWasTrue, Mounted, Running
<1>4. \A l \in Ops : Begun(l)' <=> Begun(l)
  BY <1>1 DEF Begun
<1>5. /\ callback'[r].login = callback[r].login /\ callback[r].at # "unsent"
      /\ \A q \in Requests \ {r} : callback'[q] = callback[q]
      /\ custody' = custody
  BY DEF TypeOK, HandlerTypeOK, CallbackType, Callback, CallbackStep, TakePending, CookieExpired,
         CompleteLogin, RejectLogin, AnswerCallback, Reaches, Answers
<1>6. callback[r].login \in Ops /\ callback'[r].at # "unsent"
  BY <1>5 DEF TypeOK, HandlerTypeOK, CallbackType, CallbacksFit, Callback, CallbackStep, TakePending, CookieExpired,
         CompleteLogin, RejectLogin, AnswerCallback, Reaches, Answers
<1>7. ASSUME custody = "store"
      PROVE  \/ kept' = kept /\ (Proceeded(r)' => Proceeded(r))
             \/ kept' = None /\ (Proceeded(r)' => Proceeded(r) \/ kept = callback[r].login)
  <2> USE <1>7 DEF TypeOK, HandlerTypeOK, CallbackType, Proceeded, Reaches
  <2>1. CASE TakePending(r)
    BY <2>1 DEF TakePending, Taken
  <2>2. CASE CookieExpired(r)
    BY <2>2 DEF CookieExpired
  <2>3. CASE CompleteLogin(r)
    BY <2>3 DEF CompleteLogin
  <2>4. CASE RejectLogin(r)
    BY <2>4 DEF RejectLogin
  <2>5. CASE AnswerCallback(r)
    BY <2>5 DEF AnswerCallback, Answers
  <2> QED
    BY <2>1, <2>2, <2>3, <2>4, <2>5 DEF Callback, CallbackStep
<1>8. CallbacksFit' /\ TakenOnce'
  <2>1. \A q \in Requests : callback'[q].login = callback[q].login /\ (q # r => (Proceeded(q)' <=> Proceeded(q)))
    BY <1>5 DEF Proceeded
  <2>2. \A q \in Requests : callback'[q].at # "unsent" => callback'[q].login \in Logins
    BY <1>5, <1>6 DEF CallbacksFit
  <2>3. ASSUME custody = "store"
        PROVE  /\ (kept # None => Begun(kept))' /\ \A q \in Requests : Proceeded(q)' => callback'[q].login # kept'
               /\ \A q \in Requests : Proceeded(q)' => Begun(callback[q].login)'
               /\ \A p, q \in Requests : Proceeded(p)' /\ Proceeded(q)' /\ p # q => callback'[p].login # callback'[q].login
    <3>1. kept \in Logins \cup {None} /\ \A q \in Requests : Proceeded(q) => callback[q].login \in Ops
      BY DEF TypeOK, HandlerTypeOK, CallbacksFit, Proceeded
    <3>2. /\ kept # None => Begun(kept) /\ \A q \in Requests : Proceeded(q) => callback[q].login # kept
          /\ \A q \in Requests : Proceeded(q) => Begun(callback[q].login)
          /\ \A p, q \in Requests : Proceeded(p) /\ Proceeded(q) /\ p # q => callback[p].login # callback[q].login
      BY <2>3 DEF CallbacksFit, TakenOnce
    <3>3. callback[r].login # None
      BY <1>6
    <3>4. CASE kept' = kept /\ (Proceeded(r)' => Proceeded(r))
      BY <1>4, <2>1, <3>1, <3>2, <3>4
    <3>5. CASE kept' = None /\ (Proceeded(r)' => Proceeded(r) \/ kept = callback[r].login)
      BY <1>4, <1>6, <2>1, <3>1, <3>2, <3>3, <3>5
    <3> QED
      BY <1>7, <2>3, <3>4, <3>5
  <2> QED
    BY <1>5, <2>2, <2>3 DEF CallbacksFit, TakenOnce
<1> QED
  BY <1>2, <1>3, <1>8

(* The user approves, or closes the window.                                *)
LEMMA UserKeeps ==
  ASSUME IInv, TypeOK', Approve \/ CloseWindow
  PROVE  IInv'
<1> USE OpsTyped DEF IInv
<1>1. CASE Approve
  <2>1. PICK r \in Requests : callback[r].at = "unsent" /\ callback' = [callback EXCEPT ![r] =
          [login |-> window.shows, at |-> "sent", cookie |-> IF custody = "cookie" THEN kept ELSE None]]
    BY <1>1 DEF Approve, SendCallback
  <2>2. UNCHANGED <<custody, kept, row, spent, operation, op, popup, window, view, seen>>
    BY <1>1 DEF Approve, hook
  <2>3. window.shows \in Logins
    BY <1>1 DEF Approve, TypeOK
  <2>4. /\ \A q \in Requests \ {r} : callback'[q] = callback[q]
        /\ callback'[r].login = window.shows /\ callback'[r].at = "sent"
    BY <2>1 DEF TypeOK, HandlerTypeOK
  <2>5. \A q \in Requests : (Proceeded(q)' <=> Proceeded(q)) /\ (Proceeded(q) => callback'[q] = callback[q])
    BY <2>1, <2>4 DEF Proceeded
  <2>6. \A l \in Ops : Begun(l)' <=> Begun(l)
    BY <2>2 DEF Begun
  <2>7. kept \in Logins \cup {None} /\ \A q \in Requests : Proceeded(q) => callback[q].login \in Ops
    BY DEF TypeOK, HandlerTypeOK, CallbacksFit, Proceeded
  <2>8. CallbacksFit' /\ TakenOnce'
    BY <2>2, <2>3, <2>4, <2>5, <2>6, <2>7 DEF CallbacksFit, TakenOnce
  <2>9. OpsFit' /\ WindowFits'
    BY <2>2 DEF OpsFit, WindowFits, WindowIsAttended, OwnWindows, Running
  <2>10. AnswersFit' /\ PageFits'
    BY <2>2 DEF AnswersFit, AnswerOf, PageFits, BusyWhileNewestRuns, ViewWasTrue, Mounted, Running
  <2> QED
    BY <2>8, <2>9, <2>10
<1>2. CASE CloseWindow
  <2>1. UNCHANGED <<handler, operation, op, popup, view, seen>> /\ window'.id = None
    BY <1>2 DEF CloseWindow, NoWindow
  <2>2. ~(None > operation) /\ \A i \in Ops : ~(i > operation) \/ i > operation
    BY DEF TypeOK, None
  <2>3. OpsFit' /\ WindowFits'
    BY <2>1, <2>2 DEF OpsFit, WindowFits, WindowIsAttended, OwnWindows, Running
  <2>4. AnswersFit' /\ PageFits'
    BY <2>1 DEF AnswersFit, AnswerOf, PageFits, BusyWhileNewestRuns, ViewWasTrue, Mounted, Running, handler
  <2>5. CallbacksFit' /\ TakenOnce'
    BY <2>1 DEF CallbacksFit, TakenOnce, Proceeded, Begun, handler
  <2> QED
    BY <2>3, <2>4, <2>5
<1> QED
  BY <1>1, <1>2

(***************************************************************************)
(* Every action keeps the types.                                           *)
(***************************************************************************)

ViewType == [status: Busy \cup {"signed-out", "connected", "error"}, session: Logins \cup {None}]
WindowType == [id: Ops \cup {None}, shows: Logins \cup {None}]

LEMMA Typed ==
  TypeOK <=>
    /\ HandlerTypeOK
    /\ operation \in Ops /\ op \in [Ops -> Operation] /\ popup \in Ops \cup {None}
    /\ window \in WindowType /\ view \in ViewType /\ seen \subseteq Logins \cup {None}
BY DEF TypeOK, WindowType, ViewType

LEMMA ClosedTyped == ASSUME TypeOK, NEW w PROVE Closed(w) \in WindowType
BY OpsTyped DEF TypeOK, Closed, NoWindow, WindowType

LEMMA GoesTyped ==
  ASSUME TypeOK, NEW i \in Ops, NEW pc \in {"poll", "pause", "done"}, Goes(i, pc)
  PROVE  /\ op' \in [Ops -> Operation]
         /\ op'[i].kind = op[i].kind /\ op'[i].pc = pc
         /\ op'[i].win = IF pc = "done" THEN None ELSE op[i].win
         /\ \A j \in Ops \ {i} : op'[j] = op[j]
<1>1. op \in [Ops -> Operation] /\ op[i] \in Operation /\ op[i].kind \in Kinds
  BY DEF TypeOK, Operation
<1>2. CASE pc = "done"
  <2>1. op' = [op EXCEPT ![i] = OpAt(op[i].kind, pc, None)]
    BY <1>1, <1>2 DEF Goes, TypeOK
  <2>2. OpAt(op[i].kind, "done", None) \in Operation
    BY <1>1, OpAtTyped
  <2> QED
    BY <1>1, <1>2, <2>1, <2>2 DEF OpAt
<1>3. CASE pc # "done"
  <2>1. op' = [op EXCEPT ![i] = [op[i] EXCEPT !.pc = pc, !.ok = FALSE, !.got = None]]
    BY <1>1, <1>3 DEF Goes
  <2>2. [op[i] EXCEPT !.pc = pc, !.ok = FALSE, !.got = None] \in Operation
    BY <1>1, <1>3 DEF Operation
  <2>3. /\ [op[i] EXCEPT !.pc = pc, !.ok = FALSE, !.got = None].kind = op[i].kind
        /\ [op[i] EXCEPT !.pc = pc, !.ok = FALSE, !.got = None].pc = pc
        /\ [op[i] EXCEPT !.pc = pc, !.ok = FALSE, !.got = None].win = op[i].win
    BY <1>1 DEF Operation
  <2> QED
    BY <1>1, <1>3, <2>1, <2>2, <2>3
<1> QED
  BY <1>2, <1>3

LEMMA AnsweredTyped ==
  ASSUME TypeOK, NEW i \in Ops, NEW ok \in BOOLEAN, NEW got \in Logins \cup {None}, Answered(i, ok, got)
  PROVE  /\ op' \in [Ops -> Operation]
         /\ op'[i].pc = IF op[i].pc = "fetch" THEN "reply" ELSE "polled"
         /\ op'[i].ok = ok /\ op'[i].got = got /\ op'[i].kind = op[i].kind /\ op'[i].win = op[i].win
         /\ \A j \in Ops \ {i} : op'[j] = op[j]
<1>1. op \in [Ops -> Operation] /\ op[i] \in Operation
  BY DEF TypeOK
<1> DEFINE o == [op[i] EXCEPT !.pc = IF op[i].pc = "fetch" THEN "reply" ELSE "polled", !.ok = ok, !.got = got]
<1>2. op' = [op EXCEPT ![i] = o]
  BY <1>1 DEF Answered
<1>3. o \in Operation /\ o.pc = (IF op[i].pc = "fetch" THEN "reply" ELSE "polled") /\ o.ok = ok /\ o.got = got
      /\ o.kind = op[i].kind /\ o.win = op[i].win
  BY <1>1 DEF Operation
<1> QED
  BY <1>1, <1>2, <1>3

LEMMA SettlesTyped ==
  ASSUME TypeOK, NEW i, NEW s \in Busy \cup {"signed-out", "connected", "error"}, NEW x \in Logins \cup {None},
         Settles(i, s, x) \/ Shows(s, x)
  PROVE  view' \in ViewType
BY Typed DEF Settles, Shows, ViewType

LEMMA ThrowsKeeps ==
  ASSUME TypeOK, NEW i \in Ops, LoginThrows(i)
  PROVE  /\ window' = Closed(op[i].win) /\ window' \in WindowType
         /\ popup' = (IF popup = op[i].win THEN None ELSE popup) /\ popup' \in Ops \cup {None}
         /\ view' = (IF Newest(i) THEN [status |-> "error", session |-> None] ELSE view) /\ view' \in ViewType
         /\ op' \in [Ops -> Operation] /\ op'[i].kind = op[i].kind /\ op'[i].pc = "done" /\ op'[i].win = None
         /\ \A j \in Ops \ {i} : op'[j] = op[j]
<1>1. Settles(i, "error", None) /\ Goes(i, "done")
  BY DEF LoginThrows
<1>2. view' \in ViewType
  BY <1>1, SettlesTyped
<1>3. view' = IF Newest(i) THEN [status |-> "error", session |-> None] ELSE view
  BY <1>1 DEF Settles, Shows
<1> QED
  BY <1>1, <1>2, <1>3, GoesTyped, ClosedTyped, Typed DEF LoginThrows

(***************************************************************************)
(* The actions of the page.                                                *)
(***************************************************************************)

LEMMA NoWindowUnlessRunning ==
  ASSUME IInv, Mounted, view.status \notin Busy
  PROVE  window.id = None
BY DEF IInv, PageFits, BusyWhileNewestRuns, WindowFits, WindowIsAttended

(* A refresh, a sign-out and the page's end close the window.              *)
LEMMA DroppedWindow ==
  ASSUME IInv, DropPopup
  PROVE  window'.id = None /\ window' \in WindowType /\ popup' = None
BY ClosedTyped DEF IInv, DropPopup, Closed, NoWindow, WindowFits, WindowIsAttended

(* A new operation's number and the types it leaves.                       *)
LEMMA BegunTyped ==
  ASSUME TypeOK, operation < MaxLogins, NEW k \in Kinds, NEW p \in {"idle", "fetch", "done"}, NEW w \in Ops \cup {None},
         operation' = operation + 1, op' = [op EXCEPT ![operation + 1] = OpAt(k, p, w)], seen' = {row}
  PROVE  /\ operation + 1 \in Ops /\ operation' \in Ops
         /\ op' \in [Ops -> Operation] /\ seen' \subseteq Logins \cup {None}
         /\ ~(None > operation + 1)
<1>1. operation + 1 \in Ops
  BY OpsTyped, CountsAssumption DEF TypeOK, Ops, Logins
<1>2. OpAt(k, p, w) \in Operation
  BY OpAtTyped
<1> QED
  BY <1>1, <1>2, OpsTyped DEF TypeOK, HandlerTypeOK, None

LEMMA DropsAndBegins ==
  ASSUME IInv, NEW k \in Kinds \ {"none", "login"}, Begin(k), DropPopup, UNCHANGED handler,
         view' \in ViewType, k # "unmount" => view'.status = "loading"
  PROVE  IInv'
<1> DEFINE n == operation + 1
           p == IF k = "unmount" THEN "done" ELSE "fetch"
<1>1. operation < MaxLogins /\ operation' = n /\ op' = [op EXCEPT ![n] = OpAt(k, p, None)] /\ seen' = {row} /\ Mounted
  BY DEF Begin
<1>2. TypeOK
  BY DEF IInv
<1>3. n \in Ops /\ operation' \in Ops /\ op' \in [Ops -> Operation] /\ seen' \subseteq Logins \cup {None} /\ ~(None > n)
  BY <1>1, <1>2, BegunTyped
<1>4. window'.id = None /\ window' \in WindowType /\ popup' = None
  BY DroppedWindow
<1>5. TypeOK'
  <2>1. HandlerTypeOK'
    BY <1>2 DEF TypeOK, HandlerTypeOK, handler
  <2> QED
    BY <1>3, <1>4, <2>1 DEF TypeOK, WindowType, ViewType
<1>6. k # "unmount" => (view'.status \in Busy <=> p = "fetch")
  BY DEF Busy
<1>7. p \in {"fetch", "done"} /\ (k = "unmount" => p = "done") /\ (p = "done" => k = "unmount") /\ k \in Kinds \ {"none"} /\ k # "login"
  OBVIOUS
<1>8. None \in Ops \cup {None}
  OBVIOUS
<1> HIDE DEF n, p
<1>9. n = operation + 1
  BY DEF n
<1> QED
  BY <1>1, <1>3, <1>4, <1>5, <1>6, <1>7, <1>8, <1>9, BeginKeeps

LEMMA PageKeeps ==
  ASSUME IInv, Refresh \/ Unmount \/ SignIn \/ SignInBlocked \/ SignOut
  PROVE  IInv'
<1>1. TypeOK /\ view.session \in Logins \cup {None}
  BY DEF IInv, TypeOK
<1>2. CASE Refresh
  <2>1. view' \in ViewType /\ view'.status = "loading"
    BY <1>1, <1>2 DEF Refresh, Shows, ViewType, Busy
  <2> QED
    BY <1>2, <2>1, DropsAndBegins DEF Refresh, Kinds
<1>3. CASE SignOut
  <2>1. view' \in ViewType /\ view'.status = "loading"
    BY <1>1, <1>3 DEF SignOut, Shows, ViewType, Busy
  <2> QED
    BY <1>3, <2>1, DropsAndBegins DEF SignOut, Kinds
<1>4. CASE Unmount
  <2>1. view' \in ViewType
    BY <1>1, <1>4, Typed DEF Unmount
  <2> QED
    BY <1>4, <2>1, DropsAndBegins DEF Unmount, Kinds
<1>5. ASSUME UNCHANGED handler PROVE HandlerTypeOK'
  BY <1>1, <1>5 DEF TypeOK, HandlerTypeOK, handler
<1>6. "login" \in Kinds \ {"none"} /\ "fetch" \in {"idle", "fetch", "done"} /\ "done" \in {"idle", "fetch", "done"}
      /\ "fetch" \in {"fetch", "done"} /\ "done" \in {"fetch", "done"} /\ None \in Ops \cup {None} /\ "login" # "unmount"
  BY DEF Kinds
<1>7. CASE SignIn
  <2>1. PICK n : n = operation + 1
    OBVIOUS
  <2>2. PICK w : w = IF window.id = None THEN n ELSE window.id
    OBVIOUS
  <2>3. /\ operation < MaxLogins /\ operation' = n /\ op' = [op EXCEPT ![n] = OpAt("login", "fetch", w)]
        /\ seen' = {row} /\ Mounted /\ popup' = w /\ window' = [window EXCEPT !.id = w] /\ UNCHANGED handler
        /\ view' = [status |-> "connecting", session |-> None] /\ MaySignIn
    BY <1>7, <2>1, <2>2 DEF SignIn, Shows
  <2>4. n \in Ops /\ window.id \in Ops \cup {None}
    BY <1>1, <2>1, <2>3, OpsTyped, CountsAssumption DEF TypeOK, Ops, Logins
  <2>5. w \in Ops
    BY <2>2, <2>4
  <2>6. n \in Ops /\ operation' \in Ops /\ op' \in [Ops -> Operation] /\ seen' \subseteq Logins \cup {None} /\ ~(None > n)
    BY <1>1, <1>6, <2>1, <2>3, <2>5, BegunTyped
  <2>7. window' \in WindowType /\ window'.id = w
    BY <1>1, <2>3, <2>5 DEF TypeOK, WindowType
  <2>8. TypeOK'
    BY <1>5, <2>3, <2>5, <2>6, <2>7 DEF TypeOK, WindowType, Busy
  <2>9. ~(w > n)
    BY <1>1, <2>1, <2>2, <2>4, OpsTyped DEF IInv, OpsFit, TypeOK, None
  <2>10. Buttons => w = n
    <3>1. Buttons => view.status \notin Busy
      BY <2>3 DEF MaySignIn, Busy
    <3> QED
      BY <2>2, <2>3, <3>1, NoWindowUnlessRunning
  <2>11. view'.status \in Busy
    BY <2>3 DEF Busy
  <2>12. w \in Ops \cup {None} /\ ("login" = "unmount" => "fetch" = "done") /\ ("login" # "login" => w = None)
         /\ (view'.status \in Busy <=> "fetch" = "fetch") /\ ("fetch" = "done" => FALSE)
    BY <2>5, <2>11
  <2> QED
    BY <1>6, <2>1, <2>3, <2>4, <2>7, <2>8, <2>9, <2>10, <2>12, BeginKeeps
<1>8. CASE SignInBlocked
  <2>1. PICK n : n = operation + 1
    OBVIOUS
  <2>2. /\ operation < MaxLogins /\ operation' = n /\ op' = [op EXCEPT ![n] = OpAt("login", "done", None)]
        /\ seen' = {row} /\ Mounted /\ popup' = None /\ window' = window /\ window.id = None /\ UNCHANGED handler
        /\ view' = [status |-> "error", session |-> None]
    BY <1>8, <2>1 DEF SignInBlocked, Shows
  <2>3. n \in Ops /\ operation' \in Ops /\ op' \in [Ops -> Operation] /\ seen' \subseteq Logins \cup {None} /\ ~(None > n)
    BY <1>1, <1>6, <2>1, <2>2, BegunTyped
  <2>4. TypeOK'
    BY <1>1, <1>5, <2>2, <2>3 DEF TypeOK, Busy
  <2>5. view'.status = "error" /\ view'.status \notin Busy
    BY <2>2 DEF Busy
  <2> QED
    BY <1>6, <2>1, <2>2, <2>3, <2>4, <2>5, BeginKeeps
<1> QED
  BY <1>2, <1>3, <1>4, <1>7, <1>8

(***************************************************************************)
(* The actions of the server and the answers.                              *)
(***************************************************************************)

LEMMA ServerActs ==
  ASSUME IInv, NEW i \in Ops, Serve(i)
  PROVE  IInv'
<1>1. TypeOK /\ op \in [Ops -> Operation] /\ row \in Logins \cup {None} /\ None \in Logins \cup {None}
      /\ TRUE \in BOOLEAN /\ FALSE \in BOOLEAN
  BY DEF IInv, TypeOK, HandlerTypeOK
<1>2. row \in seen
  BY DEF IInv, AnswersFit
<1>3. CASE ServeSession(i)
  <2>1. /\ Answered(i, TRUE, row) /\ AsksSession(i)
        /\ UNCHANGED <<handler, seen, operation, popup, window, view>>
    BY <1>3 DEF ServeSession, AtServer
  <2>2. TypeOK'
    BY <1>1, <2>1, AnsweredTyped DEF TypeOK, HandlerTypeOK, handler
  <2>3. op[i].pc \in {"fetch", "poll"} /\ (op[i].pc = "fetch" => op[i].kind # "logout")
    BY <2>1 DEF AsksSession
  <2> QED
    BY <1>1, <1>2, <2>1, <2>2, <2>3, AnsweredTyped, ServeKeeps DEF handler
<1>4. CASE ServeLogin(i)
  <2>1. PICK ok \in BOOLEAN : Answered(i, ok, None)
    BY <1>4 DEF ServeLogin
  <2>2. /\ op[i].pc = "fetch" /\ op[i].kind = "login"
        /\ UNCHANGED <<custody, row, spent, callback, seen, operation, popup, window, view>>
        /\ kept' = kept \/ kept' = i
    BY <1>4 DEF ServeLogin, AtServer, SaveLogin
  <2>3. TypeOK'
    <3>1. op' \in [Ops -> Operation]
      BY <1>1, <2>1, AnsweredTyped
    <3>2. kept' \in Logins \cup {None}
      BY <2>2 DEF TypeOK, HandlerTypeOK, IInv, Ops
    <3> QED
      BY <1>1, <2>2, <3>1, <3>2 DEF TypeOK, HandlerTypeOK
  <2>4. ~AsksSession(i)
    BY <2>2 DEF AsksSession
  <2> QED
    BY <1>1, <1>2, <2>1, <2>2, <2>3, <2>4, AnsweredTyped, ServeKeeps
<1>5. CASE ServeLogout(i)
  <2>1. PICK ok \in BOOLEAN : Answered(i, ok, None)
    BY <1>5 DEF ServeLogout
  <2>2. /\ op[i].pc = "fetch" /\ op[i].kind = "logout" /\ row' = None /\ seen' = seen \cup {None}
        /\ UNCHANGED <<custody, kept, spent, callback, operation, popup, window, view>>
    BY <1>5 DEF ServeLogout, AtServer, Logout
  <2>3. TypeOK'
    BY <1>1, <2>1, <2>2, AnsweredTyped DEF TypeOK, HandlerTypeOK
  <2>4. ~AsksSession(i)
    BY <2>2 DEF AsksSession
  <2> QED
    BY <1>1, <1>2, <2>1, <2>2, <2>3, <2>4, AnsweredTyped, ServeKeeps
<1>6. CASE ServeFails(i)
  <2>1. /\ Answered(i, FALSE, None) /\ op[i].pc \in {"fetch", "poll"}
        /\ UNCHANGED <<handler, seen, operation, popup, window, view>>
    BY <1>6 DEF ServeFails, AtServer
  <2>2. TypeOK'
    BY <1>1, <2>1, AnsweredTyped DEF TypeOK, HandlerTypeOK, handler
  <2> QED
    BY <1>1, <1>2, <2>1, <2>2, AnsweredTyped, ServeKeeps DEF handler
<1> QED
  BY <1>3, <1>4, <1>5, <1>6 DEF Serve

(* A window that its login closes is gone; another one stays as it is.     *)
LEMMA ClosedWindow ==
  ASSUME IInv, NEW w, window' = Closed(w)
  PROVE  /\ window'.id = window.id \/ window'.id = None
         /\ window'.id # None => window.id # w
         /\ window.id # None => popup = window.id
         /\ w = op[operation].win => window'.id = None
BY DEF IInv, Closed, NoWindow, WindowFits, WindowIsAttended

(* A refresh and a sign-out have no window when they are the newest.       *)
LEMMA OnlyLoginsHaveWindows ==
  ASSUME IInv, op[operation].kind # "login"
  PROVE  window.id = None
BY DEF IInv, OpsFit, TypeOK, WindowFits, WindowIsAttended

LEMMA ThrowArrives ==
  ASSUME IInv, NEW i \in Ops, op[i].pc \in {"reply", "polled", "pause"}, LoginThrows(i),
         UNCHANGED <<handler, operation, seen>>
  PROVE  IInv'
<1>1. TypeOK
  BY DEF IInv
<1>2. TypeOK'
  BY <1>1, ThrowsKeeps, Typed DEF TypeOK, HandlerTypeOK, handler, WindowType, ViewType
<1>3. /\ window' = Closed(op[i].win)
      /\ popup' = IF popup = op[i].win THEN None ELSE popup
      /\ view' = IF Newest(i) THEN [status |-> "error", session |-> None] ELSE view
      /\ op'[i].kind = op[i].kind /\ op'[i].pc = "done" /\ op'[i].win = None
      /\ \A j \in Ops \ {i} : op'[j] = op[j]
  BY <1>1, ThrowsKeeps
<1>4. /\ window'.id = window.id \/ window'.id = None
      /\ window'.id # None => popup' = window.id
      /\ i = operation => window'.id = None
  BY <1>3, ClosedWindow
<1>5. (i # operation => view' = view) /\ (i = operation => view'.status = "error") /\ "error" \notin Busy
  BY <1>3 DEF Newest, Busy
<1> QED
  BY <1>2, <1>3, <1>4, <1>5, ArriveKeeps DEF handler

LEMMA AnswerArrives ==
  ASSUME IInv, NEW i \in Ops, RefreshArrives(i) \/ LogoutArrives(i)
  PROVE  IInv'
<1>1. /\ TypeOK /\ op[i].ok \in BOOLEAN /\ op[i].got \in Logins \cup {None} /\ view.session \in Logins \cup {None}
      /\ None \in Logins \cup {None} /\ i # None
  BY OpsTyped DEF IInv, TypeOK, Operation
<1>2. /\ op[i].pc = "reply" /\ op[i].kind \in {"refresh", "logout"} /\ Goes(i, "done")
      /\ UNCHANGED <<handler, operation, popup, window, seen>>
  BY DEF RefreshArrives, LogoutArrives
<1>3. PICK s \in {"signed-out", "connected", "error"}, x \in Logins \cup {None} :
        /\ Settles(i, s, x)
        /\ s = "connected" => op[i].kind = "refresh" /\ op[i].ok /\ x = op[i].got /\ x # None
        /\ s = "signed-out" => op[i].ok /\ (op[i].kind = "refresh" => op[i].got = None)
  <2>1. CASE RefreshArrives(i)
    <3>1. CASE op[i].ok /\ op[i].got # None
      BY <1>1, <2>1, <3>1 DEF RefreshArrives, Status
    <3>2. CASE op[i].ok /\ op[i].got = None
      BY <1>1, <2>1, <3>2 DEF RefreshArrives, Status
    <3>3. CASE ~op[i].ok
      BY <1>1, <2>1, <3>3 DEF RefreshArrives, Status
    <3> QED
      BY <3>1, <3>2, <3>3
  <2>2. CASE LogoutArrives(i)
    BY <1>1, <2>2 DEF LogoutArrives
  <2> QED
    BY <2>1, <2>2
<1>4. view' \in ViewType
  BY <1>1, <1>3, SettlesTyped
<1>5. TypeOK'
  BY <1>1, <1>2, <1>4, GoesTyped, Typed DEF TypeOK, HandlerTypeOK, handler, WindowType, ViewType
<1>6. /\ op'[i].kind = op[i].kind /\ op'[i].pc = "done" /\ op'[i].win = None
      /\ \A j \in Ops \ {i} : op'[j] = op[j]
  BY <1>1, <1>2, GoesTyped
<1>7. i = operation => window'.id = None
  BY <1>2, OnlyLoginsHaveWindows
<1>8. window'.id # None => popup' = window.id
  BY <1>2 DEF IInv, WindowFits, WindowIsAttended
<1>9. i # operation => view' = view
  BY <1>3 DEF Settles, Newest
<1>10. ASSUME i = operation
       PROVE  /\ view'.status \notin Busy
              /\ view'.status = "connected" => view'.session # None /\ view'.session \in seen
              /\ view'.status = "signed-out" => None \in seen
  <2>1. view'.status = s /\ view'.session = x
    BY <1>3, <1>10 DEF Settles, Newest, Shows
  <2>2. AnswerOf(op[i])
    BY <1>10 DEF IInv, AnswersFit
  <2> QED
    BY <1>2, <1>3, <2>1, <2>2 DEF AnswerOf, Busy
<1> QED
  BY <1>2, <1>5, <1>6, <1>7, <1>8, <1>9, <1>10, ArriveKeeps DEF handler

LEMMA LoginGoesOn ==
  ASSUME IInv, NEW i \in Ops, LoginArrives(i)
  PROVE  IInv'
<1>1. TypeOK
  BY DEF IInv
<1>2. /\ op[i].pc = "reply" /\ UNCHANGED <<custody, row, spent, callback, operation, popup, view, seen>>
      /\ kept' = kept \/ (kept' = i /\ custody = "cookie")
  BY DEF LoginArrives, ReceiveLogin
<1>3. /\ op'[i].kind = op[i].kind /\ op'[i].pc \in {"done", "poll"}
      /\ op'[i].win = op[i].win \/ op'[i].win = None
      /\ i = operation => op'[i].pc = "poll" /\ op'[i].win = op[i].win
      /\ \A j \in Ops \ {i} : op'[j] = op[j]
      /\ op' \in [Ops -> Operation]
  <2>1. CASE Newest(i)
    <3>1. Goes(i, "poll")
      BY <2>1 DEF LoginArrives
    <3> QED
      BY <1>1, <3>1, GoesTyped
  <2>2. CASE ~Newest(i)
    <3>1. Goes(i, "done")
      BY <2>2 DEF LoginArrives
    <3> QED
      BY <1>1, <2>2, <3>1, GoesTyped DEF Newest
  <2> QED
    BY <2>1, <2>2
<1>4. /\ window' \in WindowType
      /\ window'.id = window.id \/ window'.id = None
  <2>1. CASE Newest(i)
    BY <1>1, <2>1, OpsTyped DEF LoginArrives, TypeOK, WindowType
  <2>2. CASE ~Newest(i)
    BY <1>1, <2>2, ClosedTyped, ClosedWindow DEF LoginArrives
  <2> QED
    BY <2>1, <2>2
<1>5. window'.id # None => popup' = window.id
  BY <1>2, <1>4 DEF IInv, WindowFits, WindowIsAttended
<1>6. TypeOK'
  BY <1>1, <1>2, <1>3, <1>4, OpsTyped DEF TypeOK, HandlerTypeOK, WindowType
<1>7. custody = "store" => kept' = kept
  BY <1>2
<1> QED
  BY <1>2, <1>3, <1>4, <1>5, <1>6, <1>7, ArriveKeeps

LEMMA PollArrives ==
  ASSUME IInv, NEW i \in Ops, PollConnects(i) \/ PollPauses(i) \/ PollStops(i) \/ PollAgain(i)
  PROVE  IInv'
<1>1. TypeOK /\ op \in [Ops -> Operation] /\ op[i] \in Operation /\ op[i].got \in Logins \cup {None}
  BY DEF IInv, TypeOK, Operation
<1>2. window.id # None => popup = window.id
  BY DEF IInv, WindowFits, WindowIsAttended
<1>3. CASE PollConnects(i)
  <2>1. /\ op[i].pc = "polled" /\ op[i].ok /\ i = operation /\ op[i].got # None
        /\ window' = Closed(op[i].win) /\ popup' = None /\ Shows("connected", op[i].got) /\ Goes(i, "done")
        /\ UNCHANGED <<handler, operation, seen>>
    BY <1>3 DEF PollConnects, Newest
  <2>2. window'.id = None /\ window' \in WindowType
    BY <1>1, <2>1, ClosedWindow, ClosedTyped
  <2>3. view' \in ViewType
    BY <1>1, <2>1, SettlesTyped
  <2>4. TypeOK'
    BY <1>1, <2>1, <2>2, <2>3, GoesTyped DEF TypeOK, HandlerTypeOK, handler, WindowType, ViewType
  <2>5. view'.status = "connected" /\ view'.session = op[i].got /\ "connected" \notin Busy
    BY <2>1 DEF Shows, Busy
  <2>6. op[i].got \in seen
    BY <2>1 DEF IInv, AnswersFit, AnswerOf
  <2>7. /\ op'[i].kind = op[i].kind /\ op'[i].pc = "done" /\ op'[i].win = None
        /\ \A j \in Ops \ {i} : op'[j] = op[j]
    BY <1>1, <2>1, GoesTyped
  <2> QED
    BY <2>1, <2>2, <2>4, <2>5, <2>6, <2>7, ArriveKeeps DEF handler
<1>4. CASE PollPauses(i) \/ PollStops(i)
  <2>1. PICK pc \in {"pause", "done"} : Goes(i, pc) /\ (pc = "done" => i # operation)
    BY <1>4 DEF PollPauses, PollStops, Newest
  <2>2. op[i].pc \in {"polled", "pause"} /\ UNCHANGED <<handler, operation, popup, window, view, seen>>
    BY <1>4 DEF PollPauses, PollStops
  <2>3. /\ op'[i].kind = op[i].kind /\ op'[i].pc = pc /\ op'[i].win = IF pc = "done" THEN None ELSE op[i].win
        /\ \A j \in Ops \ {i} : op'[j] = op[j]
        /\ op' \in [Ops -> Operation]
    BY <1>1, <2>1, GoesTyped
  <2>4. TypeOK'
    BY <1>1, <2>2, <2>3 DEF TypeOK, HandlerTypeOK, handler
  <2> QED
    BY <1>2, <2>1, <2>2, <2>3, <2>4, ArriveKeeps DEF handler
<1>5. CASE PollAgain(i)
  <2>1. /\ op[i].pc = "pause" /\ op[i].polls < MaxPolls /\ op[i].polls \in 0..MaxPolls
        /\ op' = [op EXCEPT ![i].pc = "poll", ![i].polls = @ + 1]
        /\ UNCHANGED <<handler, operation, popup, window, view, seen>>
    BY <1>1, <1>5 DEF PollAgain, Operation
  <2>2. op[i].polls + 1 \in 0..MaxPolls
    BY <2>1, HookAssumption
  <2>3. PICK o : o = [op[i] EXCEPT !.pc = "poll", !.polls = op[i].polls + 1]
    OBVIOUS
  <2>4. op' = [op EXCEPT ![i] = o]
    BY <1>1, <2>1, <2>3 DEF Operation
  <2>5. o \in Operation /\ o.kind = op[i].kind /\ o.pc = "poll" /\ o.win = op[i].win
    BY <1>1, <2>2, <2>3 DEF Operation
  <2>6. /\ op'[i] = o /\ \A j \in Ops \ {i} : op'[j] = op[j]
        /\ op' \in [Ops -> Operation]
    BY <1>1, <2>4, <2>5
  <2>7. TypeOK'
    BY <1>1, <2>1, <2>6 DEF TypeOK, HandlerTypeOK, handler
  <2> QED
    BY <1>2, <2>1, <2>5, <2>6, <2>7, ArriveKeeps DEF handler
<1> QED
  BY <1>3, <1>4, <1>5

(* The types of the callbacks' and the user's steps.                       *)
LEMMA OutsideTyped ==
  ASSUME IInv, (\E r \in Requests : Callback(r)) \/ Approve \/ CloseWindow
  PROVE  TypeOK'
<1> USE OpsTyped DEF IInv
<1>1. ASSUME NEW r \in Requests, Callback(r)
      PROVE  TypeOK'
  <2>1. callback \in [Requests -> CallbackType] /\ callback[r].login \in Logins \cup {None}
    BY DEF TypeOK, HandlerTypeOK, CallbackType
  <2>2. ASSUME NEW at \in {"taken", "over", "used"} \cup Answers, Reaches(r, at)
        PROVE  callback' \in [Requests -> CallbackType]
    <3>1. callback' = [callback EXCEPT ![r] = [callback[r] EXCEPT !.at = at, !.cookie = None]]
      BY <2>1, <2>2 DEF Reaches
    <3>2. [callback[r] EXCEPT !.at = at, !.cookie = None] \in CallbackType
      BY <2>1 DEF CallbackType
    <3> QED
      BY <2>1, <3>1, <3>2
  <2>3. callback' \in [Requests -> CallbackType]
    <3>1. PICK at \in {"taken", "over", "used"} \cup Answers : Reaches(r, at)
      BY <1>1 DEF Callback, CallbackStep, TakePending, CookieExpired, CompleteLogin, RejectLogin, AnswerCallback, Answers
    <3> QED
      BY <2>2, <3>1
  <2>4. /\ custody' = custody /\ kept' \in Logins \cup {None}
        /\ row' = row \/ (row' = callback[r].login /\ callback[r].at = "taken")
        /\ spent' = spent \/ spent' = spent \cup {callback[r].login}
        /\ callback[r].at = "taken" \/ spent' = spent
    BY <1>1 DEF TypeOK, HandlerTypeOK, Callback, CallbackStep, TakePending, CookieExpired, CompleteLogin, RejectLogin,
                AnswerCallback
  <2>5. callback[r].at = "taken" => callback[r].login \in Logins
    BY DEF CallbacksFit
  <2> QED
    BY <1>1, <2>1, <2>3, <2>4, <2>5 DEF TypeOK, HandlerTypeOK, Callback
<1>2. CASE Approve
  <2>1. HandlerTypeOK'
    BY <1>2 DEF TypeOK, HandlerTypeOK, CallbackType, Approve, SendCallback
  <2> QED
    BY <1>2, <2>1 DEF TypeOK, Approve, hook
<1>3. CASE CloseWindow
  BY <1>3 DEF TypeOK, HandlerTypeOK, CloseWindow, NoWindow, handler
<1> QED
  BY <1>1, <1>2, <1>3

(***************************************************************************)
(* The invariant holds in every state.                                     *)
(***************************************************************************)

LEMMA InitFits == Init => IInv
<1> SUFFICES ASSUME Init PROVE IInv
  OBVIOUS
<1> USE OpsTyped
<1>1. /\ operation = 1 /\ popup = None /\ window = [id |-> None, shows |-> None]
      /\ view = [status |-> "loading", session |-> None] /\ seen = {None}
      /\ custody \in Custodies /\ kept = None /\ row = None /\ spent = {} /\ callback = [r \in Requests |-> Unsent]
  BY DEF Init, HandlerInit, NoWindow
<1>2. /\ OpAt("refresh", "fetch", None) \in Operation /\ OpAt("none", "idle", None) \in Operation
  BY OpAtTyped DEF Kinds
<1>3. /\ op \in [Ops -> Operation]
      /\ op[1] = OpAt("refresh", "fetch", None)
      /\ \A i \in Ops \ {1} : op[i] = OpAt("none", "idle", None)
  BY <1>2 DEF Init
<1>4. /\ op[1].kind = "refresh" /\ op[1].pc = "fetch" /\ op[1].win = None /\ op[1].ok = FALSE
      /\ \A i \in Ops \ {1} : op[i].kind = "none" /\ op[i].win = None
  BY <1>3 DEF OpAt
<1>5. \A r \in Requests : callback[r].at = "unsent"
  BY <1>1 DEF Unsent
<1>6. TypeOK
  <2>1. Unsent \in CallbackType
    BY DEF Unsent, CallbackType
  <2> QED
    BY <1>1, <1>3, <2>1 DEF TypeOK, HandlerTypeOK, Busy
<1>7. /\ \A i \in Ops : i > 1 <=> i # 1
      /\ ~(None > 1)
  BY DEF Ops, Logins, None
<1>8. OpsFit
  BY <1>1, <1>3, <1>4, <1>7 DEF OpsFit
<1>9. AnswersFit
  BY <1>1, <1>4 DEF AnswersFit, AnswerOf
<1>10. CallbacksFit /\ TakenOnce
  BY <1>1, <1>5 DEF CallbacksFit, TakenOnce, Proceeded
<1>11. PageFits
  BY <1>1, <1>4 DEF PageFits, BusyWhileNewestRuns, ViewWasTrue, Running, Busy
<1>12. WindowFits
  BY <1>1, <1>4 DEF WindowFits, WindowIsAttended, OwnWindows
<1> QED
  BY <1>6, <1>8, <1>9, <1>10, <1>11, <1>12 DEF IInv

LEMMA NextHolds == IInv /\ [Next]_vars => IInv'
<1> SUFFICES ASSUME IInv, [Next]_vars PROVE IInv'
  OBVIOUS
<1>1. CASE Refresh \/ Unmount \/ SignIn \/ SignInBlocked \/ SignOut
  BY <1>1, PageKeeps
<1>2. ASSUME NEW i \in Ops, Serve(i)
      PROVE  IInv'
  BY <1>2, ServerActs
<1>3. ASSUME NEW i \in Ops, Arrive(i)
      PROVE  IInv'
  <2>1. CASE RefreshArrives(i) \/ LogoutArrives(i)
    BY <2>1, AnswerArrives
  <2>2. CASE LoginArrives(i)
    BY <2>2, LoginGoesOn
  <2>3. CASE LoginFails(i) \/ PollFindsClosed(i) \/ PollTimesOut(i)
    BY <2>3, ThrowArrives DEF LoginFails, PollFindsClosed, PollTimesOut
  <2>4. CASE PollConnects(i) \/ PollPauses(i) \/ PollStops(i) \/ PollAgain(i)
    BY <2>4, PollArrives
  <2> QED
    BY <1>3, <2>1, <2>2, <2>3, <2>4 DEF Arrive
<1>4. CASE Approve \/ CloseWindow
  BY <1>4, OutsideTyped, UserKeeps
<1>5. ASSUME NEW r \in Requests, Callback(r)
      PROVE  IInv'
  BY <1>5, OutsideTyped, CallbackKeeps
<1>6. CASE UNCHANGED vars
  <2>1. UNCHANGED <<custody, kept, row, spent, callback, operation, op, popup, window, view, seen>>
    BY <1>6 DEF vars, handler, hook
  <2>2. TypeOK' /\ OpsFit'
    BY <2>1 DEF IInv, TypeOK, HandlerTypeOK, OpsFit
  <2>3. AnswersFit' /\ PageFits'
    BY <2>1 DEF IInv, AnswersFit, AnswerOf, PageFits, BusyWhileNewestRuns, ViewWasTrue, Mounted, Running
  <2>4. CallbacksFit' /\ TakenOnce' /\ WindowFits'
    BY <2>1 DEF IInv, CallbacksFit, TakenOnce, Proceeded, Begun, WindowFits, WindowIsAttended, OwnWindows, Running
  <2> QED
    BY <2>2, <2>3, <2>4 DEF IInv
<1> QED
  BY <1>1, <1>2, <1>3, <1>4, <1>5, <1>6 DEF Next

THEOREM Invariance == Spec => []IInv
<1>1. Init => IInv
  BY InitFits
<1>2. IInv /\ [Next]_vars => IInv'
  BY NextHolds
<1> QED
  BY <1>1, <1>2, PTL DEF Spec

(***************************************************************************)
(* What follows.                                                           *)
(***************************************************************************)

(* The hook and the handler keep the shapes of their state.                *)
THEOREM PageTypeCorrect == Spec => []TypeOK
<1>1. IInv => TypeOK
  BY DEF IInv
<1> QED
  BY <1>1, Invariance, PTL

(* A PendingLoginStore hands a login out once: of all the requests of a    *)
(* callback URL one at most goes on to exchange the code.                  *)
THEOREM LoginsAreTakenOnce == Spec => []TakenOnce
<1>1. IInv => TakenOnce
  BY DEF IInv
<1> QED
  BY <1>1, Invariance, PTL

(* The page shows a spinner exactly while its newest operation runs.       *)
THEOREM PageIsBusyInTime == Spec => []BusyWhileNewestRuns
<1>1. IInv => BusyWhileNewestRuns
  BY DEF IInv, PageFits
<1> QED
  BY <1>1, Invariance, PTL

(* What a settled page shows was so since its newest operation began.      *)
THEOREM PageShowsWhatWas == Spec => []ViewWasTrue
<1>1. IInv => ViewWasTrue
  BY DEF IInv, PageFits
<1> QED
  BY <1>1, Invariance, PTL

(* An open sign-in window has a login that runs, is the newest and can     *)
(* close it.                                                               *)
THEOREM WindowsAreAttended == Spec => []WindowIsAttended
<1>1. IInv => WindowIsAttended
  BY DEF IInv, WindowFits
<1> QED
  BY <1>1, Invariance, PTL

(* An answer changes its own operation alone, and an answer to an older one*)
(* closes no window but its own.                                           *)
LEMMA ArrivalsAreLocal ==
  ASSUME TypeOK, NEW i \in Ops, Arrive(i)
  PROVE  /\ operation' = operation /\ op' \in [Ops -> Operation]
         /\ \A j \in Ops \ {i} : op'[j] = op[j]
         /\ i # operation => window' = window \/ window' = Closed(op[i].win)
<1>1. CASE RefreshArrives(i) \/ LogoutArrives(i) \/ PollConnects(i) \/ PollStops(i)
  <2>1. /\ Goes(i, "done") /\ operation' = operation
        /\ i # operation => window' = window
    BY <1>1 DEF RefreshArrives, LogoutArrives, PollConnects, PollStops, Newest
  <2> QED
    BY <2>1, GoesTyped
<1>2. CASE LoginArrives(i)
  <2>1. PICK pc \in {"poll", "done"} : Goes(i, pc)
    BY <1>2 DEF LoginArrives
  <2>2. operation' = operation /\ (i # operation => window' = Closed(op[i].win))
    BY <1>2 DEF LoginArrives, Newest
  <2> QED
    BY <2>1, <2>2, GoesTyped
<1>3. CASE LoginFails(i) \/ PollFindsClosed(i) \/ PollTimesOut(i)
  <2>1. LoginThrows(i) /\ operation' = operation
    BY <1>3 DEF LoginFails, PollFindsClosed, PollTimesOut
  <2> QED
    BY <2>1, ThrowsKeeps
<1>4. CASE PollPauses(i)
  <2>1. Goes(i, "pause") /\ operation' = operation /\ window' = window
    BY <1>4 DEF PollPauses
  <2> QED
    BY <2>1, GoesTyped
<1>5. CASE PollAgain(i)
  <2>1. /\ op \in [Ops -> Operation] /\ op[i] \in Operation /\ op[i].polls \in 0..MaxPolls /\ op[i].polls < MaxPolls
        /\ op' = [op EXCEPT ![i].pc = "poll", ![i].polls = @ + 1]
        /\ operation' = operation /\ window' = window
    BY <1>5 DEF PollAgain, TypeOK, Operation
  <2>2. op[i].polls + 1 \in 0..MaxPolls
    BY <2>1, HookAssumption
  <2>3. op' = [op EXCEPT ![i] = [op[i] EXCEPT !.pc = "poll", !.polls = op[i].polls + 1]]
    BY <2>1 DEF Operation
  <2>4. [op[i] EXCEPT !.pc = "poll", !.polls = op[i].polls + 1] \in Operation
    BY <2>1, <2>2 DEF Operation
  <2> QED
    BY <2>1, <2>3, <2>4
<1> QED
  BY <1>1, <1>2, <1>3, <1>4, <1>5 DEF Arrive

(* With the library's buttons, a window goes by the user, by a new         *)
(* operation or by a step of its own login.  An application that signs in  *)
(* again while a login runs hands that login's window on, and the older    *)
(* login may close it.                                                     *)
THEOREM NewestLoginKeepsItsWindow ==
  ASSUME Buttons
  PROVE  Spec => NewestKeepsItsWindow
<1> DEFINE Step == window.id # None /\ window'.id # window.id /\ op' # op => op'[operation'] # op[operation']
<1>1. ASSUME IInv, [Next]_vars PROVE Step
  <2>1. TypeOK
    BY <1>1 DEF IInv
  <2>2. CASE \E i \in Ops : Arrive(i)
    <3>1. PICK i \in Ops : Arrive(i)
      BY <2>2
    <3>2. /\ operation' = operation /\ op' \in [Ops -> Operation] /\ op \in [Ops -> Operation]
          /\ \A j \in Ops \ {i} : op'[j] = op[j]
          /\ i # operation => window' = window \/ window' = Closed(op[i].win)
      BY <2>1, <3>1, ArrivalsAreLocal DEF TypeOK
    <3>3. CASE i = operation
      BY <3>2, <3>3
    <3>4. CASE i # operation
      <4>1. window.id # None => op[i].win # window.id
        BY <1>1, <3>4 DEF IInv, WindowFits, OwnWindows
      <4> QED
        BY <3>2, <3>4, <4>1 DEF Closed
    <3> QED
      BY <3>3, <3>4
  <2>3. CASE Refresh \/ Unmount \/ SignIn \/ SignInBlocked \/ SignOut
    <3>1. PICK n : n = operation + 1
      OBVIOUS
    <3>2. PICK k \in Kinds, p \in {"fetch", "done"}, w \in Ops \cup {None} :
            operation < MaxLogins /\ operation' = n /\ op' = [op EXCEPT ![n] = OpAt(k, p, w)]
      <4>1. ASSUME NEW k \in Kinds, Begin(k)
            PROVE  operation < MaxLogins /\ operation' = n /\ op' = [op EXCEPT ![n] = OpAt(k, IF k = "unmount" THEN "done" ELSE "fetch", None)]
        BY <3>1, <4>1 DEF Begin
      <4>2. CASE Refresh \/ Unmount \/ SignOut
        BY <4>1, <4>2 DEF Refresh, Unmount, SignOut, Kinds
      <4>3. CASE SignInBlocked
        BY <3>1, <4>3 DEF SignInBlocked, Kinds
      <4>4. CASE SignIn
        <5>1. operation < MaxLogins => n \in Ops
          BY <2>1, <3>1, OpsTyped, CountsAssumption DEF TypeOK, Ops, Logins
        <5> QED
          BY <2>1, <3>1, <4>4, <5>1 DEF SignIn, Kinds, TypeOK
      <4> QED
        BY <2>3, <4>2, <4>3, <4>4
    <3>3. n \in Ops /\ n > operation
      BY <2>1, <3>1, <3>2, OpsTyped, CountsAssumption DEF TypeOK, Ops, Logins
    <3>4. op[n].pc = "idle"
      BY <1>1, <3>3 DEF IInv, OpsFit, OpAt
    <3>5. op'[n].pc = p
      BY <2>1, <3>2, <3>3 DEF TypeOK, OpAt
    <3> QED
      BY <3>2, <3>4, <3>5
  <2>4. CASE \E i \in Ops : Serve(i)
    BY <2>4 DEF Serve, ServeSession, ServeLogin, ServeLogout, ServeFails, AtServer
  <2>5. CASE Approve \/ CloseWindow \/ (\E r \in Requests : Callback(r)) \/ UNCHANGED vars
    BY <2>5 DEF Approve, CloseWindow, Callback, vars, hook
  <2> QED
    BY <1>1, <2>2, <2>3, <2>4, <2>5 DEF Next
<1>2. [](IInv) => ([][Next]_vars => [][Step]_vars)
  BY <1>1, PTL
<1> QED
  BY <1>2, Invariance, PTL DEF Spec, NewestKeepsItsWindow

==============================================================================
