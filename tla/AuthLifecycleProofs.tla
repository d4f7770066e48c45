------------------------ MODULE AuthLifecycleProofs ------------------------
(* Proofs about AuthLifecycle, for any number of processes and calls.       *)
EXTENDS AuthLifecycle, TLAPS

(***************************************************************************)
(* Type correctness.                                                       *)
(***************************************************************************)

LEMMA InitTypeOK == Init => TypeOK
<1> SUFFICES ASSUME Init PROVE TypeOK
  OBVIOUS
<1>1. NoRecord \in Record /\ [at |-> 1, rt |-> 1, ver |-> 1, q |-> FALSE] \in Record
  BY DEF Record, NoRecord
<1>2. rec \in Record
  BY <1>1 DEF Init
<1>3. Pending \in Outcome
  BY <1>1 DEF Pending, Outcome
<1>4. flights \in [Procs -> Calls \cup {NoCall}] /\ joined \in [Calls -> Calls \cup {NoCall}]
  BY DEF Init
<1>5. pc \in [Calls -> Phases] /\ op \in [Calls -> AllOps]
  BY DEF Init, Phases, AllOps
<1>6. cur \in [Calls -> Record] /\ nxt \in [Calls -> Record] /\ res \in [Calls -> Outcome]
  BY <1>1, <1>3 DEF Init
<1>7. attempt \in [Calls -> 0..2]
  BY DEF Init
<1>9. kept \in [Calls -> BOOLEAN] /\ stale \in BOOLEAN
  BY Zenon DEF Init
<1>8. issued \in Nat /\ spent \subseteq Nat /\ revoked \subseteq Nat
  BY DEF Init
<1> QED
  BY <1>2, <1>4, <1>5, <1>6, <1>7, <1>8, <1>9 DEF TypeOK

(* The ways a call moves on keep the variables they write well typed.       *)
LEMMA ContinueTyped ==
  ASSUME TypeOK, NEW c \in Calls, NEW phase \in Phases, Continue(c, phase)
  PROVE  /\ pc' \in [Calls -> Phases] /\ res' \in [Calls -> Outcome]
         /\ cur' \in [Calls -> Record] /\ nxt' \in [Calls -> Record]
         /\ attempt' \in [Calls -> 0..2] /\ kept' \in [Calls -> BOOLEAN]
BY DEF TypeOK, Continue, Goto, locals

LEMMA EndTyped ==
  ASSUME TypeOK, NEW c \in Calls, NEW phase \in Phases, NEW o \in Outcome, End(c, phase, o)
  PROVE  /\ pc' \in [Calls -> Phases] /\ res' \in [Calls -> Outcome]
         /\ cur' \in [Calls -> Record] /\ nxt' \in [Calls -> Record]
         /\ attempt' \in [Calls -> 0..2] /\ kept' \in [Calls -> BOOLEAN]
BY DEF TypeOK, End, Goto, Record, NoRecord

LEMMA OutcomesTyped ==
  /\ \A r \in Record, b \in BOOLEAN : Gets(r, b) \in Outcome
  /\ \A k \in {"reauth", "failed", "auth", "disabled"} : FailsWith(k) \in Outcome
  /\ NoRecord \in Record
BY DEF Gets, FailsWith, Outcome, Record, NoRecord

LEMMA RenumberedTyped ==
  ASSUME NEW r \in Record, NEW n \in Nat
  PROVE  [r EXCEPT !.ver = n + 1] \in Record /\ [r EXCEPT !.q = TRUE] \in Record
<1>1. [r EXCEPT !.ver = n + 1] \in Record
  BY DEF Record
<1>2. [r EXCEPT !.q = TRUE] \in Record
  BY DEF Record
<1> QED
  BY <1>1, <1>2

LEMMA DiesTyped ==
  ASSUME TypeOK, NEW p \in Procs, Dies(p)
  PROVE  TypeOK'
BY DEF Dies, TypeOK, Phases, server, locals

(* Waiting for the user touches nothing but the call that waits, unless its *)
(* process dies.                                                            *)
LEMMA MovesTyped ==
  ASSUME TypeOK, NEW c \in Calls, NEW from, NEW to \in Phases, Moves(c, from, to)
  PROVE  TypeOK'
BY ContinueTyped DEF Moves, TypeOK, server

LEMMA StopsTyped ==
  ASSUME TypeOK, NEW c \in Calls, NEW from, NEW phase \in {"done", "abandoned"},
         NEW kind \in {"failed", "auth", "disabled"},
         End(c, phase, FailsWith(kind)),
         UNCHANGED <<rec, server, stale, flights, op, joined>>
  PROVE  TypeOK'
<1>1. phase \in Phases
  BY DEF Phases, LoginPhases, LoopbackPhases
<1> QED
  BY <1>1, EndTyped, OutcomesTyped DEF TypeOK, server

LEMMA DeviceStepTyped ==
  ASSUME TypeOK, NEW c \in Calls, DeviceStep(c)
  PROVE  TypeOK'
<1>1. CASE DeviceStarted(c) \/ DevicePolls(c) \/ DevicePending(c) \/ DeviceAuthorized(c)
  BY <1>1, MovesTyped
  DEF DeviceStarted, DevicePolls, DevicePending, DeviceAuthorized, Phases, LoginPhases, DevicePhases
<1>2. CASE DeviceExpires(c) \/ DeviceFails(c)
  BY <1>2, StopsTyped DEF DeviceExpires, DeviceFails, Stops, Return
<1> QED
  BY <1>1, <1>2 DEF DeviceStep

LEMMA LoopbackStepTyped ==
  ASSUME TypeOK, NEW c \in Calls, LoopbackStep(c)
  PROVE  TypeOK'
<1> USE DEF Phases, LoginPhases, LoopbackPhases
<1>1. CASE CallbackEarly(c) \/ Opened(c) \/ CallbackUnwanted(c)
  BY <1>1, MovesTyped DEF CallbackEarly, Opened, CallbackUnwanted
<1>2. CASE OpenFails(c)
  BY <1>2, StopsTyped DEF OpenFails, Stops, Return
<1>3. CASE \E disabled \in SwitchAnswers : CallbackTaken(c, disabled)
  BY <1>3, MovesTyped, StopsTyped DEF CallbackTaken, Stops, Return
<1>4. CASE ListenerFails(c)
  BY <1>4, StopsTyped, DiesTyped, HomeAssumption DEF ListenerFails, Stops, Return
<1> QED
  BY <1>1, <1>2, <1>3, <1>4 DEF LoopbackStep

LEMMA StepTyped ==
  ASSUME TypeOK, NEW c \in Calls, Step(c)
  PROVE  TypeOK'
<1> USE DEF Phases, FlightPhases, LoginPhases
<1>0. rec \in Record /\ cur[c] \in Record /\ nxt[c] \in Record
  BY DEF TypeOK
<1>i. issued + 1 \in Nat
  BY DEF TypeOK
<1>1. CASE GetLoad(c)
  BY <1>1, <1>0, ContinueTyped, EndTyped, OutcomesTyped DEF GetLoad, Return, TypeOK, server
<1>2. CASE Join(c)
  BY <1>2, ContinueTyped, HomeAssumption DEF Join, TypeOK, server
<1>3. CASE Logout(c)
  BY <1>3, OutcomesTyped DEF Logout, Goto, TypeOK, server
<1>4. CASE FlightLoad(c)
  BY <1>4, <1>0, EndTyped, OutcomesTyped DEF FlightLoad, Finish, Goto, TypeOK, server
<1>5. CASE Post(c)
  <2>1. CASE \E rotates \in BOOLEAN : RefreshSucceeds(c, rotates)
    <3> PICK rotates \in BOOLEAN : RefreshSucceeds(c, rotates)
      BY <2>1
    <3>1. cur[c].rt \in Nat /\ cur[c].ver \in Nat
      BY <1>0 DEF Record
    <3>2. [at  |-> issued + 1, rt  |-> IF rotates THEN issued + 1 ELSE cur[c].rt,
           ver |-> cur[c].ver + 1, q |-> FALSE] \in Record
      BY <3>1 DEF TypeOK, Record
    <3>3. nxt' \in [Calls -> Record]
      BY <3>2 DEF RefreshSucceeds, TypeOK
    <3> QED
      BY <3>1, <3>3, <1>i DEF RefreshSucceeds, Goto, TypeOK
  <2>2. ASSUME NEW retriable \in BOOLEAN, AttemptFails(c, retriable)
        PROVE  /\ pc' \in [Calls -> Phases] /\ res' \in [Calls -> Outcome]
               /\ cur' \in [Calls -> Record] /\ nxt' \in [Calls -> Record]
               /\ attempt' \in [Calls -> 0..2] /\ kept' \in [Calls -> BOOLEAN]
    <3>1. CASE retriable /\ attempt[c] < 2
      BY <2>2, <3>1 DEF AttemptFails, TypeOK
    <3>2. CASE ~(retriable /\ attempt[c] < 2)
      BY <2>2, <3>2, EndTyped, OutcomesTyped DEF AttemptFails, Finish
    <3> QED
      BY <3>1, <3>2
  <2>3. CASE \E retriable \in BOOLEAN : RefreshFails(c, retriable)
    BY <2>2, <2>3 DEF RefreshFails, TypeOK, server
  <2>4. CASE \E retriable \in BOOLEAN : RefreshAnswerLost(c, retriable)
    <3>1. cur[c].rt \in Nat
      BY <1>0 DEF Record
    <3> QED
      BY <2>2, <2>4, <3>1, <1>i DEF RefreshAnswerLost, TypeOK
  <2>5. CASE RefreshRejected(c)
    BY <2>5, <1>0, ContinueTyped DEF RefreshRejected, TypeOK, Record
  <2> QED
    BY <1>5, <2>1, <2>3, <2>4, <2>5 DEF Post
<1>6. ASSUME NEW expected \in Nat, NEW r \in Record, Swap(expected, r)
      PROVE  rec' \in Record /\ stale' \in BOOLEAN
  BY <1>6, RenumberedTyped DEF Swap
<1>7. Adopt \in Outcome
  BY <1>0, OutcomesTyped DEF Adopt
<1>8. CASE RefreshCas(c)
  BY <1>8, <1>0, <1>6, <1>7, EndTyped, OutcomesTyped
  DEF RefreshCas, Finish, TypeOK, server, Record
<1>9. CASE QuarantineCas(c)
  <2>1. cur[c].ver \in Nat /\ [cur[c] EXCEPT !.q = TRUE] \in Record
    BY <1>0, RenumberedTyped DEF Record
  <2> QED
    BY <1>9, <1>0, <1>6, <1>7, <2>1, EndTyped, OutcomesTyped
    DEF QuarantineCas, Finish, TypeOK, server
<1>10. CASE Settle(c)
  BY <1>10, HomeAssumption DEF Settle, TypeOK, server, locals
<1>11. CASE \E disabled \in SwitchAnswers : CodeExchanged(c, disabled)
  <2>1. [at |-> issued + 1, rt |-> issued + 1, ver |-> 1, q |-> FALSE] \in Record
    BY DEF TypeOK, Record
  <2> QED
    BY <1>11, <1>i, <2>1, EndTyped, OutcomesTyped DEF CodeExchanged, Return, Goto, TypeOK
<1>12. CASE CodeRejected(c)
  BY <1>12, EndTyped, OutcomesTyped DEF CodeRejected, Return, TypeOK, server
<1>13. CASE FreshLoad(c)
  <2>1. rec.ver \in Nat /\ [nxt[c] EXCEPT !.ver = rec.ver + 1] \in Record
    BY <1>0, RenumberedTyped DEF Record
  <2>2. nxt' \in [Calls -> Record]
    BY <1>13, <2>1 DEF FreshLoad, TypeOK
  <2> QED
    BY <1>13, <1>0, <2>2 DEF FreshLoad, Goto, TypeOK, server
<1>14. CASE FreshCas(c)
  BY <1>14, <1>0, <1>6, EndTyped, OutcomesTyped
  DEF FreshCas, Return, TypeOK, server, Record
<1>15. CASE StoreFails(c)
  BY <1>15, EndTyped, OutcomesTyped DEF StoreFails, Return, Finish, TypeOK, server
<1>16. CASE DeviceStep(c) \/ LoopbackStep(c)
  BY <1>16, DeviceStepTyped, LoopbackStepTyped
<1> QED
  BY <1>16, <1>1, <1>2, <1>3, <1>4, <1>5, <1>8, <1>9, <1>10, <1>11, <1>12, <1>13, <1>14, <1>15
  DEF Step

LEMMA NextTyped == TypeOK /\ [Next]_vars => TypeOK'
<1> SUFFICES ASSUME TypeOK, [Next]_vars PROVE TypeOK'
  OBVIOUS
<1> USE DEF Phases, FlightPhases, LoginPhases, DevicePhases, LoopbackPhases
<1>1. ASSUME NEW c \in Calls, Step(c) PROVE TypeOK'
  BY <1>1, StepTyped
<1>2. ASSUME NEW c \in Calls, NEW o \in Ops, NEW disabled \in SwitchAnswers,
             Start(c, o, disabled)
      PROVE  TypeOK'
  BY <1>2, ContinueTyped, EndTyped, OutcomesTyped, OpsAssumption
  DEF Start, Return, TypeOK, server
<1>3. CASE Expire
  BY <1>3 DEF Expire, TypeOK, server, locals
<1>4. ASSUME NEW p \in Procs, Crash(p) PROVE TypeOK'
  BY <1>4, DiesTyped DEF Crash
<1>5. CASE UNCHANGED vars
  BY <1>5 DEF vars, TypeOK
<1> QED
  BY <1>1, <1>2, <1>3, <1>4, <1>5 DEF Next, Environment

(* Every variable keeps its type, in every behaviour.                       *)
THEOREM TypeCorrect == Spec => []TypeOK
BY InitTypeOK, NextTyped, PTL DEF Spec

(***************************************************************************)
(* One flight per process.  Singleflight is inductive under TypeOK: a call *)
(* enters the flight phases only through an empty slot of the map, and     *)
(* leaves them only together with the slot and all who wait for it.        *)
(***************************************************************************)

(* A call that moves inside or outside the flight phases disturbs nothing.  *)
LEMMA MoveKeepsSingleflight ==
  ASSUME TypeOK, Singleflight, NEW c \in Calls, NEW phase \in Phases,
         Goto(c, phase), UNCHANGED <<flights, joined>>,
         \/ pc[c] \in FlightPhases /\ phase \in FlightPhases
         \/ pc[c] \notin FlightPhases \cup {"wait"} /\ phase \notin FlightPhases \cup {"wait"}
  PROVE  Singleflight'
<1>1. \A d \in Calls : InFlight(d)' <=> InFlight(d)
  BY DEF Goto, TypeOK, InFlight
<1>2. \A d \in Calls : pc'[d] = "wait" => pc[d] = "wait"
  BY DEF Goto, TypeOK, FlightPhases
<1>3. \A d \in Calls : InFlight(d)' => flights'[Home[d]] = d
  BY <1>1 DEF Singleflight
<1>4. \A p \in Procs : flights'[p] # NoCall => InFlight(flights[p])' /\ Home[flights'[p]] = p
  BY <1>1 DEF Singleflight, TypeOK
<1>5. \A d \in Calls : pc'[d] = "wait" => flights'[Home[d]] = joined'[d] /\ joined'[d] \in Calls
  BY <1>2 DEF Singleflight
<1> QED
  BY <1>3, <1>4, <1>5 DEF Singleflight, InFlight

LEMMA JoinKeepsSingleflight ==
  ASSUME TypeOK, Singleflight, NEW c \in Calls, Join(c)
  PROVE  Singleflight'
<1> USE HomeAssumption, NoCallAssumption
<1>1. CASE flights[Home[c]] # NoCall
  <2>1. /\ joined' = [joined EXCEPT ![c] = flights[Home[c]]]
        /\ pc' = [pc EXCEPT ![c] = "wait"] /\ flights' = flights /\ pc[c] = "join"
    BY <1>1 DEF Join, Continue, Goto
  <2>2. flights[Home[c]] \in Calls
    BY <1>1 DEF TypeOK
  <2> QED
    BY <2>1, <2>2 DEF Singleflight, InFlight, FlightPhases, TypeOK
<1>2. CASE flights[Home[c]] = NoCall
  <2>1. /\ flights' = [flights EXCEPT ![Home[c]] = c] /\ joined' = joined
        /\ pc' = [pc EXCEPT ![c] = "flLoad"] /\ pc[c] = "join"
    BY <1>2 DEF Join, Continue, Goto
  <2>2. \A d \in Calls : Home[d] = Home[c] => ~InFlight(d) /\ pc[d] # "wait"
    BY <1>2 DEF Singleflight
  <2> QED
    BY <2>1, <2>2 DEF Singleflight, InFlight, FlightPhases, TypeOK
<1> QED
  BY <1>1, <1>2

LEMMA SettleKeepsSingleflight ==
  ASSUME TypeOK, Singleflight, NEW c \in Calls, Settle(c)
  PROVE  Singleflight'
<1> USE HomeAssumption, NoCallAssumption
<1>1. flights[Home[c]] = c
  BY DEF Settle, Singleflight, InFlight, FlightPhases
<1>2. /\ flights' = [flights EXCEPT ![Home[c]] = NoCall] /\ joined' = joined
  BY <1>1 DEF Settle, TypeOK
<1>3. \A d \in Calls : Awaits(d, c) => pc'[d] \in {"join", "done"}
  BY DEF Settle
<1>4. \A d \in Calls : ~Awaits(d, c) => pc'[d] = pc[d]
  BY DEF Settle
<1>5. \A d \in Calls : Home[d] = Home[c] /\ (InFlight(d) \/ pc[d] = "wait") => Awaits(d, c)
  BY <1>1 DEF Singleflight, Awaits
<1>6. \A d \in Calls : InFlight(d)' \/ pc'[d] = "wait" => pc'[d] = pc[d] /\ Home[d] # Home[c]
  BY <1>3, <1>4, <1>5 DEF InFlight, FlightPhases
<1>7. \A d \in Calls : Awaits(d, c) => Home[d] = Home[c]
  BY <1>1 DEF Awaits, Singleflight, InFlight, Settle, FlightPhases
<1>8. \A p \in Procs : flights'[p] # NoCall => flights'[p] = flights[p] /\ p # Home[c]
  BY <1>2 DEF TypeOK
<1>9. \A p \in Procs : flights'[p] # NoCall => InFlight(flights[p])' /\ Home[flights'[p]] = p
  <2> SUFFICES ASSUME NEW p \in Procs, flights'[p] # NoCall
               PROVE  InFlight(flights[p])' /\ Home[flights'[p]] = p
    OBVIOUS
  <2>1. flights'[p] = flights[p] /\ flights[p] \in Calls /\ Home[flights[p]] = p
        /\ InFlight(flights[p]) /\ p # Home[c]
    BY <1>8 DEF Singleflight, TypeOK
  <2>2. pc'[flights[p]] = pc[flights[p]]
    BY <2>1, <1>4, <1>7
  <2> QED
    BY <2>1, <2>2 DEF InFlight
<1>10. \A d \in Calls : InFlight(d)' => flights'[Home[d]] = d
  BY <1>2, <1>6 DEF Singleflight, InFlight, TypeOK
<1>11. \A d \in Calls : pc'[d] = "wait" => flights'[Home[d]] = joined'[d] /\ joined'[d] \in Calls
  BY <1>2, <1>6 DEF Singleflight, TypeOK
<1> QED
  BY <1>9, <1>10, <1>11 DEF Singleflight, InFlight

LEMMA DeathKeepsSingleflight ==
  ASSUME TypeOK, Singleflight, NEW p \in Procs, Dies(p)
  PROVE  Singleflight'
<1> USE HomeAssumption, NoCallAssumption
<1>1. flights' = [flights EXCEPT ![p] = NoCall] /\ joined' = joined
  BY DEF Dies
<1>2. \A d \in Calls : Home[d] = p => ~InFlight(d)' /\ pc'[d] # "wait"
  BY DEF Dies, InFlight, FlightPhases
<1>3. \A d \in Calls : Home[d] # p => pc'[d] = pc[d]
  BY DEF Dies
<1> QED
  BY <1>1, <1>2, <1>3 DEF Singleflight, InFlight, TypeOK

LEMMA DeviceKeepsSingleflight ==
  ASSUME TypeOK, Singleflight, NEW c \in Calls, DeviceStep(c)
  PROVE  Singleflight'
<1> USE DEF Phases, LoginPhases, DevicePhases, FlightPhases
<1>1. CASE DeviceStarted(c) \/ DevicePolls(c) \/ DevicePending(c) \/ DeviceAuthorized(c)
  BY <1>1, MoveKeepsSingleflight
  DEF DeviceStarted, DevicePolls, DevicePending, DeviceAuthorized, Moves, Continue
<1>2. CASE DeviceExpires(c) \/ DeviceFails(c)
  BY <1>2, MoveKeepsSingleflight DEF DeviceExpires, DeviceFails, Stops, Return, End
<1> QED
  BY <1>1, <1>2 DEF DeviceStep

LEMMA LoopbackKeepsSingleflight ==
  ASSUME TypeOK, Singleflight, NEW c \in Calls, LoopbackStep(c)
  PROVE  Singleflight'
<1> USE DEF Phases, LoginPhases, LoopbackPhases, FlightPhases
<1>1. CASE CallbackEarly(c) \/ Opened(c) \/ CallbackUnwanted(c)
  BY <1>1, MoveKeepsSingleflight DEF CallbackEarly, Opened, CallbackUnwanted, Moves, Continue
<1>2. CASE OpenFails(c)
  BY <1>2, MoveKeepsSingleflight DEF OpenFails, Stops, Return, End
<1>3. CASE \E disabled \in SwitchAnswers : CallbackTaken(c, disabled)
  BY <1>3, MoveKeepsSingleflight DEF CallbackTaken, Stops, Moves, Continue, Return, End
<1>4. CASE ListenerFails(c)
  BY <1>4, MoveKeepsSingleflight, DeathKeepsSingleflight, HomeAssumption
  DEF ListenerFails, Stops, Return, End
<1> QED
  BY <1>1, <1>2, <1>3, <1>4 DEF LoopbackStep

LEMMA NextKeepsSingleflight == TypeOK /\ Singleflight /\ [Next]_vars => Singleflight'
<1> SUFFICES ASSUME TypeOK, Singleflight, [Next]_vars PROVE Singleflight'
  OBVIOUS
<1> USE DEF Phases, LoginPhases, FlightPhases, DevicePhases, LoopbackPhases
<1>1. ASSUME NEW c \in Calls, Step(c) PROVE Singleflight'
  <2>1. CASE Join(c)
    BY <2>1, JoinKeepsSingleflight
  <2>2. CASE Settle(c)
    BY <2>2, SettleKeepsSingleflight
  <2>3. CASE GetLoad(c)
    BY <2>3, MoveKeepsSingleflight DEF GetLoad, Return, End, Continue
  <2>4. CASE Logout(c)
    BY <2>4, MoveKeepsSingleflight DEF Logout
  <2>5. CASE FlightLoad(c)
    BY <2>5, MoveKeepsSingleflight DEF FlightLoad, Finish, End
  <2>6. CASE Post(c)
    <3>1. CASE \E rotates \in BOOLEAN : RefreshSucceeds(c, rotates)
      BY <3>1, MoveKeepsSingleflight DEF RefreshSucceeds
    <3>2. ASSUME NEW retriable \in BOOLEAN, AttemptFails(c, retriable), pc[c] = "flPost",
                 UNCHANGED <<flights, joined>>
          PROVE  Singleflight'
      <4>1. CASE UNCHANGED pc
        BY <3>2, <4>1 DEF Singleflight, InFlight
      <4>2. CASE Goto(c, "settle")
        BY <3>2, <4>2, MoveKeepsSingleflight
      <4> QED
        BY <3>2, <4>1, <4>2 DEF AttemptFails, Finish, End
    <3>3. CASE \E retriable \in BOOLEAN : RefreshFails(c, retriable)
      BY <3>2, <3>3 DEF RefreshFails
    <3>4. CASE \E retriable \in BOOLEAN : RefreshAnswerLost(c, retriable)
      BY <3>2, <3>4 DEF RefreshAnswerLost
    <3>5. CASE RefreshRejected(c)
      BY <3>5, MoveKeepsSingleflight DEF RefreshRejected, Continue
    <3> QED
      BY <2>6, <3>1, <3>3, <3>4, <3>5 DEF Post
  <2>7. CASE RefreshCas(c)
    BY <2>7, MoveKeepsSingleflight DEF RefreshCas, Finish, End
  <2>8. CASE QuarantineCas(c)
    BY <2>8, MoveKeepsSingleflight DEF QuarantineCas, Finish, End
  <2>9. CASE \E disabled \in SwitchAnswers : CodeExchanged(c, disabled)
    BY <2>9, MoveKeepsSingleflight DEF CodeExchanged, Return, End
  <2>10. CASE CodeRejected(c)
    BY <2>10, MoveKeepsSingleflight DEF CodeRejected, Return, End
  <2>11. CASE FreshLoad(c)
    BY <2>11, MoveKeepsSingleflight DEF FreshLoad
  <2>12. CASE FreshCas(c)
    BY <2>12, MoveKeepsSingleflight DEF FreshCas, Return, End
  <2>13. CASE StoreFails(c)
    BY <2>13, MoveKeepsSingleflight DEF StoreFails, Finish, Return, End
  <2>14. CASE DeviceStep(c) \/ LoopbackStep(c)
    BY <2>14, DeviceKeepsSingleflight, LoopbackKeepsSingleflight
  <2> QED
    BY <2>14, <1>1, <2>1, <2>2, <2>3, <2>4, <2>5, <2>6, <2>7, <2>8, <2>9, <2>10, <2>11, <2>12, <2>13
    DEF Step
<1>2. ASSUME NEW c \in Calls, NEW o \in Ops, NEW disabled \in SwitchAnswers,
             Start(c, o, disabled)
      PROVE  Singleflight'
  BY <1>2, MoveKeepsSingleflight, OpsAssumption DEF Start, Return, End, Continue, AllOps
<1>3. CASE Expire
  BY <1>3 DEF Expire, Singleflight, InFlight
<1>4. ASSUME NEW p \in Procs, Crash(p) PROVE Singleflight'
  BY <1>4, DeathKeepsSingleflight DEF Crash
<1>5. CASE UNCHANGED vars
  BY <1>5 DEF vars, Singleflight, InFlight
<1> QED
  BY <1>1, <1>2, <1>3, <1>4, <1>5 DEF Next, Environment

(* At most one refresh runs per process, it is the one in its flights map,  *)
(* and every caller that waits in this process waits for it.                *)
THEOREM OneFlightPerProcess == Spec => []Singleflight
<1>1. Init => Singleflight
  BY HomeAssumption DEF Init, Singleflight, InFlight, FlightPhases
<1> QED
  BY <1>1, TypeCorrect, NextKeepsSingleflight, PTL DEF Spec

(***************************************************************************)
(* Versions identify generations.  The property is not inductive alone: a  *)
(* missing row must be the empty record, so that a logout of a missing row *)
(* disturbs no call, and what a flight loaded was never quarantined.       *)
(***************************************************************************)

MissingIsEmpty == ~Present(rec) => rec = NoRecord
FlightsLoadHealthy ==
  \A c \in Calls : pc[c] \in {"flPost", "flCas", "flQuarantine"} => ~cur[c].q
GenerationInv == VersionIdentifiesGeneration /\ MissingIsEmpty /\ FlightsLoadHealthy

(* While the row stands still, a call may drop what it holds or keep it.    *)
LEMMA SameRowKeepsGenerations ==
  ASSUME TypeOK, GenerationInv, rec' = rec,
         \A d \in Calls : HoldsLoaded(d)' /\ kept'[d] =>
           HoldsLoaded(d) /\ kept[d] /\ cur'[d] = cur[d],
         \A d \in Calls : pc'[d] \in {"flPost", "flCas", "flQuarantine"} =>
           pc[d] \in {"flPost", "flCas", "flQuarantine"} /\ cur'[d] = cur[d]
  PROVE  GenerationInv'
BY DEF GenerationInv, VersionIdentifiesGeneration, MissingIsEmpty, FlightsLoadHealthy,
       HoldsLoaded, Present

(* The two ways a call moves on, when it does not load.                     *)
LEMMA EndKeepsGenerations ==
  ASSUME TypeOK, GenerationInv, NEW c \in Calls, NEW phase \in {"done", "settle", "abandoned"},
         NEW o, End(c, phase, o), rec' = rec
  PROVE  GenerationInv'
BY SameRowKeepsGenerations DEF End, Goto, HoldsLoaded, TypeOK

LEMMA ContinueKeepsGenerations ==
  ASSUME TypeOK, GenerationInv, NEW c \in Calls, NEW phase,
         Continue(c, phase), rec' = rec,
         \/ ~(phase \in {"flPost", "flCas", "flQuarantine", "freshCas"})
         \/ pc[c] = "flPost" /\ phase = "flQuarantine"
  PROVE  GenerationInv'
BY SameRowKeepsGenerations DEF Continue, Goto, HoldsLoaded, TypeOK, locals

(* A successful compare-and-swap: every other call is left behind.          *)
LEMMA SwapKeepsGenerations ==
  ASSUME TypeOK, GenerationInv, NEW c \in Calls, NEW phase \in {"done", "settle"}, NEW o,
         NEW r \in Record, Swap(cur[c].ver, r), End(c, phase, o)
  PROVE  GenerationInv'
<1>1. rec \in Record /\ rec.ver \in Nat /\ rec'.ver = rec.ver + 1
  BY DEF Swap, TypeOK, Record
<1>2. \A d \in Calls : cur[d].ver \in Nat
  BY DEF TypeOK, Record
<1>3. \A d \in Calls : d # c => pc'[d] = pc[d] /\ cur'[d] = cur[d] /\ kept'[d] = kept[d]
  BY DEF End, Goto, TypeOK
<1>4. pc'[c] = phase
  BY DEF End, Goto, TypeOK
<1>5. \A d \in Calls : HoldsLoaded(d)' /\ kept'[d] => cur'[d].ver < rec'.ver
  BY <1>1, <1>2, <1>3, <1>4 DEF HoldsLoaded, GenerationInv, VersionIdentifiesGeneration
<1>6. VersionIdentifiesGeneration'
  BY <1>1, <1>2, <1>3, <1>4, <1>5 DEF VersionIdentifiesGeneration, HoldsLoaded
<1>7. FlightsLoadHealthy'
  BY <1>3, <1>4 DEF FlightsLoadHealthy, GenerationInv
<1>8. MissingIsEmpty'
  BY <1>1 DEF MissingIsEmpty, Present
<1> QED
  BY <1>6, <1>7, <1>8 DEF GenerationInv

(* A load: the call holds what is stored.                                   *)
LEMMA LoadKeepsGenerations ==
  ASSUME TypeOK, GenerationInv, NEW c \in Calls, rec' = rec,
         cur' = [cur EXCEPT ![c] = rec],
         \A d \in Calls : d # c => pc'[d] = pc[d] /\ kept'[d] = kept[d],
         pc'[c] \in {"flPost", "flCas", "flQuarantine"} => ~rec.q
  PROVE  GenerationInv'
<1>1. cur'[c] = rec /\ rec.ver \in Nat
  BY DEF TypeOK, Record
<1>2. \A d \in Calls : d # c => cur'[d] = cur[d]
  BY DEF TypeOK
<1> QED
  BY <1>1, <1>2 DEF GenerationInv, VersionIdentifiesGeneration, MissingIsEmpty,
                    FlightsLoadHealthy, HoldsLoaded, Present

LEMMA LogoutKeepsGenerations ==
  ASSUME TypeOK, GenerationInv, NEW c \in Calls, Logout(c)
  PROVE  GenerationInv'
<1>1. pc' = [pc EXCEPT ![c] = "done"] /\ cur' = cur /\ rec' = NoRecord
  BY DEF Logout, Goto
<1>2. CASE Present(rec)
  <2>1. \A d \in Calls : ~kept'[d]
    BY <1>2 DEF Logout
  <2> QED
    BY <1>1, <2>1 DEF GenerationInv, VersionIdentifiesGeneration, MissingIsEmpty,
                      FlightsLoadHealthy, TypeOK
<1>3. CASE ~Present(rec)
  <2>1. rec' = rec
    BY <1>1, <1>3 DEF GenerationInv, MissingIsEmpty
  <2>2. \A d \in Calls : kept'[d] => kept[d]
    BY DEF Logout
  <2> QED
    BY <1>1, <2>1, <2>2, SameRowKeepsGenerations DEF HoldsLoaded, TypeOK
<1> QED
  BY <1>2, <1>3

LEMMA DeathKeepsGenerations ==
  ASSUME TypeOK, GenerationInv, NEW p \in Procs, Dies(p)
  PROVE  GenerationInv'
BY SameRowKeepsGenerations DEF Dies, HoldsLoaded, locals

LEMMA DeviceKeepsGenerations ==
  ASSUME TypeOK, GenerationInv, NEW c \in Calls, DeviceStep(c)
  PROVE  GenerationInv'
<1>1. CASE DeviceStarted(c) \/ DevicePolls(c) \/ DevicePending(c) \/ DeviceAuthorized(c)
  BY <1>1, ContinueKeepsGenerations
  DEF DeviceStarted, DevicePolls, DevicePending, DeviceAuthorized, Moves
<1>2. CASE DeviceExpires(c) \/ DeviceFails(c)
  BY <1>2, EndKeepsGenerations DEF DeviceExpires, DeviceFails, Stops, Return
<1> QED
  BY <1>1, <1>2 DEF DeviceStep

LEMMA LoopbackKeepsGenerations ==
  ASSUME TypeOK, GenerationInv, NEW c \in Calls, LoopbackStep(c)
  PROVE  GenerationInv'
<1>1. CASE CallbackEarly(c) \/ Opened(c) \/ CallbackUnwanted(c)
  BY <1>1, ContinueKeepsGenerations DEF CallbackEarly, Opened, CallbackUnwanted, Moves
<1>2. CASE OpenFails(c)
  BY <1>2, EndKeepsGenerations DEF OpenFails, Stops, Return
<1>3. CASE \E disabled \in SwitchAnswers : CallbackTaken(c, disabled)
  BY <1>3, EndKeepsGenerations, ContinueKeepsGenerations DEF CallbackTaken, Stops, Moves, Return
<1>4. CASE ListenerFails(c)
  BY <1>4, EndKeepsGenerations, DeathKeepsGenerations, HomeAssumption
  DEF ListenerFails, Stops, Return
<1> QED
  BY <1>1, <1>2, <1>3, <1>4 DEF LoopbackStep

LEMMA NextKeepsGenerations == TypeOK /\ GenerationInv /\ [Next]_vars => GenerationInv'
<1> SUFFICES ASSUME TypeOK, GenerationInv, [Next]_vars PROVE GenerationInv'
  OBVIOUS
<1>1. ASSUME NEW c \in Calls, Step(c) PROVE GenerationInv'
  <2>1. CASE GetLoad(c)
    BY <2>1, EndKeepsGenerations, ContinueKeepsGenerations DEF GetLoad, Return
  <2>2. CASE Join(c)
    BY <2>2, ContinueKeepsGenerations DEF Join
  <2>3. CASE Logout(c)
    BY <2>3, LogoutKeepsGenerations
  <2>4. CASE FlightLoad(c)
    <3>1. CASE pc'[c] = "settle"
      BY <2>4, <3>1, EndKeepsGenerations DEF FlightLoad, Finish, Goto, TypeOK
    <3>2. CASE pc'[c] # "settle"
      <4>1. /\ cur' = [cur EXCEPT ![c] = rec] /\ kept' = [kept EXCEPT ![c] = TRUE]
            /\ pc' = [pc EXCEPT ![c] = "flPost"] /\ rec' = rec /\ ~rec.q
        BY <2>4, <3>2 DEF FlightLoad, Finish, End, Goto, TypeOK
      <4> QED
        BY <4>1, LoadKeepsGenerations DEF TypeOK
    <3> QED
      BY <3>1, <3>2
  <2>5. CASE Post(c)
    <3>1. CASE \E rotates \in BOOLEAN : RefreshSucceeds(c, rotates)
      BY <3>1, SameRowKeepsGenerations DEF RefreshSucceeds, Goto, HoldsLoaded, TypeOK
    <3>2. ASSUME NEW retriable \in BOOLEAN, AttemptFails(c, retriable), rec' = rec
          PROVE  GenerationInv'
      <4>1. CASE UNCHANGED <<pc, cur, kept>>
        BY <3>2, <4>1, SameRowKeepsGenerations DEF HoldsLoaded
      <4>2. CASE Finish(c, FailsWith("failed"))
        BY <3>2, <4>2, EndKeepsGenerations DEF Finish
      <4> QED
        BY <3>2, <4>1, <4>2 DEF AttemptFails
    <3>3. CASE \E retriable \in BOOLEAN : RefreshFails(c, retriable)
      BY <3>2, <3>3 DEF RefreshFails
    <3>4. CASE \E retriable \in BOOLEAN : RefreshAnswerLost(c, retriable)
      BY <3>2, <3>4 DEF RefreshAnswerLost
    <3>5. CASE RefreshRejected(c)
      BY <3>5, ContinueKeepsGenerations DEF RefreshRejected
    <3> QED
      BY <2>5, <3>1, <3>3, <3>4, <3>5 DEF Post
  <2>6. nxt[c] \in Record /\ [cur[c] EXCEPT !.q = TRUE] \in Record
    BY RenumberedTyped DEF TypeOK
  <2>7. CASE RefreshCas(c)
    BY <2>6, <2>7, SwapKeepsGenerations, EndKeepsGenerations DEF RefreshCas, Finish
  <2>8. CASE QuarantineCas(c)
    BY <2>6, <2>8, SwapKeepsGenerations, EndKeepsGenerations DEF QuarantineCas, Finish
  <2>9. CASE Settle(c)
    <3>1. \A d \in Calls : pc'[d] = pc[d] \/ pc'[d] \in {"join", "done"}
      BY <2>9 DEF Settle
    <3>2. rec' = rec /\ cur' = cur /\ kept' = kept
      BY <2>9 DEF Settle, locals
    <3> QED
      BY <3>1, <3>2, SameRowKeepsGenerations DEF HoldsLoaded
  <2>10. CASE \E disabled \in SwitchAnswers : CodeExchanged(c, disabled)
    <3> PICK disabled \in SwitchAnswers : CodeExchanged(c, disabled)
      BY <2>10
    <3>1. CASE op[c] = "device" /\ disabled
      BY <3>1, EndKeepsGenerations DEF CodeExchanged, Return
    <3>2. CASE ~(op[c] = "device" /\ disabled)
      BY <3>2, SameRowKeepsGenerations DEF CodeExchanged, Goto, HoldsLoaded, TypeOK
    <3> QED
      BY <3>1, <3>2
  <2>11. CASE CodeRejected(c)
    BY <2>11, EndKeepsGenerations DEF CodeRejected, Return
  <2>12. CASE FreshLoad(c)
    BY <2>12, LoadKeepsGenerations DEF FreshLoad, Goto, TypeOK
  <2>13. CASE FreshCas(c)
    BY <2>6, <2>13, SwapKeepsGenerations, EndKeepsGenerations DEF FreshCas, Return
  <2>14. CASE StoreFails(c)
    BY <2>14, EndKeepsGenerations DEF StoreFails, Return, Finish
  <2>15. CASE DeviceStep(c) \/ LoopbackStep(c)
    BY <2>15, DeviceKeepsGenerations, LoopbackKeepsGenerations
  <2> QED
    BY <2>15, <1>1, <2>1, <2>2, <2>3, <2>4, <2>5, <2>7, <2>8, <2>9, <2>10, <2>11, <2>12, <2>13, <2>14
    DEF Step
<1>2. ASSUME NEW c \in Calls, NEW o \in Ops, NEW disabled \in SwitchAnswers,
             Start(c, o, disabled)
      PROVE  GenerationInv'
  BY <1>2, EndKeepsGenerations, ContinueKeepsGenerations DEF Start, Return
<1>3. CASE Expire
  BY <1>3, SameRowKeepsGenerations DEF Expire, HoldsLoaded, locals
<1>4. ASSUME NEW p \in Procs, Crash(p) PROVE GenerationInv'
  BY <1>4, DeathKeepsGenerations DEF Crash
<1>5. CASE UNCHANGED vars
  BY <1>5, SameRowKeepsGenerations DEF vars, HoldsLoaded
<1> QED
  BY <1>1, <1>2, <1>3, <1>4, <1>5 DEF Next, Environment

LEMMA InitGenerations == Init => GenerationInv
BY DEF Init, GenerationInv, VersionIdentifiesGeneration, MissingIsEmpty, FlightsLoadHealthy,
       HoldsLoaded, NoRecord, Present

(* While the row is not removed, a version stands for one content: a call   *)
(* whose expected version still matches holds exactly what is stored.       *)
THEOREM VersionsIdentifyGenerations == Spec => []VersionIdentifiesGeneration
<1>1. GenerationInv => VersionIdentifiesGeneration
  BY DEF GenerationInv
<1> QED
  BY <1>1, InitGenerations, TypeCorrect, NextKeepsGenerations, PTL DEF Spec

(***************************************************************************)
(* What a flight writes.  Both action properties follow from the           *)
(* invariant: the write of a flight is a compare-and-swap on the version   *)
(* it loaded.                                                              *)
(***************************************************************************)

(* Only the two compare-and-swaps of a flight write from its phases.        *)
LEMMA LoginsWaitWithoutWriting ==
  ASSUME NEW c \in Calls, DeviceStep(c) \/ LoopbackStep(c)
  PROVE  rec' = rec
BY DEF DeviceStep, DeviceStarted, DevicePolls, DevicePending, DeviceAuthorized, DeviceExpires,
       DeviceFails, LoopbackStep, CallbackEarly, Opened, OpenFails, CallbackTaken, ListenerFails,
       CallbackUnwanted, Moves, Stops, Dies

LEMMA FlightWritesBySwap ==
  ASSUME TypeOK, [Next]_vars, NEW c \in Calls, FlightWrote(c)
  PROVE  rec.ver = cur[c].ver
<1>1. pc[c] \in {"flCas", "flQuarantine"} /\ pc'[c] # pc[c] /\ rec' # rec
  BY DEF FlightWrote
<1>2. ASSUME NEW d \in Calls, Step(d) PROVE rec.ver = cur[c].ver
  <2>1. CASE d = c
    BY <1>1, <1>2, <2>1, LoginsWaitWithoutWriting
    DEF Step, GetLoad, Join, Logout, FlightLoad, Post, RefreshSucceeds, RefreshFails,
        RefreshAnswerLost, RefreshRejected, RefreshCas, QuarantineCas, Swap, Settle,
        CodeExchanged, CodeRejected, FreshLoad, FreshCas, StoreFails
  <2>2. CASE d # c
    <3>1. pc' = [pc EXCEPT ![d] = pc'[d]] \/ rec' = rec
      BY <1>2, LoginsWaitWithoutWriting DEF Step, GetLoad, Join, Logout, FlightLoad, Post, RefreshSucceeds,
        RefreshFails, RefreshAnswerLost, RefreshRejected, RefreshCas, QuarantineCas,
        Settle, CodeExchanged, CodeRejected, FreshLoad, FreshCas, StoreFails,
        Finish, Return, End, Goto, TypeOK
    <3> QED
      BY <1>1, <2>2, <3>1 DEF TypeOK
  <2> QED
    BY <2>1, <2>2
<1>3. (\E d \in Calls, o \in Ops, disabled \in SwitchAnswers : Start(d, o, disabled))
      \/ Environment \/ UNCHANGED vars => rec' = rec
  BY DEF Start, Environment, Expire, Crash, Dies, vars
<1> QED
  BY <1>1, <1>2, <1>3 DEF Next

LEMMA FlightWritesOverLoaded ==
  ASSUME TypeOK, GenerationInv, [Next]_vars, NEW c \in Calls, FlightWrote(c), kept[c]
  PROVE  rec = cur[c] /\ ~Quarantined(rec)
<1>1. pc[c] \in {"flCas", "flQuarantine"}
  BY DEF FlightWrote
<1>2. rec.ver = cur[c].ver
  BY FlightWritesBySwap
<1> QED
  BY <1>1, <1>2 DEF GenerationInv, VersionIdentifiesGeneration, FlightsLoadHealthy,
                    HoldsLoaded, Quarantined

(* A refresh or a quarantine marker replaces the very generation its flight *)
(* loaded, as long as the row is not removed.                               *)
THEOREM FlightsReplaceWhatTheyLoaded == Spec => WritesReplaceLoaded
<1>1. TypeOK /\ GenerationInv /\ [Next]_vars =>
        [\A c \in Calls : FlightWrote(c) /\ kept[c] => rec = cur[c]]_vars
  BY FlightWritesOverLoaded
<1> QED
  BY <1>1, InitGenerations, TypeCorrect, NextKeepsGenerations, PTL
  DEF Spec, WritesReplaceLoaded

(* No flight clears a quarantine, as long as the row is not removed.        *)
THEOREM FlightsKeepQuarantine == Spec => QuarantineSticks
<1>1. TypeOK /\ GenerationInv /\ [Next]_vars =>
        [\A c \in Calls : FlightWrote(c) /\ kept[c] => ~Quarantined(rec)]_vars
  BY FlightWritesOverLoaded
<1> QED
  BY <1>1, InitGenerations, TypeCorrect, NextKeepsGenerations, PTL
  DEF Spec, QuarantineSticks

(***************************************************************************)
(* What a call ends with.  A step of a call leaves the other calls alone,  *)
(* unless it settles a flight or its process dies, so what has to be shown *)
(* of a step is what it does to the call that takes it.                    *)
(***************************************************************************)

Alike(d) ==
  /\ pc'[d] = pc[d] /\ op'[d] = op[d] /\ res'[d] = res[d]
  /\ cur'[d] = cur[d] /\ nxt'[d] = nxt[d]
OthersAlike(c) == \A d \in Calls \ {c} : Alike(d)

LEMMA EndIsLocal ==
  ASSUME TypeOK, NEW c \in Calls, NEW phase, NEW o, End(c, phase, o), op' = op
  PROVE  OthersAlike(c) /\ pc'[c] = phase /\ res'[c] = o
BY DEF TypeOK, End, Goto, OthersAlike, Alike

LEMMA ContinueIsLocal ==
  ASSUME TypeOK, NEW c \in Calls, NEW phase, Continue(c, phase), op' = op
  PROVE  /\ OthersAlike(c) /\ pc'[c] = phase /\ op'[c] = op[c]
         /\ res'[c] = res[c] /\ cur'[c] = cur[c] /\ nxt'[c] = nxt[c]
BY DEF TypeOK, Continue, Goto, locals, OthersAlike, Alike

(* A login that waits for its user ends with a failure, if it ends.         *)
LoginWaits(c) ==
  /\ UNCHANGED <<rec, server, stale, flights, op, joined>>
  /\ OthersAlike(c)
  /\ pc[c] \in LoginPhases
  /\ \/ /\ pc'[c] \in LoginPhases \ {"freshLoad", "freshCas", "abandoned"}
        /\ res'[c] = res[c]
     \/ pc'[c] = "done" /\ res'[c] = res[c] /\ pc[c] = "abandoned"
     \/ pc'[c] \in {"done", "abandoned"} /\ res'[c].kind \in {"failed", "auth", "disabled"}

LEMMA DeviceWaits ==
  ASSUME TypeOK, NEW c \in Calls, DeviceStep(c)
  PROVE  LoginWaits(c)
<1>1. CASE DeviceStarted(c) \/ DevicePolls(c) \/ DevicePending(c) \/ DeviceAuthorized(c)
  BY <1>1, ContinueIsLocal
  DEF LoginWaits, DeviceStarted, DevicePolls, DevicePending, DeviceAuthorized, Moves,
      LoginPhases, DevicePhases
<1>2. CASE DeviceExpires(c) \/ DeviceFails(c)
  BY <1>2, EndIsLocal
  DEF LoginWaits, DeviceExpires, DeviceFails, Stops, Return, FailsWith, LoginPhases, DevicePhases
<1> QED
  BY <1>1, <1>2 DEF DeviceStep

LEMMA LoopbackWaits ==
  ASSUME TypeOK, NEW c \in Calls, LoopbackStep(c)
  PROVE  pc[c] \in LoopbackPhases /\ (LoginWaits(c) \/ Dies(Home[c]))
<1> USE DEF LoginPhases, LoopbackPhases
<1>1. CASE CallbackEarly(c) \/ Opened(c) \/ CallbackUnwanted(c)
  BY <1>1, ContinueIsLocal
  DEF LoginWaits, CallbackEarly, Opened, CallbackUnwanted, Moves
<1>2. CASE OpenFails(c)
  BY <1>2, EndIsLocal DEF LoginWaits, OpenFails, Stops, Return, FailsWith
<1>3. CASE \E disabled \in SwitchAnswers : CallbackTaken(c, disabled)
  BY <1>3, EndIsLocal, ContinueIsLocal
  DEF LoginWaits, CallbackTaken, Stops, Moves, Return, FailsWith
<1>4. CASE ListenerFails(c)
  BY <1>4, EndIsLocal DEF LoginWaits, ListenerFails, Stops, Return, FailsWith
<1> QED
  BY <1>1, <1>2, <1>3, <1>4 DEF LoopbackStep

LEMMA StartDoes ==
  ASSUME TypeOK, NEW c \in Calls, NEW o \in Ops, NEW disabled \in SwitchAnswers,
         Start(c, o, disabled)
  PROVE  /\ UNCHANGED <<rec, server, stale, flights, joined>>
         /\ \A d \in Calls \ {c} : Alike(d)
         /\ op'[c] = o
         /\ \/ pc'[c] = "done" /\ res'[c] = FailsWith("disabled")
            \/ /\ res'[c] = res[c]
               /\ \/ o = "get" /\ pc'[c] = "getLoad"
                  \/ o = "force" /\ pc'[c] = "join"
                  \/ o = "logout" /\ pc'[c] = "delete"
                  \/ o = "device" /\ pc'[c] = "devStart"
                  \/ o = "loopback" /\ pc'[c] = "loopOpen"
                  \/ o = "login" /\ pc'[c] = "exchange"
<1>1. o \in AllOps /\ \A d \in Calls \ {c} : op'[d] = op[d]
  BY OpsAssumption DEF Start, TypeOK
<1>2. op'[c] = o
  BY DEF Start, TypeOK
<1>3. CASE disabled /\ o \notin {"logout", "loopback"}
  <2>1. pc' = [pc EXCEPT ![c] = "done"] /\ res' = [res EXCEPT ![c] = FailsWith("disabled")]
        /\ cur' = [cur EXCEPT ![c] = NoRecord] /\ nxt' = [nxt EXCEPT ![c] = NoRecord]
    BY <1>3 DEF Start, Return, End, Goto
  <2> QED
    BY <1>1, <1>2, <2>1 DEF Start, TypeOK, Alike
<1>4. CASE ~(disabled /\ o \notin {"logout", "loopback"})
  <2>1. UNCHANGED <<res, cur, nxt>>
    BY <1>4 DEF Start, Continue, locals
  <2>2. \A d \in Calls \ {c} : pc'[d] = pc[d]
    BY <1>4 DEF Start, Continue, Goto, TypeOK
  <2>3. \/ o = "get" /\ pc'[c] = "getLoad"
        \/ o = "force" /\ pc'[c] = "join"
        \/ o = "logout" /\ pc'[c] = "delete"
        \/ o = "device" /\ pc'[c] = "devStart"
        \/ o = "loopback" /\ pc'[c] = "loopOpen"
        \/ o = "login" /\ pc'[c] = "exchange"
    BY <1>1, <1>4 DEF Start, Continue, Goto, TypeOK, AllOps
  <2> QED
    BY <1>1, <1>2, <2>1, <2>2, <2>3 DEF Start, Alike
<1> QED
  BY <1>3, <1>4

LEMMA AttemptIsLocal ==
  ASSUME TypeOK, NEW c \in Calls, NEW retriable, AttemptFails(c, retriable), op' = op,
         pc[c] = "flPost"
  PROVE  /\ OthersAlike(c)
         /\ \/ Alike(c)
            \/ pc'[c] = "settle" /\ res'[c] = FailsWith("failed")
<1>1. CASE retriable /\ attempt[c] < 2
  BY <1>1 DEF AttemptFails, OthersAlike, Alike
<1>2. CASE ~(retriable /\ attempt[c] < 2)
  BY <1>2, EndIsLocal DEF AttemptFails, Finish
<1> QED
  BY <1>1, <1>2

(* What a call is about to write carries the number the store will give it. *)
WritesAreNumbered ==
  \A c \in Calls : pc[c] \in {"flCas", "freshCas"} => nxt[c].ver = cur[c].ver + 1

LEMMA LocalStepKeepsNumbers ==
  ASSUME WritesAreNumbered, NEW c \in Calls, OthersAlike(c),
         pc'[c] \in {"flCas", "freshCas"} => nxt'[c].ver = cur'[c].ver + 1
  PROVE  WritesAreNumbered'
BY DEF WritesAreNumbered, OthersAlike, Alike

LEMMA EndKeepsNumbers ==
  ASSUME TypeOK, WritesAreNumbered, NEW c \in Calls, NEW phase \in {"done", "settle", "abandoned"},
         NEW o, End(c, phase, o)
  PROVE  WritesAreNumbered'
BY DEF End, Goto, WritesAreNumbered, TypeOK

LEMMA ContinueKeepsNumbers ==
  ASSUME TypeOK, WritesAreNumbered, NEW c \in Calls, NEW phase, phase \notin {"flCas", "freshCas"},
         Continue(c, phase)
  PROVE  WritesAreNumbered'
BY DEF Continue, Goto, locals, WritesAreNumbered, TypeOK

LEMMA StepKeepsNumbers ==
  ASSUME TypeOK, WritesAreNumbered, NEW c \in Calls, Step(c)
  PROVE  WritesAreNumbered'
<1>1. CASE GetLoad(c) \/ Join(c)
  BY <1>1, EndKeepsNumbers, ContinueKeepsNumbers DEF GetLoad, Join, Return
<1>2. CASE Logout(c)
  BY <1>2 DEF Logout, Goto, WritesAreNumbered, TypeOK
<1>3. CASE FlightLoad(c)
  <2>1. CASE \E o : Finish(c, o)
    BY <1>3, <2>1, EndKeepsNumbers DEF FlightLoad, Finish
  <2>2. CASE ~\E o : Finish(c, o)
    <3>1. cur' = [cur EXCEPT ![c] = rec] /\ pc' = [pc EXCEPT ![c] = "flPost"]
          /\ UNCHANGED <<nxt, res, op>>
      BY <1>3, <2>2 DEF FlightLoad, Goto
    <3> QED
      BY <3>1, LocalStepKeepsNumbers DEF OthersAlike, Alike, TypeOK
  <2> QED
    BY <2>1, <2>2
<1>4. CASE Post(c)
  <2>1. CASE \E rotates \in BOOLEAN : RefreshSucceeds(c, rotates)
    BY <2>1 DEF RefreshSucceeds, Goto, WritesAreNumbered, TypeOK
  <2>2. CASE \E retriable \in BOOLEAN : RefreshFails(c, retriable) \/ RefreshAnswerLost(c, retriable)
    <3>1. PICK retriable \in BOOLEAN : AttemptFails(c, retriable) /\ op' = op /\ pc[c] = "flPost"
      BY <2>2 DEF RefreshFails, RefreshAnswerLost
    <3> QED
      BY <3>1, AttemptIsLocal, LocalStepKeepsNumbers DEF Alike
  <2>3. CASE RefreshRejected(c)
    BY <2>3, ContinueKeepsNumbers DEF RefreshRejected
  <2> QED
    BY <1>4, <2>1, <2>2, <2>3 DEF Post
<1>5. CASE RefreshCas(c) \/ QuarantineCas(c)
  BY <1>5, EndKeepsNumbers DEF RefreshCas, QuarantineCas, Finish
<1>6. CASE Settle(c)
  <2>1. cur' = cur /\ nxt' = nxt /\ \A d \in Calls : pc'[d] \in {pc[d], "join", "done"}
    BY <1>6 DEF Settle, locals
  <2> QED
    BY <2>1 DEF WritesAreNumbered
<1>7. CASE \E disabled \in SwitchAnswers : CodeExchanged(c, disabled)
  <2> PICK disabled \in SwitchAnswers : CodeExchanged(c, disabled)
    BY <1>7
  <2>1. CASE op[c] = "device" /\ disabled
    BY <2>1, EndKeepsNumbers DEF CodeExchanged, Return
  <2>2. CASE ~(op[c] = "device" /\ disabled)
    BY <2>2 DEF CodeExchanged, Goto, WritesAreNumbered, TypeOK
  <2> QED
    BY <2>1, <2>2
<1>8. CASE CodeRejected(c)
  BY <1>8, EndKeepsNumbers DEF CodeRejected, Return
<1>9. CASE FreshLoad(c)
  BY <1>9 DEF FreshLoad, Goto, WritesAreNumbered, TypeOK, Record
<1>10. CASE FreshCas(c) \/ StoreFails(c)
  BY <1>10, EndKeepsNumbers DEF FreshCas, StoreFails, Return, Finish
<1>11. CASE LoginWaits(c)
  BY <1>11, LocalStepKeepsNumbers
  DEF LoginWaits, LoginPhases, DevicePhases, LoopbackPhases
<1>12. CASE Dies(Home[c])
  BY <1>12 DEF Dies, WritesAreNumbered, locals
<1> QED
  BY <1>1, <1>2, <1>3, <1>4, <1>5, <1>6, <1>7, <1>8, <1>9, <1>10, <1>11, <1>12,
     DeviceWaits, LoopbackWaits DEF Step

LEMMA NextKeepsNumbers == TypeOK /\ WritesAreNumbered /\ [Next]_vars => WritesAreNumbered'
<1> SUFFICES ASSUME TypeOK, WritesAreNumbered, [Next]_vars PROVE WritesAreNumbered'
  OBVIOUS
<1>1. ASSUME NEW c \in Calls, Step(c) PROVE WritesAreNumbered'
  BY <1>1, StepKeepsNumbers
<1>2. ASSUME NEW c \in Calls, NEW o \in Ops, NEW disabled \in SwitchAnswers,
             Start(c, o, disabled)
      PROVE  WritesAreNumbered'
  BY <1>2, StartDoes DEF WritesAreNumbered, Alike
<1>3. CASE Expire \/ UNCHANGED vars
  BY <1>3 DEF Expire, vars, locals, WritesAreNumbered
<1>4. ASSUME NEW p \in Procs, Crash(p) PROVE WritesAreNumbered'
  BY <1>4 DEF Crash, Dies, WritesAreNumbered, locals
<1> QED
  BY <1>1, <1>2, <1>3, <1>4 DEF Next, Environment

(* A call that ends with a token it did not get from a flight has just read *)
(* it from the store, or just stored it.                                    *)
HandsOut ==
  \A c \in Calls : res'[c] # res[c] /\ res'[c].kind = "token" =>
    res'[c].tok = rec' \/ \E d \in Calls : res[d] = res'[c]

LEMMA LocalStepHandsOut ==
  ASSUME NEW c \in Calls, OthersAlike(c),
         res'[c] = res[c] \/ res'[c].kind # "token" \/ res'[c].tok = rec'
  PROVE  HandsOut
BY DEF HandsOut, OthersAlike, Alike

LEMMA EndHandsOut ==
  ASSUME TypeOK, NEW c \in Calls, NEW phase, NEW o, End(c, phase, o), op' = op,
         o.kind # "token" \/ o.tok = rec'
  PROVE  HandsOut
BY EndIsLocal, LocalStepHandsOut

LEMMA OutcomesSay ==
  /\ \A r : Gets(r, TRUE).tok = r /\ Gets(r, FALSE).tok = r
  /\ \A k : FailsWith(k).kind = k
BY DEF Gets, FailsWith

LEMMA SwapStores ==
  ASSUME TypeOK, WritesAreNumbered, NEW c \in Calls, pc[c] \in {"flCas", "freshCas"},
         Swap(cur[c].ver, nxt[c])
  PROVE  rec' = nxt[c]
<1>1. nxt[c].ver = cur[c].ver + 1 /\ nxt[c] \in Record
  BY DEF WritesAreNumbered, TypeOK
<1> QED
  BY <1>1 DEF Swap, Record

LEMMA StepHandsOut ==
  ASSUME TypeOK, WritesAreNumbered, NEW c \in Calls, Step(c)
  PROVE  HandsOut
<1> USE OutcomesSay
<1>2. CASE res' = res
  BY <1>2 DEF HandsOut
<1>1. CASE GetLoad(c) \/ Join(c)
  <2>1. CASE GetLoad(c)
    <3>1. UNCHANGED <<rec, op>>
      BY <2>1 DEF GetLoad
    <3>2. \/ Return(c, FailsWith("reauth")) \/ Return(c, Gets(rec, FALSE))
          \/ Continue(c, "join")
      BY <2>1 DEF GetLoad
    <3> QED
      BY <3>1, <3>2, <1>2, EndHandsOut DEF Return, Continue
  <2>2. CASE Join(c)
    BY <2>2, <1>2 DEF Join, Continue
  <2> QED
    BY <1>1, <2>1, <2>2
<1>3. CASE FlightLoad(c)
  <2>1. UNCHANGED <<rec, op>>
    BY <1>3 DEF FlightLoad
  <2>2. Finish(c, FailsWith("reauth")) \/ Finish(c, Gets(rec, FALSE)) \/ res' = res
    BY <1>3 DEF FlightLoad
  <2> QED
    BY <2>1, <2>2, <1>2, EndHandsOut DEF Finish
<1>4. CASE Post(c)
  <2>1. CASE \E retriable \in BOOLEAN : RefreshFails(c, retriable) \/ RefreshAnswerLost(c, retriable)
    <3>1. PICK retriable \in BOOLEAN : AttemptFails(c, retriable) /\ op' = op /\ pc[c] = "flPost"
      BY <2>1 DEF RefreshFails, RefreshAnswerLost
    <3> QED
      BY <3>1, AttemptIsLocal, LocalStepHandsOut DEF Alike
  <2> QED
    BY <1>2, <1>4, <2>1 DEF Post, RefreshSucceeds, RefreshRejected, Continue
<1>5. CASE RefreshCas(c)
  <2>1. CASE Swap(cur[c].ver, nxt[c]) /\ Finish(c, Gets(nxt[c], TRUE))
    <3>1. rec' = nxt[c] /\ op' = op
      BY <1>5, <2>1, SwapStores DEF RefreshCas
    <3> QED
      BY <2>1, <3>1, EndHandsOut DEF Finish
  <2>2. CASE Finish(c, Adopt) /\ UNCHANGED <<rec, stale>>
    <3>1. rec' = rec /\ op' = op
      BY <1>5, <2>2 DEF RefreshCas
    <3>2. Adopt.kind # "token" \/ Adopt.tok = rec
      <4>1. Adopt = Gets(rec, TRUE) \/ Adopt = FailsWith("reauth")
        BY DEF Adopt
      <4> QED
        BY <4>1 DEF Gets, FailsWith
    <3> QED
      BY <2>2, <3>1, <3>2, EndHandsOut DEF Finish
  <2> QED
    BY <1>5, <2>1, <2>2 DEF RefreshCas
<1>6. CASE QuarantineCas(c)
  BY <1>6, EndHandsOut DEF QuarantineCas, Finish, Adopt
<1>7. CASE Settle(c)
  BY <1>7 DEF Settle, HandsOut
<1>8. CASE \E disabled \in SwitchAnswers : CodeExchanged(c, disabled)
  <2> PICK disabled \in SwitchAnswers : CodeExchanged(c, disabled)
    BY <1>8
  <2>1. CASE op[c] = "device" /\ disabled
    BY <2>1, EndHandsOut DEF CodeExchanged, Return
  <2> QED
    BY <1>2, <2>1 DEF CodeExchanged
<1>9. CASE CodeRejected(c) \/ StoreFails(c)
  BY <1>9, EndHandsOut DEF CodeRejected, StoreFails, Return, Finish
<1>10. CASE FreshCas(c)
  <2>1. CASE Swap(cur[c].ver, nxt[c]) /\ Return(c, Gets(nxt[c], TRUE))
    <3>1. rec' = nxt[c] /\ op' = op
      BY <1>10, <2>1, SwapStores DEF FreshCas
    <3> QED
      BY <2>1, <3>1, EndHandsOut DEF Return
  <2>2. CASE /\ Return(c, IF Present(rec) THEN Gets(rec, TRUE) ELSE FailsWith("auth"))
             /\ UNCHANGED <<rec, stale>>
    <3>1. rec' = rec /\ op' = op
      BY <1>10, <2>2 DEF FreshCas
    <3> QED
      BY <2>2, <3>1, EndHandsOut DEF Return
  <2> QED
    BY <1>10, <2>1, <2>2 DEF FreshCas
<1>11. CASE LoginWaits(c)
  BY <1>11, LocalStepHandsOut DEF LoginWaits
<1>12. CASE Logout(c) \/ FreshLoad(c) \/ Dies(Home[c])
  BY <1>2, <1>12 DEF Logout, FreshLoad, Dies
<1> QED
  BY <1>1, <1>3, <1>4, <1>5, <1>6, <1>7, <1>8, <1>9, <1>10, <1>11, <1>12,
     DeviceWaits, LoopbackWaits DEF Step

LEMMA NextHandsOut == TypeOK /\ WritesAreNumbered /\ [Next]_vars => [HandsOut]_vars
<1> SUFFICES ASSUME TypeOK, WritesAreNumbered, Next PROVE HandsOut
  OBVIOUS
<1>1. ASSUME NEW c \in Calls, Step(c) PROVE HandsOut
  BY <1>1, StepHandsOut
<1>2. ASSUME NEW c \in Calls, NEW o \in Ops, NEW disabled \in SwitchAnswers,
             Start(c, o, disabled)
      PROVE  HandsOut
  BY <1>2, StartDoes DEF HandsOut, Alike, FailsWith
<1>3. CASE Environment
  BY <1>3 DEF Environment, Expire, Crash, Dies, HandsOut
<1> QED
  BY <1>1, <1>2, <1>3 DEF Next

(* No call is answered with a token the store did not hold at that moment;  *)
(* those who joined a flight are answered with what it ended with.          *)
THEOREM AnswersComeFromStore == Spec => TokensComeFromStore
<1>1. Init => WritesAreNumbered
  BY DEF Init, WritesAreNumbered
<1>2. [HandsOut]_vars => [\A c \in Calls : res'[c] # res[c] /\ res'[c].kind = "token" =>
                            res'[c].tok = rec' \/ \E d \in Calls : res[d] = res'[c]]_vars
  BY DEF HandsOut
<1> QED
  BY <1>1, <1>2, TypeCorrect, NextKeepsNumbers, NextHandsOut, PTL DEF Spec, TokensComeFromStore

(***************************************************************************)
(* A forced refresh.  Inductive: a forced call is never on the path that   *)
(* answers with the stored token, and whatever a forced call, or the       *)
(* flight it leads, has ended with went to the network.                    *)
(***************************************************************************)

Ended == {"settle", "done", "abandoned"}
ForcedInv ==
  /\ \A c \in Calls : pc[c] \in {"getLoad", "delete"} => ~Forced(c)
  /\ \A c \in Calls : pc[c] \in Ended /\ Forced(c) /\ res[c].kind = "token" => res[c].refreshed

LEMMA LocalStepKeepsForced ==
  ASSUME ForcedInv, NEW c \in Calls, \A d \in Calls \ {c} : Alike(d),
         pc'[c] \in {"getLoad", "delete"} => op'[c] # "force",
         pc'[c] \in Ended /\ op'[c] = "force" /\ res'[c].kind = "token" => res'[c].refreshed
  PROVE  ForcedInv'
BY DEF ForcedInv, Alike, Forced

LEMMA EndKeepsForced ==
  ASSUME TypeOK, ForcedInv, NEW c \in Calls, NEW phase \in Ended, NEW o,
         End(c, phase, o), op' = op,
         Forced(c) /\ o.kind = "token" => o.refreshed
  PROVE  ForcedInv'
BY EndIsLocal, LocalStepKeepsForced DEF Ended, OthersAlike, Forced

LEMMA ContinueKeepsForced ==
  ASSUME TypeOK, ForcedInv, NEW c \in Calls, NEW phase,
         Continue(c, phase), op' = op, phase \notin Ended \cup {"getLoad", "delete"}
  PROVE  ForcedInv'
BY ContinueIsLocal, LocalStepKeepsForced DEF OthersAlike

LEMMA OutcomesTell ==
  /\ FailsWith("reauth").kind # "token" /\ FailsWith("failed").kind # "token"
  /\ FailsWith("auth").kind # "token" /\ FailsWith("disabled").kind # "token"
  /\ \A r : Gets(r, TRUE).refreshed = TRUE
BY DEF FailsWith, Gets

LEMMA StepKeepsForced ==
  ASSUME TypeOK, ForcedInv, NEW c \in Calls, Step(c)
  PROVE  ForcedInv'
<1> USE OutcomesTell
<1>1. CASE GetLoad(c)
  <2>1. op' = op /\ ~Forced(c)
    BY <1>1 DEF GetLoad, ForcedInv
  <2>2. \/ Return(c, FailsWith("reauth")) \/ Return(c, Gets(rec, FALSE))
        \/ Continue(c, "join")
    BY <1>1 DEF GetLoad
  <2> QED
    BY <2>1, <2>2, EndKeepsForced, ContinueKeepsForced DEF Return, Ended
<1>2. CASE Join(c)
  BY <1>2, ContinueKeepsForced DEF Join, Ended
<1>3. CASE Logout(c)
  <2>1. op' = op /\ ~Forced(c) /\ OthersAlike(c) /\ pc'[c] = "done"
    BY <1>3 DEF Logout, Goto, ForcedInv, OthersAlike, Alike, TypeOK
  <2> QED
    BY <2>1, LocalStepKeepsForced DEF OthersAlike, Forced
<1>4. CASE FlightLoad(c)
  <2>1. op' = op
    BY <1>4 DEF FlightLoad
  <2>2. \/ Finish(c, FailsWith("reauth"))
        \/ Finish(c, Gets(rec, FALSE)) /\ ~Forced(c)
        \/ pc' = [pc EXCEPT ![c] = "flPost"] /\ UNCHANGED <<res, nxt>> /\ cur' = [cur EXCEPT ![c] = rec]
    BY <1>4 DEF FlightLoad, Goto
  <2>3. CASE pc' = [pc EXCEPT ![c] = "flPost"] /\ UNCHANGED <<res, nxt>> /\ cur' = [cur EXCEPT ![c] = rec]
    BY <2>1, <2>3, LocalStepKeepsForced DEF Alike, TypeOK, Ended
  <2> QED
    BY <2>1, <2>2, <2>3, EndKeepsForced DEF Finish, Ended
<1>5. CASE Post(c)
  <2>1. CASE \E rotates \in BOOLEAN : RefreshSucceeds(c, rotates)
    BY <2>1, LocalStepKeepsForced DEF RefreshSucceeds, Goto, Alike, TypeOK, Ended
  <2>2. CASE \E retriable \in BOOLEAN : RefreshFails(c, retriable) \/ RefreshAnswerLost(c, retriable)
    <3>1. PICK retriable \in BOOLEAN : AttemptFails(c, retriable) /\ op' = op /\ pc[c] = "flPost"
      BY <2>2 DEF RefreshFails, RefreshAnswerLost
    <3> QED
      BY <3>1, AttemptIsLocal, LocalStepKeepsForced DEF Alike, OthersAlike, Ended
  <2>3. CASE RefreshRejected(c)
    BY <2>3, ContinueKeepsForced DEF RefreshRejected, Ended
  <2> QED
    BY <1>5, <2>1, <2>2, <2>3 DEF Post
<1>6. Adopt.kind # "token" \/ Adopt.refreshed
  <2>1. Adopt = Gets(rec, TRUE) \/ Adopt = FailsWith("reauth")
    BY DEF Adopt
  <2> QED
    BY <2>1
<1>7. CASE RefreshCas(c) \/ QuarantineCas(c)
  <2>1. op' = op
    BY <1>7 DEF RefreshCas, QuarantineCas
  <2>2. Finish(c, Gets(nxt[c], TRUE)) \/ Finish(c, FailsWith("reauth")) \/ Finish(c, Adopt)
    BY <1>7 DEF RefreshCas, QuarantineCas
  <2> QED
    BY <2>1, <2>2, <1>6, EndKeepsForced DEF Finish, Ended
<1>8. CASE Settle(c)
  <2>1. op' = op
    BY <1>8 DEF Settle
  <2>2. Forced(c) /\ res[c].kind = "token" => res[c].refreshed
    BY <1>8 DEF Settle, ForcedInv, Ended
  <2>3. \A d \in Calls : pc'[d] \in {"getLoad", "delete"} => pc[d] \in {"getLoad", "delete"}
    BY <1>8 DEF Settle
  <2>4. ASSUME NEW d \in Calls, pc'[d] \in Ended, Forced(d), res'[d].kind = "token"
        PROVE  res'[d].refreshed
    <3>1. CASE ~Awaits(d, c)
      BY <1>8, <2>4, <3>1 DEF Settle, ForcedInv
    <3>2. CASE Awaits(d, c)
      <4>1. ~AsksAgain(d, c) /\ res'[d] = res[c]
        BY <1>8, <2>4, <3>2 DEF Settle, Ended
      <4> QED
        BY <2>2, <2>4, <4>1 DEF AsksAgain
    <3> QED
      BY <3>1, <3>2
  <2> QED
    BY <2>1, <2>3, <2>4 DEF ForcedInv, Forced
<1>9. CASE \E disabled \in SwitchAnswers : CodeExchanged(c, disabled)
  <2> PICK disabled \in SwitchAnswers : CodeExchanged(c, disabled)
    BY <1>9
  <2>1. CASE op[c] = "device" /\ disabled
    BY <2>1, EndKeepsForced DEF CodeExchanged, Return, Ended
  <2>2. CASE ~(op[c] = "device" /\ disabled)
    BY <2>2, LocalStepKeepsForced DEF CodeExchanged, Goto, Alike, TypeOK, Ended
  <2> QED
    BY <2>1, <2>2
<1>10. CASE CodeRejected(c) \/ StoreFails(c)
  BY <1>10, EndKeepsForced DEF CodeRejected, StoreFails, Return, Finish, Ended
<1>11. CASE FreshLoad(c)
  BY <1>11, LocalStepKeepsForced DEF FreshLoad, Goto, Alike, TypeOK, Ended
<1>12. CASE FreshCas(c)
  <2>1. op' = op
    BY <1>12 DEF FreshCas
  <2>2. \/ Return(c, Gets(nxt[c], TRUE)) \/ Return(c, Gets(rec, TRUE)) \/ Return(c, FailsWith("auth"))
    BY <1>12 DEF FreshCas
  <2> QED
    BY <2>1, <2>2, EndKeepsForced DEF Return, Ended
<1>13. CASE LoginWaits(c)
  <2>1. op' = op
    BY <1>13 DEF LoginWaits
  <2> QED
    BY <1>13, <2>1, LocalStepKeepsForced
    DEF LoginWaits, OthersAlike, LoginPhases, DevicePhases, LoopbackPhases, Ended, ForcedInv, Forced
<1>14. CASE Dies(Home[c])
  BY <1>14 DEF Dies, ForcedInv, Forced, Ended
<1> QED
  BY <1>1, <1>2, <1>3, <1>4, <1>5, <1>7, <1>8, <1>9, <1>10, <1>11, <1>12, <1>13, <1>14,
     DeviceWaits, LoopbackWaits DEF Step

LEMMA NextKeepsForced == TypeOK /\ ForcedInv /\ [Next]_vars => ForcedInv'
<1> SUFFICES ASSUME TypeOK, ForcedInv, [Next]_vars PROVE ForcedInv'
  OBVIOUS
<1>1. ASSUME NEW c \in Calls, Step(c) PROVE ForcedInv'
  BY <1>1, StepKeepsForced
<1>2. ASSUME NEW c \in Calls, NEW o \in Ops, NEW disabled \in SwitchAnswers,
             Start(c, o, disabled)
      PROVE  ForcedInv'
  BY <1>2, StartDoes, LocalStepKeepsForced, OutcomesTell DEF Ended
<1>3. CASE Expire \/ UNCHANGED vars
  BY <1>3 DEF Expire, vars, ForcedInv, Forced
<1>4. ASSUME NEW p \in Procs, Crash(p) PROVE ForcedInv'
  BY <1>4 DEF Crash, Dies, ForcedInv, Forced, Ended
<1> QED
  BY <1>1, <1>2, <1>3, <1>4 DEF Next, Environment

(* No forced refresh ends with the token of a flight that skipped the       *)
(* network, whoever else refreshes, fails or dies meanwhile.                *)
THEOREM ForcedCallsReachTheNetwork == Spec => []ForcedWentToNetwork
<1>1. Init => ForcedInv
  BY DEF Init, ForcedInv, Ended
<1>2. ForcedInv => ForcedWentToNetwork
  BY DEF ForcedInv, ForcedWentToNetwork, Ended
<1> QED
  BY <1>1, <1>2, TypeCorrect, NextKeepsForced, PTL DEF Spec

(***************************************************************************)
(* Who spends a refresh token.  In one process that does not die, whose    *)
(* store does not fail and whose answers are not lost, a stored token that *)
(* the endpoint has rotated away is about to be replaced: the flight that  *)
(* spent it holds the answer, and its compare-and-swap expects the very    *)
(* row.  Without any one of these the property is false: a second process, *)
(* or the next flight after an answer was lost, posts the spent token.     *)
(* A loopback login is left out because its listener may end the process.  *)
(***************************************************************************)

OneHealthyProcess ==
  /\ \A p, q \in Procs : p = q
  /\ "crash" \notin Faults /\ "lost" \notin Faults /\ "store" \notin Faults
  /\ "loopback" \notin Ops

HoldsFlight(c) == pc[c] \in {"flPost", "flCas", "flQuarantine"}
HoldsFresh(c)  == pc[c] \in {"freshLoad", "freshCas"}
Usable(rt)     == rt \in 1..issued /\ rt \notin spent
SpentBy(c)     == pc[c] = "flCas" /\ cur[c].rt = rec.rt

NoListener == \A c \in Calls : pc[c] \notin LoopbackPhases
SpentWereIssued == spent \subseteq 1..issued
RowTokens ==
  Present(rec) =>
    /\ rec.rt \in 1..issued
    /\ rec.rt \in spent => \E c \in Calls : SpentBy(c)
    /\ rec.q => rec.rt \in revoked
FlightTokens ==
  \A c \in Calls : HoldsFlight(c) =>
    /\ cur[c].rt \in 1..issued
    /\ pc[c] # "flCas" => cur[c].rt \notin spent
    /\ pc[c] = "flCas" => Usable(nxt[c].rt) /\ ~nxt[c].q
    /\ pc[c] = "flQuarantine" => cur[c].rt \in revoked
    /\ Present(rec) /\ rec.rt = cur[c].rt => rec = cur[c]
FreshTokens ==
  \A d \in Calls : HoldsFresh(d) =>
    /\ Usable(nxt[d].rt) /\ ~nxt[d].q
    /\ Present(rec) => nxt[d].rt # rec.rt
    /\ \A e \in Calls \ {d} : HoldsFresh(e) \/ pc[e] = "flCas" => nxt[e].rt # nxt[d].rt
    /\ \A e \in Calls : HoldsFlight(e) => cur[e].rt # nxt[d].rt
TokenInv == NoListener /\ SpentWereIssued /\ RowTokens /\ FlightTokens /\ FreshTokens

LEMMA OneFlightHolds ==
  ASSUME OneHealthyProcess, TypeOK, Singleflight, NEW c \in Calls, NEW d \in Calls,
         HoldsFlight(c), HoldsFlight(d)
  PROVE  c = d
BY HomeAssumption DEF OneHealthyProcess, Singleflight, InFlight, FlightPhases, HoldsFlight

(* Calls move, and neither the row nor the endpoint does.                   *)
LEMMA QuietStepKeepsTokens ==
  ASSUME TokenInv, UNCHANGED <<rec, server>>,
         \A d \in Calls : pc'[d] \notin LoopbackPhases,
         \A d \in Calls : HoldsFlight(d)' =>
           pc'[d] = pc[d] /\ cur'[d] = cur[d] /\ nxt'[d] = nxt[d],
         \A d \in Calls : HoldsFresh(d)' =>
           HoldsFresh(d) /\ nxt'[d].rt = nxt[d].rt /\ nxt'[d].q = nxt[d].q,
         Present(rec) /\ rec.rt \in spent => \E c \in Calls : SpentBy(c)'
  PROVE  TokenInv'
<1> USE DEF HoldsFlight, HoldsFresh, Usable, Present, server
<1>1. NoListener' /\ SpentWereIssued'
  BY DEF TokenInv, NoListener, SpentWereIssued
<1>2. RowTokens'
  BY DEF TokenInv, RowTokens
<1>3. FlightTokens'
  BY DEF TokenInv, FlightTokens
<1>4. FreshTokens'
  <2> SUFFICES ASSUME NEW d \in Calls, HoldsFresh(d)'
               PROVE  /\ Usable(nxt[d].rt)' /\ ~nxt'[d].q
                      /\ Present(rec)' => nxt'[d].rt # rec'.rt
                      /\ \A e \in Calls \ {d} : (HoldsFresh(e) \/ pc[e] = "flCas")' => nxt'[e].rt # nxt'[d].rt
                      /\ \A e \in Calls : HoldsFlight(e)' => cur'[e].rt # nxt'[d].rt
    BY Zenon DEF FreshTokens
  <2>1. HoldsFresh(d) /\ nxt'[d].rt = nxt[d].rt /\ nxt'[d].q = nxt[d].q
    OBVIOUS
  <2>2. /\ Usable(nxt[d].rt) /\ ~nxt[d].q
        /\ Present(rec) => nxt[d].rt # rec.rt
        /\ \A e \in Calls \ {d} : HoldsFresh(e) \/ pc[e] = "flCas" => nxt[e].rt # nxt[d].rt
        /\ \A e \in Calls : HoldsFlight(e) => cur[e].rt # nxt[d].rt
    BY <2>1 DEF TokenInv, FreshTokens
  <2> QED
    BY <2>1, <2>2
<1> QED
  BY <1>1, <1>2, <1>3, <1>4 DEF TokenInv

(* A call that moves to a phase that holds nothing, while the row stands.   *)
LEMMA LocalStepKeepsTokens ==
  ASSUME TokenInv, NEW c \in Calls, UNCHANGED <<rec, server>>,
         \A d \in Calls \ {c} : Alike(d),
         pc'[c] \notin LoopbackPhases, ~HoldsFlight(c)', ~HoldsFresh(c)',
         Present(rec) /\ rec.rt \in spent => ~SpentBy(c)
  PROVE  TokenInv'
<1>1. \A d \in Calls : HoldsFlight(d)' \/ HoldsFresh(d)' => d # c /\ Alike(d)
  OBVIOUS
<1>2. \A d \in Calls : pc'[d] \notin LoopbackPhases
  BY DEF TokenInv, NoListener, Alike
<1>3. Present(rec) /\ rec.rt \in spent => \E d \in Calls : SpentBy(d)'
  BY DEF TokenInv, RowTokens, SpentBy, Alike
<1>4. \A d \in Calls : HoldsFresh(d)' => HoldsFresh(d) /\ nxt'[d] = nxt[d]
  BY <1>1 DEF HoldsFresh, Alike
<1>5. \A d \in Calls : HoldsFlight(d)' => pc'[d] = pc[d] /\ cur'[d] = cur[d] /\ nxt'[d] = nxt[d]
  BY <1>1 DEF Alike
<1> QED
  BY <1>2, <1>3, <1>4, <1>5, QuietStepKeepsTokens

LEMMA EndKeepsTokens ==
  ASSUME TypeOK, TokenInv, NEW c \in Calls, NEW phase \in {"done", "settle"}, NEW o,
         End(c, phase, o), UNCHANGED <<rec, server, op>>,
         Present(rec) /\ rec.rt \in spent => ~SpentBy(c)
  PROVE  TokenInv'
BY EndIsLocal, LocalStepKeepsTokens DEF OthersAlike, HoldsFlight, HoldsFresh, LoopbackPhases

LEMMA ContinueKeepsTokens ==
  ASSUME TypeOK, TokenInv, NEW c \in Calls, NEW phase \in Phases \ LoopbackPhases,
         ~HoldsFlight(c), phase \notin {"flPost", "flCas", "flQuarantine", "freshLoad", "freshCas"},
         Continue(c, phase), UNCHANGED <<rec, server, op>>
  PROVE  TokenInv'
BY ContinueIsLocal, LocalStepKeepsTokens DEF OthersAlike, HoldsFlight, HoldsFresh, SpentBy

(* The steps that load, post, answer, and write.                            *)
LEMMA LoadKeepsTokens ==
  ASSUME OneHealthyProcess, TypeOK, Singleflight, TokenInv, NEW c \in Calls,
         pc[c] = "flLoad", pc' = [pc EXCEPT ![c] = "flPost"],
         cur' = [cur EXCEPT ![c] = rec], UNCHANGED <<rec, server, nxt>>,
         Present(rec)
  PROVE  TokenInv'
<1> USE DEF HoldsFlight, HoldsFresh, Usable, Present, server
<1>1. /\ pc'[c] = "flPost" /\ cur'[c] = rec
      /\ \A d \in Calls \ {c} : pc'[d] = pc[d] /\ cur'[d] = cur[d]
  BY DEF TypeOK
<1>2. \A d \in Calls : ~HoldsFlight(d)
  BY HomeAssumption DEF OneHealthyProcess, Singleflight, InFlight, FlightPhases
<1>3. rec.rt \in 1..issued /\ rec.rt \notin spent
  BY <1>2 DEF TokenInv, RowTokens, SpentBy
<1>4. NoListener' /\ SpentWereIssued'
  BY <1>1 DEF TokenInv, NoListener, SpentWereIssued, LoopbackPhases
<1>5. RowTokens'
  BY <1>3 DEF TokenInv, RowTokens
<1>6. FlightTokens'
  BY <1>1, <1>2, <1>3 DEF TokenInv, FlightTokens
<1>7. FreshTokens'
  BY <1>1, <1>2 DEF TokenInv, FreshTokens
<1> QED
  BY <1>4, <1>5, <1>6, <1>7 DEF TokenInv

LEMMA AnswerKeepsTokens ==
  ASSUME OneHealthyProcess, TypeOK, Singleflight, TokenInv, NEW c \in Calls,
         NEW rotates \in BOOLEAN, RefreshSucceeds(c, rotates)
  PROVE  TokenInv'
<1> USE DEF HoldsFlight, HoldsFresh, Usable, Present
<1>0. issued \in Nat
  BY DEF TypeOK
<1>1. /\ pc[c] = "flPost" /\ pc'[c] = "flCas" /\ cur' = cur /\ rec' = rec /\ revoked' = revoked
      /\ issued' = issued + 1
      /\ \A d \in Calls \ {c} : pc'[d] = pc[d] /\ nxt'[d] = nxt[d]
  BY DEF RefreshSucceeds, Goto, TypeOK
<1>2. ~nxt'[c].q
  BY DEF RefreshSucceeds, TypeOK
<1>3. \/ spent' = spent \cup {cur[c].rt} /\ nxt'[c].rt = issued + 1
      \/ spent' = spent /\ nxt'[c].rt = cur[c].rt
  BY DEF RefreshSucceeds, TypeOK
<1>4. cur[c].rt \in 1..issued /\ cur[c].rt \notin spent
      /\ (Present(rec) /\ rec.rt = cur[c].rt => rec = cur[c])
  BY <1>1 DEF TokenInv, FlightTokens
<1>5. \A d \in Calls \ {c} : ~HoldsFlight(d)
  BY <1>1, OneFlightHolds
<1>6. spent \subseteq 1..issued
  BY DEF TokenInv, SpentWereIssued
<1>7. NoListener' /\ SpentWereIssued'
  <2>1. NoListener'
    BY <1>1 DEF TokenInv, NoListener, LoopbackPhases
  <2>2. 1..issued \subseteq 1..issued' /\ cur[c].rt \in 1..issued'
    BY <1>0, <1>1, <1>4
  <2>3. spent' \subseteq 1..issued'
    BY <1>3, <1>6, <2>2
  <2> QED
    BY <2>1, <2>3 DEF SpentWereIssued
<1>8. RowTokens'
  <2>1. rec.rt \in spent => rec.rt = cur[c].rt \/ ~Present(rec)
    BY <1>1, <1>5 DEF TokenInv, RowTokens, SpentBy
  <2>2. Present(rec) /\ rec.rt \in spent' => SpentBy(c)'
    BY <1>1, <1>3, <2>1 DEF SpentBy
  <2> QED
    BY <1>0, <1>1, <2>2 DEF TokenInv, RowTokens
<1>9. FlightTokens'
  <2>1. Usable(nxt[c].rt)'
    BY <1>0, <1>1, <1>3, <1>4, <1>6
  <2> QED
    BY <1>0, <1>1, <1>2, <1>4, <1>5, <2>1 DEF FlightTokens
<1>10. FreshTokens'
  <2> SUFFICES ASSUME NEW d \in Calls, HoldsFresh(d)'
               PROVE  /\ Usable(nxt[d].rt)' /\ ~nxt'[d].q
                      /\ Present(rec)' => nxt'[d].rt # rec'.rt
                      /\ \A e \in Calls \ {d} : (HoldsFresh(e) \/ pc[e] = "flCas")' => nxt'[e].rt # nxt'[d].rt
                      /\ \A e \in Calls : HoldsFlight(e)' => cur'[e].rt # nxt'[d].rt
    BY Zenon DEF FreshTokens
  <2>1. d # c /\ HoldsFresh(d) /\ nxt'[d] = nxt[d]
    BY <1>1
  <2>2. /\ Usable(nxt[d].rt) /\ ~nxt[d].q
        /\ Present(rec) => nxt[d].rt # rec.rt
        /\ \A e \in Calls \ {d} : HoldsFresh(e) \/ pc[e] = "flCas" => nxt[e].rt # nxt[d].rt
        /\ \A e \in Calls : HoldsFlight(e) => cur[e].rt # nxt[d].rt
    BY <2>1 DEF TokenInv, FreshTokens
  <2>3. nxt[d].rt \in 1..issued /\ nxt[d].rt # cur[c].rt
    BY <1>1, <2>2
  <2>4. nxt'[c].rt # nxt[d].rt
    BY <1>0, <1>3, <2>3
  <2>5. Usable(nxt[d].rt)'
    BY <1>0, <1>1, <1>3, <2>1, <2>2, <2>3
  <2> QED
    BY <1>1, <1>5, <2>1, <2>2, <2>3, <2>4, <2>5
<1> QED
  BY <1>7, <1>8, <1>9, <1>10 DEF TokenInv

LEMMA RejectionKeepsTokens ==
  ASSUME TypeOK, TokenInv, NEW c \in Calls, RefreshRejected(c)
  PROVE  TokenInv'
<1> USE DEF HoldsFlight, HoldsFresh, Usable, Present
<1>1. /\ pc[c] = "flPost" /\ pc'[c] = "flQuarantine" /\ UNCHANGED <<rec, issued, spent, cur, nxt>>
      /\ \A d \in Calls \ {c} : pc'[d] = pc[d]
  BY DEF RefreshRejected, Continue, Goto, TypeOK, locals
<1>2. cur[c].rt \in 1..issued /\ cur[c].rt \notin spent
  BY <1>1 DEF TokenInv, FlightTokens
<1>3. cur[c].rt \in revoked' /\ revoked \subseteq revoked'
  BY <1>2 DEF RefreshRejected, Live
<1>4. NoListener' /\ SpentWereIssued'
  BY <1>1 DEF TokenInv, NoListener, SpentWereIssued, LoopbackPhases
<1>5. RowTokens'
  <2>1. \A d \in Calls : SpentBy(d) => SpentBy(d)'
    BY <1>1 DEF SpentBy
  <2> QED
    BY <1>1, <1>3, <2>1 DEF TokenInv, RowTokens
<1>6. FlightTokens'
  BY <1>1, <1>3 DEF TokenInv, FlightTokens
<1>7. FreshTokens'
  BY <1>1 DEF TokenInv, FreshTokens
<1> QED
  BY <1>4, <1>5, <1>6, <1>7 DEF TokenInv

(* The row is replaced by one whose token is usable, or already revoked.    *)
LEMMA WriteKeepsTokens ==
  ASSUME OneHealthyProcess, TypeOK, Singleflight, TokenInv, NEW c \in Calls,
         UNCHANGED server, \A d \in Calls \ {c} : Alike(d),
         pc'[c] \in {"done", "settle"},
         rec'.rt \in 1..issued /\ rec'.rt \notin spent,
         rec'.q => rec'.rt \in revoked,
         \A d \in Calls \ {c} : HoldsFlight(d) => cur[d].rt # rec'.rt,
         \A d \in Calls \ {c} : HoldsFresh(d) => nxt[d].rt # rec'.rt
  PROVE  TokenInv'
<1> USE DEF HoldsFlight, HoldsFresh, Usable, Alike, server
<1>1. NoListener' /\ SpentWereIssued'
  BY DEF TokenInv, NoListener, SpentWereIssued, LoopbackPhases
<1>2. RowTokens'
  BY DEF RowTokens
<1>3. FlightTokens'
  BY DEF TokenInv, FlightTokens
<1>4. FreshTokens'
  BY DEF TokenInv, FreshTokens
<1> QED
  BY <1>1, <1>2, <1>3, <1>4 DEF TokenInv

LEMMA CodeKeepsTokens ==
  ASSUME TypeOK, TokenInv, NEW c \in Calls, NEW disabled \in SwitchAnswers,
         CodeExchanged(c, disabled)
  PROVE  TokenInv'
<1> USE DEF HoldsFlight, HoldsFresh, Usable, Present
<1>0. issued \in Nat
  BY DEF TypeOK
<1>1. /\ pc[c] = "exchange" /\ issued' = issued + 1 /\ UNCHANGED <<rec, spent, revoked>>
      /\ \A d \in Calls \ {c} : Alike(d)
      /\ \/ pc'[c] = "done"
         \/ pc'[c] = "freshLoad" /\ nxt'[c].rt = issued + 1 /\ ~nxt'[c].q /\ cur'[c] = cur[c]
  <2>1. CASE op[c] = "device" /\ disabled
    BY <2>1, EndIsLocal DEF CodeExchanged, Return, OthersAlike
  <2>2. CASE ~(op[c] = "device" /\ disabled)
    BY <2>2 DEF CodeExchanged, Goto, TypeOK, Alike
  <2> QED
    BY <2>1, <2>2 DEF CodeExchanged
<1>2. NoListener' /\ SpentWereIssued'
  BY <1>0, <1>1 DEF TokenInv, NoListener, SpentWereIssued, LoopbackPhases, Alike
<1>3. RowTokens'
  <2>1. \A d \in Calls : SpentBy(d) => SpentBy(d)'
    BY <1>1 DEF SpentBy, Alike
  <2> QED
    BY <1>0, <1>1, <2>1 DEF TokenInv, RowTokens
<1>4. FlightTokens'
  BY <1>0, <1>1 DEF TokenInv, FlightTokens, Alike
<1>5. FreshTokens'
  <2>1. \A e \in Calls : HoldsFlight(e) => cur[e].rt # issued + 1
    BY <1>0 DEF TokenInv, FlightTokens
  <2>2. \A e \in Calls : HoldsFresh(e) \/ pc[e] = "flCas" => nxt[e].rt # issued + 1
    BY <1>0 DEF TokenInv, FlightTokens, FreshTokens
  <2>3. Present(rec) => rec.rt # issued + 1
    BY <1>0 DEF TokenInv, RowTokens
  <2>4. issued + 1 \notin spent
    BY <1>0 DEF TokenInv, SpentWereIssued
  <2> QED
    BY <1>0, <1>1, <2>1, <2>2, <2>3, <2>4 DEF TokenInv, FreshTokens, Alike
<1> QED
  BY <1>2, <1>3, <1>4, <1>5 DEF TokenInv

LEMMA LogoutKeepsTokens ==
  ASSUME TypeOK, TokenInv, NEW c \in Calls, Logout(c)
  PROVE  TokenInv'
<1> USE DEF HoldsFlight, HoldsFresh, Usable, server
<1>1. /\ UNCHANGED <<issued, spent, revoked, cur, nxt>> /\ pc[c] = "delete" /\ pc'[c] = "done"
      /\ \A d \in Calls \ {c} : pc'[d] = pc[d]
  BY DEF Logout, Goto, TypeOK
<1>2. ~Present(rec)'
  BY DEF Logout, Present, NoRecord
<1>3. NoListener' /\ SpentWereIssued' /\ RowTokens'
  BY <1>1, <1>2 DEF TokenInv, NoListener, SpentWereIssued, LoopbackPhases, RowTokens
<1>4. FlightTokens'
  BY <1>1, <1>2 DEF TokenInv, FlightTokens
<1>5. FreshTokens'
  BY <1>1, <1>2 DEF TokenInv, FreshTokens
<1> QED
  BY <1>3, <1>4, <1>5 DEF TokenInv

LEMMA StepKeepsTokens ==
  ASSUME OneHealthyProcess, TypeOK, Singleflight, WritesAreNumbered, TokenInv,
         NEW c \in Calls, Step(c)
  PROVE  TokenInv'
<1> USE DEF Phases, LoopbackPhases
<1>1. CASE GetLoad(c)
  <2>1. UNCHANGED <<rec, server, op>> /\ pc[c] = "getLoad"
    BY <1>1 DEF GetLoad
  <2>2. \/ Return(c, FailsWith("reauth")) \/ Return(c, Gets(rec, FALSE))
        \/ Continue(c, "join")
    BY <1>1 DEF GetLoad
  <2> QED
    BY <2>1, <2>2, EndKeepsTokens, ContinueKeepsTokens DEF Return, SpentBy, HoldsFlight
<1>2. CASE Join(c)
  <2>1. UNCHANGED <<rec, server, op>> /\ pc[c] = "join"
    BY <1>2 DEF Join
  <2>2. Continue(c, "wait") \/ Continue(c, "flLoad")
    BY <1>2 DEF Join
  <2> QED
    BY <2>1, <2>2, ContinueKeepsTokens DEF HoldsFlight, FlightPhases
<1>3. CASE Logout(c)
  BY <1>3, LogoutKeepsTokens
<1>4. CASE FlightLoad(c)
  <2>1. UNCHANGED <<rec, server, op>> /\ pc[c] = "flLoad"
    BY <1>4 DEF FlightLoad
  <2>2. \/ Finish(c, FailsWith("reauth"))
        \/ Finish(c, Gets(rec, FALSE))
        \/ /\ pc' = [pc EXCEPT ![c] = "flPost"] /\ nxt' = nxt
           /\ cur' = [cur EXCEPT ![c] = rec] /\ Present(rec)
    BY <1>4 DEF FlightLoad, Goto
  <2> QED
    BY <2>1, <2>2, EndKeepsTokens, LoadKeepsTokens DEF Finish, SpentBy
<1>5. CASE Post(c)
  <2>1. CASE \E rotates \in BOOLEAN : RefreshSucceeds(c, rotates)
    BY <2>1, AnswerKeepsTokens
  <2>2. CASE \E retriable \in BOOLEAN : RefreshFails(c, retriable)
    <3>1. PICK retriable \in BOOLEAN : RefreshFails(c, retriable)
      BY <2>2
    <3>2. CASE Finish(c, FailsWith("failed"))
      BY <3>1, <3>2, EndKeepsTokens DEF RefreshFails, Finish, SpentBy
    <3>3. CASE UNCHANGED <<pc, cur, nxt>>
      BY <3>1, <3>3, QuietStepKeepsTokens
      DEF RefreshFails, TokenInv, NoListener, RowTokens, SpentBy, HoldsFresh, HoldsFlight
    <3> QED
      BY <3>1, <3>2, <3>3 DEF RefreshFails, AttemptFails
  <2>3. CASE \E retriable \in BOOLEAN : RefreshAnswerLost(c, retriable)
    BY <2>3 DEF RefreshAnswerLost, OneHealthyProcess
  <2>4. CASE RefreshRejected(c)
    BY <2>4, RejectionKeepsTokens
  <2> QED
    BY <1>5, <2>1, <2>2, <2>3, <2>4 DEF Post
<1>6. ASSUME HoldsFlight(c), rec.ver # cur[c].ver, NEW o, Finish(c, o),
             UNCHANGED <<rec, server, op>>
      PROVE  TokenInv'
  <2>1. Present(rec) => ~SpentBy(c)
    BY <1>6 DEF TokenInv, FlightTokens, SpentBy
  <2> QED
    BY <1>6, <2>1, EndKeepsTokens DEF Finish
<1>7. CASE RefreshCas(c)
  <2>1. CASE Swap(cur[c].ver, nxt[c]) /\ Finish(c, Gets(nxt[c], TRUE))
    <3>1. rec' = nxt[c] /\ UNCHANGED <<server, op>> /\ pc[c] = "flCas" /\ HoldsFlight(c)
      BY <1>7, <2>1, SwapStores DEF RefreshCas, HoldsFlight
    <3>2. Usable(nxt[c].rt) /\ ~nxt[c].q
      BY <3>1 DEF TokenInv, FlightTokens
    <3>3. OthersAlike(c) /\ pc'[c] = "settle"
      BY <2>1, <3>1, EndIsLocal DEF Finish
    <3>4. \A d \in Calls \ {c} : ~HoldsFlight(d)
      BY <3>1, OneFlightHolds
    <3>5. \A d \in Calls \ {c} : HoldsFresh(d) => nxt[d].rt # nxt[c].rt
      BY <3>1 DEF TokenInv, FreshTokens
    <3> QED
      BY <3>1, <3>2, <3>3, <3>4, <3>5, WriteKeepsTokens DEF Usable, OthersAlike
  <2>2. CASE rec.ver # cur[c].ver /\ Finish(c, Adopt) /\ UNCHANGED <<rec, stale>>
    BY <1>6, <1>7, <2>2 DEF RefreshCas, HoldsFlight
  <2> QED
    BY <1>7, <2>1, <2>2 DEF RefreshCas
<1>8. CASE QuarantineCas(c)
  <2>1. CASE Swap(cur[c].ver, [cur[c] EXCEPT !.q = TRUE]) /\ Finish(c, FailsWith("reauth"))
    <3>1. /\ rec'.rt = cur[c].rt /\ UNCHANGED <<server, op>>
          /\ pc[c] = "flQuarantine" /\ HoldsFlight(c)
      BY <1>8, <2>1 DEF QuarantineCas, HoldsFlight, Swap, TypeOK, Record
    <3>2. Usable(cur[c].rt) /\ cur[c].rt \in revoked
      BY <3>1 DEF TokenInv, FlightTokens, Usable
    <3>3. OthersAlike(c) /\ pc'[c] = "settle"
      BY <2>1, <3>1, EndIsLocal DEF Finish
    <3>4. \A d \in Calls \ {c} : ~HoldsFlight(d)
      BY <3>1, OneFlightHolds
    <3>5. \A d \in Calls \ {c} : HoldsFresh(d) => nxt[d].rt # cur[c].rt
      BY <3>1 DEF TokenInv, FreshTokens
    <3> QED
      BY <3>1, <3>2, <3>3, <3>4, <3>5, WriteKeepsTokens DEF Usable, OthersAlike
  <2>2. CASE rec.ver # cur[c].ver /\ Finish(c, Adopt) /\ UNCHANGED <<rec, stale>>
    BY <1>6, <1>8, <2>2 DEF QuarantineCas, HoldsFlight
  <2> QED
    BY <1>8, <2>1, <2>2 DEF QuarantineCas
<1>9. CASE Settle(c)
  <2>1. UNCHANGED <<rec, server, cur, nxt>>
    BY <1>9 DEF Settle, locals
  <2>2. \A d \in Calls : pc'[d] = pc[d] \/ (pc'[d] \in {"join", "done"} /\ pc[d] \in {"wait", "settle"})
    BY <1>9 DEF Settle, Awaits
  <2>3. \A d \in Calls : SpentBy(d) => SpentBy(d)'
    BY <2>1, <2>2 DEF SpentBy
  <2> QED
    BY <2>1, <2>2, <2>3, QuietStepKeepsTokens
    DEF TokenInv, NoListener, RowTokens, HoldsFlight, HoldsFresh
<1>10. CASE \E disabled \in SwitchAnswers : CodeExchanged(c, disabled)
  BY <1>10, CodeKeepsTokens
<1>11. CASE CodeRejected(c)
  BY <1>11, EndKeepsTokens DEF CodeRejected, Return, SpentBy
<1>12. CASE FreshLoad(c)
  <2>1. /\ UNCHANGED <<rec, server>> /\ pc[c] = "freshLoad" /\ pc'[c] = "freshCas"
        /\ \A d \in Calls \ {c} : Alike(d)
        /\ nxt'[c].rt = nxt[c].rt /\ nxt'[c].q = nxt[c].q
    BY <1>12 DEF FreshLoad, Goto, TypeOK, Alike, Record
  <2>2. \A d \in Calls : SpentBy(d) => SpentBy(d)'
    BY <2>1 DEF SpentBy, Alike
  <2> QED
    BY <2>1, <2>2, QuietStepKeepsTokens
    DEF TokenInv, NoListener, RowTokens, HoldsFlight, HoldsFresh, Alike
<1>13. CASE FreshCas(c)
  <2>1. CASE Swap(cur[c].ver, nxt[c]) /\ Return(c, Gets(nxt[c], TRUE))
    <3>1. rec' = nxt[c] /\ UNCHANGED <<server, op>> /\ HoldsFresh(c)
      BY <1>13, <2>1, SwapStores DEF FreshCas, HoldsFresh
    <3>2. /\ Usable(nxt[c].rt) /\ ~nxt[c].q
          /\ \A e \in Calls \ {c} : HoldsFresh(e) => nxt[e].rt # nxt[c].rt
          /\ \A e \in Calls : HoldsFlight(e) => cur[e].rt # nxt[c].rt
      BY <3>1 DEF TokenInv, FreshTokens
    <3>3. OthersAlike(c) /\ pc'[c] = "done"
      BY <2>1, <3>1, EndIsLocal DEF Return
    <3> QED
      BY <3>1, <3>2, <3>3, WriteKeepsTokens DEF Usable, OthersAlike
  <2>2. CASE /\ Return(c, IF Present(rec) THEN Gets(rec, TRUE) ELSE FailsWith("auth"))
             /\ UNCHANGED <<rec, stale>>
    BY <1>13, <2>2, EndKeepsTokens DEF FreshCas, Return, SpentBy
  <2> QED
    BY <1>13, <2>1, <2>2 DEF FreshCas
<1>14. CASE StoreFails(c)
  BY <1>14 DEF StoreFails, OneHealthyProcess
<1>15. CASE DeviceStep(c)
  <2>1. LoginWaits(c) /\ pc[c] \notin LoopbackPhases
    BY <1>15, DeviceWaits DEF TokenInv, NoListener
  <2>2. CASE DeviceStarted(c) \/ DevicePolls(c) \/ DevicePending(c) \/ DeviceAuthorized(c)
    BY <2>2, ContinueKeepsTokens
    DEF DeviceStarted, DevicePolls, DevicePending, DeviceAuthorized, Moves,
        LoginPhases, DevicePhases, HoldsFlight
  <2>3. CASE DeviceExpires(c) \/ DeviceFails(c)
    BY <2>3, EndKeepsTokens DEF DeviceExpires, DeviceFails, Stops, Return, SpentBy
  <2> QED
    BY <1>15, <2>2, <2>3 DEF DeviceStep
<1>16. CASE LoopbackStep(c)
  BY <1>16, LoopbackWaits DEF TokenInv, NoListener
<1> QED
  BY <1>1, <1>2, <1>3, <1>4, <1>5, <1>7, <1>8, <1>9, <1>10, <1>11, <1>12, <1>13, <1>14,
     <1>15, <1>16 DEF Step

LEMMA NextKeepsTokens ==
  OneHealthyProcess /\ TypeOK /\ Singleflight /\ WritesAreNumbered /\ TokenInv /\ [Next]_vars
    => TokenInv'
<1> SUFFICES ASSUME OneHealthyProcess, TypeOK, Singleflight, WritesAreNumbered, TokenInv, [Next]_vars
             PROVE  TokenInv'
  OBVIOUS
<1>1. ASSUME NEW c \in Calls, Step(c) PROVE TokenInv'
  BY <1>1, StepKeepsTokens
<1>2. ASSUME NEW c \in Calls, NEW o \in Ops, NEW disabled \in SwitchAnswers,
             Start(c, o, disabled)
      PROVE  TokenInv'
  <2>1. o # "loopback" /\ pc[c] = "idle"
    BY <1>2 DEF OneHealthyProcess, Start
  <2>2. /\ UNCHANGED <<rec, server>> /\ \A d \in Calls \ {c} : Alike(d)
        /\ pc'[c] \in {"done", "getLoad", "join", "delete", "devStart", "exchange"}
    BY <1>2, <2>1, StartDoes
  <2> QED
    BY <2>1, <2>2, LocalStepKeepsTokens DEF SpentBy, HoldsFlight, HoldsFresh, LoopbackPhases
<1>3. CASE Expire \/ UNCHANGED vars
  BY <1>3, QuietStepKeepsTokens
  DEF Expire, vars, server, locals, TokenInv, NoListener, RowTokens, SpentBy, HoldsFlight, HoldsFresh
<1>4. ASSUME NEW p \in Procs, Crash(p) PROVE TokenInv'
  BY <1>4 DEF Crash, OneHealthyProcess
<1> QED
  BY <1>1, <1>2, <1>3, <1>4 DEF Next, Environment

(* In one process that neither dies nor loses an answer, whatever the       *)
(* interleaving of refreshes, logins and logouts, a user is asked to sign   *)
(* in again only when the endpoint revoked the credential for a reason of   *)
(* its own: the library never posts a refresh token twice.                  *)
THEOREM OnlyTheRevokedIsQuarantined ==
  ASSUME OneHealthyProcess
  PROVE  Spec => []OnlyRevokedQuarantined
<1>1. Init => WritesAreNumbered /\ TokenInv
  BY DEF Init, WritesAreNumbered, TokenInv, NoListener, SpentWereIssued, RowTokens,
         FlightTokens, FreshTokens, HoldsFlight, HoldsFresh, LoopbackPhases, NoRecord, Present
<1>2. TokenInv => OnlyRevokedQuarantined
  BY DEF TokenInv, RowTokens, OnlyRevokedQuarantined, Quarantined
<1>3. TypeOK /\ Singleflight /\ WritesAreNumbered /\ TokenInv /\ [Next]_vars => TokenInv'
  BY NextKeepsTokens
<1> QED
  BY <1>1, <1>2, <1>3, TypeCorrect, OneFlightPerProcess, NextKeepsNumbers, PTL
  DEF Spec

=============================================================================
