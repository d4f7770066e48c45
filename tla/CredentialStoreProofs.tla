----------------------- MODULE CredentialStoreProofs -----------------------
(***************************************************************************)
(* Theorems about the abstract store, for any number of calls, subjects    *)
(* and requests.  What they establish holds of every store that            *)
(* implements CredentialStore.                                             *)
(***************************************************************************)
EXTENDS CredentialStore, TLAPS

(* What an answer says of the request, and when there is one. *)
AnswersFit ==
  \A c \in Calls :
    /\ phase[c] = "idle" => req[c] = NoRequest
    /\ phase[c] # "idle" => req[c] \in Requests
    /\ phase[c] \in {"idle", "open"} => ans[c] = Pending
    /\ Winner(c) => req[c].op = "cas" /\ ans[c].row = Stored(c, req[c].expected)

IInv == TypeOK /\ AnswersFit /\ WinnersAreNotLost /\ OneWinnerPerVersion

LEMMA Distinct ==
  /\ Pending \in Answer /\ Deleted \in Answer /\ Failed \in Answer
  /\ \A r \in Row : Found(r) \in Answer /\ Won(r) \in Answer /\ Lost(r) \in Answer
  /\ Pending.kind # "won" /\ Deleted.kind # "won" /\ Failed.kind # "won"
  /\ \A r \in Row : Found(r).kind # "won" /\ Lost(r).kind # "won"
                    /\ Won(r).kind = "won" /\ Won(r).row = r
  /\ \A q \in Requests : q \in Request /\ q # NoRequest
BY RequestsAssumption DEF Pending, Deleted, Failed, Found, Won, Lost, Answer, Row, Missing,
   Request, NoRequest

LEMMA StoredIsRow == \A c \in Calls, e \in Nat : Stored(c, e) \in Row /\ Stored(c, e).ver = e + 1
                                                  /\ Stored(c, e).by = c
BY DEF Stored, Row

LEMMA InitHolds == Init => IInv
<1> SUFFICES ASSUME Init PROVE IInv
  OBVIOUS
<1>1. TypeOK
  BY Distinct DEF Init, TypeOK, SomeRows, Row, Missing
<1>2. AnswersFit
  BY Distinct DEF Init, AnswersFit, Winner
<1>3. \A c \in Calls : ~Winner(c)
  BY Distinct DEF Init, Winner
<1> QED
  BY <1>1, <1>2, <1>3 DEF IInv, WinnersAreNotLost, OneWinnerPerVersion

(* A call decides on an answer that fits its request. *)
LEMMA DecideStep ==
  ASSUME TypeOK, AnswersFit, NEW c \in Calls, NEW answer \in Answer, Decide(c, answer),
         answer.kind = "won" => req[c].op = "cas" /\ answer.row = Stored(c, req[c].expected),
         rows' \in [Subjects -> Row]
  PROVE  TypeOK' /\ AnswersFit'
<1>1. /\ phase' = [phase EXCEPT ![c] = "decided"] /\ phase[c] = "open" /\ req' = req
      /\ ans' = [ans EXCEPT ![c] = answer]
  BY DEF Decide
<1>2. TypeOK'
  BY <1>1 DEF TypeOK
<1>3. ASSUME NEW d \in Calls
      PROVE /\ phase'[d] = "idle" => req'[d] = NoRequest
            /\ phase'[d] # "idle" => req'[d] \in Requests
            /\ phase'[d] \in {"idle", "open"} => ans'[d] = Pending
            /\ ans'[d].kind = "won" => req'[d].op = "cas" /\ ans'[d].row = Stored(d, req'[d].expected)
  <2>1. CASE d = c
    BY <1>1, <2>1 DEF TypeOK, AnswersFit
  <2>2. CASE d # c
    <3>1. phase'[d] = phase[d] /\ ans'[d] = ans[d] /\ req'[d] = req[d]
      BY <1>1, <2>2 DEF TypeOK
    <3> QED
      BY <3>1 DEF AnswersFit, Winner
  <2> QED
    BY <2>1, <2>2
<1> QED
  BY <1>2, <1>3 DEF AnswersFit, Winner

(* Every step keeps the types and the fit of answers. *)
LEMMA TypeStep == TypeOK /\ AnswersFit /\ [Next]_vars => TypeOK' /\ AnswersFit'
<1> SUFFICES ASSUME TypeOK, AnswersFit, [Next]_vars
             PROVE TypeOK' /\ AnswersFit'
  OBVIOUS
<1> USE Distinct
<1>0. ASSUME NEW c \in Calls, phase[c] = "open"
      PROVE req[c] \in Request /\ req[c].subject \in Subjects /\ rows[req[c].subject] \in Row
  BY <1>0 DEF AnswersFit, TypeOK, Request
<1>1. ASSUME NEW c \in Calls, NEW r \in Requests, Invoke(c, r)
      PROVE TypeOK' /\ AnswersFit'
  <2>1. TypeOK'
    BY <1>1 DEF Invoke, TypeOK
  <2>2. ans[c] = Pending /\ ~Winner(c)
    BY <1>1 DEF Invoke, AnswersFit, Winner
  <2> QED
    BY <1>1, <2>1, <2>2 DEF Invoke, TypeOK, AnswersFit, Winner
<1>2. ASSUME NEW c \in Calls, Load(c) PROVE TypeOK' /\ AnswersFit'
  <2>1. Decide(c, Found(rows[req[c].subject])) /\ rows[req[c].subject] \in Row /\ rows' = rows
    BY <1>0, <1>2 DEF Load, Decide
  <2> QED
    BY <2>1, DecideStep DEF TypeOK
<1>3. ASSUME NEW c \in Calls, Swap(c) PROVE TypeOK' /\ AnswersFit'
  <2>1. Stored(c, req[c].expected) \in Row /\ req[c].subject \in Subjects
    BY <1>0, <1>3, StoredIsRow DEF Request, Swap, Decide
  <2>2. rows' \in [Subjects -> Row]
    BY <1>3, <2>1 DEF Swap, TypeOK
  <2>3. Decide(c, Won(Stored(c, req[c].expected))) /\ req[c].op = "cas"
    BY <1>3 DEF Swap
  <2> QED
    BY <2>1, <2>2, <2>3, DecideStep
<1>4. ASSUME NEW c \in Calls, Refuse(c) PROVE TypeOK' /\ AnswersFit'
  <2>1. Decide(c, Lost(rows[req[c].subject])) /\ rows[req[c].subject] \in Row /\ rows' = rows
    BY <1>0, <1>4 DEF Refuse, Decide
  <2> QED
    BY <2>1, DecideStep DEF TypeOK
<1>5. ASSUME NEW c \in Calls, Delete(c) PROVE TypeOK' /\ AnswersFit'
  <2>1. Missing \in Row
    BY DEF Missing, Row
  <2>2. Decide(c, Deleted) /\ rows' \in [Subjects -> Row]
    BY <1>5, <2>1 DEF Delete, TypeOK
  <2> QED
    BY <2>2, DecideStep
<1>6. ASSUME NEW c \in Calls, Return(c) PROVE TypeOK' /\ AnswersFit'
  <2>1. TypeOK'
    BY <1>6 DEF Return, TypeOK
  <2> QED
    BY <1>6, <2>1 DEF Return, TypeOK, AnswersFit, Winner
<1>7. ASSUME NEW C \in SUBSET Calls, Fail(C) PROVE TypeOK' /\ AnswersFit'
  <2>1. TypeOK'
    BY <1>7 DEF Fail, TypeOK
  <2> QED
    BY <1>7, <2>1 DEF Fail, TypeOK, AnswersFit, Winner
<1>8. CASE UNCHANGED vars
  BY <1>8 DEF vars, TypeOK, AnswersFit, Winner
<1> QED
  BY <1>1, <1>2, <1>3, <1>4, <1>5, <1>6, <1>7, <1>8 DEF Next, Step

(* A removal does not become undone, and a winner stays one until it fails. *)
LEMMA WinnersStep == IInv /\ [Next]_vars => WinnersAreNotLost' /\ OneWinnerPerVersion'
<1> SUFFICES ASSUME IInv, [Next]_vars
             PROVE WinnersAreNotLost' /\ OneWinnerPerVersion'
  OBVIOUS
<1>0. TypeOK /\ AnswersFit /\ WinnersAreNotLost /\ OneWinnerPerVersion /\ TypeOK' /\ AnswersFit'
  BY TypeStep DEF IInv
<1> USE Distinct
<1>1. ASSUME NEW c \in Calls, Swap(c) PROVE WinnersAreNotLost' /\ OneWinnerPerVersion'
  <2> DEFINE s == req[c].subject
             e == req[c].expected
  <2>1. /\ s \in Subjects /\ e \in Nat /\ rows[s].ver = e /\ req' = req
        /\ rows'[s] = Stored(c, e) /\ \A t \in Subjects \ {s} : rows'[t] = rows[t]
        /\ ans'[c] = Won(Stored(c, e)) /\ \A d \in Calls \ {c} : ans'[d] = ans[d]
        /\ ans[c] = Pending /\ \A d \in Calls : req[d] # NoRequest => req[d] \in Request
    BY <1>0, <1>1 DEF Swap, Decide, Matches, TypeOK, AnswersFit, Request
  <2>2. ASSUME NEW t \in Subjects PROVE Undeleted(t)' <=> Undeleted(t)
    BY <2>1 DEF Undeleted
  <2>3. ASSUME NEW d \in Calls \ {c}
        PROVE /\ Winner(d)' <=> Winner(d)
              /\ Winner(d) => req[d] \in Request /\ ans[d].row = Stored(d, req[d].expected)
    BY <1>0, <2>1 DEF Winner, AnswersFit
  <2>4. Stored(c, e).ver = e + 1 /\ Stored(c, e).by = c /\ Stored(c, e) \in Row
    BY <2>1, StoredIsRow
  <2>5. ASSUME NEW d \in Calls \ {c}, Winner(d), Undeleted(req[d].subject), req[d].subject = s
        PROVE req[d].expected < e
    <3>1. rows[s].ver >= ans[d].row.ver
      BY <1>0, <2>5 DEF WinnersAreNotLost
    <3>2. ans[d].row.ver = req[d].expected + 1 /\ req[d].expected \in Nat
      BY <2>3, <2>5, StoredIsRow DEF Request
    <3> QED
      BY <2>1, <3>1, <3>2
  <2>6. WinnersAreNotLost'
    <3> SUFFICES ASSUME NEW d \in Calls, Winner(d)', Undeleted(req[d].subject)'
                 PROVE /\ rows'[req[d].subject].ver >= ans'[d].row.ver
                       /\ rows'[req[d].subject].ver = ans'[d].row.ver => rows'[req[d].subject].by = d
      BY <2>1 DEF WinnersAreNotLost
    <3>1. CASE d = c
      BY <2>1, <2>4, <3>1
    <3>2. CASE d # c /\ req[d].subject = s
      <4>1. Winner(d) /\ Undeleted(req[d].subject)
        BY <2>1, <2>2, <2>3, <3>2
      <4>2. req[d].expected < e /\ req[d].expected \in Nat
        BY <2>3, <2>5, <3>2, <4>1 DEF Request
      <4>3. ans'[d].row.ver = req[d].expected + 1
        BY <2>1, <2>3, <3>2, <4>1, <4>2, StoredIsRow
      <4> QED
        BY <2>1, <2>4, <3>2, <4>2, <4>3
    <3>3. CASE d # c /\ req[d].subject # s
      <4>1. Winner(d) /\ req[d].subject \in Subjects
        BY <2>3, <3>3 DEF Request
      <4>2. Undeleted(req[d].subject)
        BY <2>1, <2>2, <4>1
      <4> QED
        BY <1>0, <2>1, <3>3, <4>1, <4>2 DEF WinnersAreNotLost
    <3> QED
      BY <3>1, <3>2, <3>3
  <2>7. OneWinnerPerVersion'
    <3> SUFFICES ASSUME NEW d \in Calls, NEW f \in Calls, Winner(d)', Winner(f)', d # f,
                        req[d].subject = req[f].subject, req[d].expected = req[f].expected,
                        Undeleted(req[d].subject)'
                 PROVE FALSE
      BY <2>1 DEF OneWinnerPerVersion, Same
    <3>1. CASE d = c
      BY <2>1, <2>2, <2>3, <2>5, <3>1
    <3>2. CASE f = c
      BY <2>1, <2>2, <2>3, <2>5, <3>2
    <3>3. CASE d # c /\ f # c
      <4>1. Winner(d) /\ Winner(f) /\ req[d].subject \in Subjects
        BY <2>3, <3>3 DEF Request
      <4> QED
        BY <1>0, <2>1, <2>2, <4>1 DEF OneWinnerPerVersion, Same
    <3> QED
      BY <3>1, <3>2, <3>3
  <2> QED
    BY <2>6, <2>7
<1>2. ASSUME NEW c \in Calls, Delete(c) PROVE WinnersAreNotLost' /\ OneWinnerPerVersion'
  <2>1. /\ req[c] \in Request /\ req[c] # NoRequest /\ req[c].op = "delete" /\ req' = req
        /\ \A t \in Subjects \ {req[c].subject} : rows'[t] = rows[t]
    BY <1>0, <1>2 DEF Delete, Decide, TypeOK, AnswersFit
  <2>2. \A d \in Calls : Winner(d)' => Winner(d) /\ ans'[d] = ans[d] /\ req[d].subject \in Subjects
    BY <1>0, <1>2, <2>1 DEF Delete, Decide, TypeOK, Winner, AnswersFit, Request
  <2>3. \A t \in Subjects : Undeleted(t)' => Undeleted(t) /\ t # req[c].subject
    BY <2>1 DEF Undeleted
  <2> QED
    BY <1>0, <2>1, <2>2, <2>3 DEF WinnersAreNotLost, OneWinnerPerVersion, Same
<1>3. ASSUME NEW c \in Calls, NEW r \in Requests, Invoke(c, r)
      PROVE WinnersAreNotLost' /\ OneWinnerPerVersion'
  <2>1. /\ req[c] = NoRequest /\ ~Winner(c)' /\ rows' = rows /\ ans' = ans
        /\ \A d \in Calls \ {c} : req'[d] = req[d]
    BY <1>0, <1>3 DEF Invoke, TypeOK, AnswersFit, Winner
  <2>2. \A t \in Subjects : Undeleted(t)' => Undeleted(t)
    BY <2>1 DEF Undeleted
  <2>3. \A d \in Calls : Winner(d)' => d # c /\ Winner(d) /\ req[d].subject \in Subjects
    BY <1>0, <2>1 DEF Winner, AnswersFit, Request
  <2> QED
    BY <1>0, <2>1, <2>2, <2>3 DEF WinnersAreNotLost, OneWinnerPerVersion, Same
<1>4. ASSUME rows' = rows, req' = req, \A d \in Calls : Winner(d)' => ans'[d] = ans[d]
      PROVE WinnersAreNotLost' /\ OneWinnerPerVersion'
  <2>1. \A t : Undeleted(t)' <=> Undeleted(t)
    BY <1>4 DEF Undeleted
  <2>2. \A d \in Calls : Winner(d)' => Winner(d)
    BY <1>4 DEF Winner
  <2> QED
    BY <1>0, <1>4, <2>1, <2>2 DEF WinnersAreNotLost, OneWinnerPerVersion, Same
<1>5. ASSUME NEW c \in Calls, Load(c) \/ Refuse(c) PROVE WinnersAreNotLost' /\ OneWinnerPerVersion'
  <2>1. req[c] \in Request /\ rows[req[c].subject] \in Row
    BY <1>0, <1>5 DEF Load, Refuse, Decide, TypeOK, AnswersFit, Request
  <2>2. \A d \in Calls : Winner(d)' => ans'[d] = ans[d]
    BY <1>0, <1>5, <2>1 DEF Load, Refuse, Decide, TypeOK, Winner
  <2> QED
    BY <1>4, <1>5, <2>2 DEF Load, Refuse, Decide
<1>6. ASSUME NEW c \in Calls, Return(c) PROVE WinnersAreNotLost' /\ OneWinnerPerVersion'
  BY <1>4, <1>6 DEF Return
<1>7. ASSUME NEW C \in SUBSET Calls, Fail(C) PROVE WinnersAreNotLost' /\ OneWinnerPerVersion'
  BY <1>4, <1>7 DEF Fail, Winner
<1>8. CASE UNCHANGED vars
  BY <1>4, <1>8 DEF vars
<1> QED
  BY <1>1, <1>2, <1>3, <1>5, <1>6, <1>7, <1>8 DEF Next, Step

THEOREM Invariance == Spec => []IInv
<1>1. IInv /\ [Next]_vars => IInv'
  BY TypeStep, WinnersStep DEF IInv
<1> QED
  BY InitHolds, <1>1, PTL DEF Spec

(* Every variable keeps its type. *)
THEOREM StoreTypeCorrect == Spec => []TypeOK
<1>1. IInv => TypeOK
  BY DEF IInv
<1> QED
  BY Invariance, <1>1, PTL

(* Of the writes that expect the same version exactly one wins, unless the  *)
(* row was removed.                                                         *)
THEOREM ExactlyOneWins == Spec => []OneWinnerPerVersion
<1>1. IInv => OneWinnerPerVersion
  BY DEF IInv
<1> QED
  BY Invariance, <1>1, PTL

(* No later write takes the place of a winner's without following it. *)
THEOREM WinnersStay == Spec => []WinnersAreNotLost
<1>1. IInv => WinnersAreNotLost
  BY DEF IInv
<1> QED
  BY Invariance, <1>1, PTL

=============================================================================
