-------------------------- MODULE SecureStoreProofs --------------------------
(***************************************************************************)
(* The React Native store implements the abstract store, for any number of *)
(* calls and subjects: the chain of promises of a subject lets one call at *)
(* a time between its first request to the secure storage and its last.    *)
(***************************************************************************)
EXTENDS SecureStore, TLAPS

Deciding == {"idle", "load", "queued", "get", "set", "delete"}
Chained  == {"queued", "get", "set", "delete", "release"}
OnTurn   == {"get", "set", "delete", "release"}

(* What a call has asked and been told, by where it is. *)
CallsFit ==
  \A c \in Calls :
    /\ pc[c] = "idle" => req[c] = NoRequest
    /\ pc[c] # "idle" => req[c] \in Requests
    /\ pc[c] \in Deciding => ans[c] = Pending
    /\ pc[c] = "load" => req[c].op = "load"
    /\ pc[c] = "queued" => req[c].op \in {"cas", "delete"}
    /\ pc[c] \in {"get", "set"} => req[c].op = "cas"
    /\ pc[c] = "delete" => req[c].op = "delete"

(* The calls of a subject that have not released, and where each stands in  *)
(* its chain: behind every other is the tail, and before each is one of     *)
(* them that comes after all the others before it.                          *)
Chain(s) == {c \in Calls : pc[c] \in Chained /\ req[c].subject = s}

InOrder(place) ==
  \A s \in Subjects :
    /\ tail[s] = NoCall => Chain(s) = {}
    /\ tail[s] # NoCall => tail[s] \in Chain(s) /\ \A c \in Chain(s) : place[c] <= place[tail[s]]
    /\ \A c, d \in Chain(s) :
         /\ place[c] = place[d] => c = d
         /\ place[c] < place[d] => prev[d] \in Chain(s) /\ place[c] <= place[prev[d]]

ChainsFit == \E place \in [Calls -> Nat] : InOrder(place)

(* A call whose turn it is waits for no one. *)
TurnsFit ==
  \A c \in Calls : pc[c] \in OnTurn => prev[c] \in {NoCall} \cup {d \in Calls : Released(d)}

(* The row a call decided on is still the one its request asks for when it  *)
(* is stored.                                                               *)
WritesFit ==
  \A c \in Calls : pc[c] = "set" =>
    /\ items[req[c].subject].ver = req[c].expected
    /\ todo[c] = Stored(c, req[c].expected)

IInv == TypeOK /\ CallsFit /\ ChainsFit /\ TurnsFit /\ WritesFit

LEMMA Data ==
  /\ Missing \in Row /\ Pending \in Answer /\ Deleted \in Answer /\ Failed \in Answer
  /\ \A r \in Row : Found(r) \in Answer /\ Won(r) \in Answer /\ Lost(r) \in Answer
  /\ \A c \in Calls, e \in Nat : Stored(c, e) \in Row
  /\ \A q \in Requests : q \in Request /\ q # NoRequest
  /\ Deleted # Failed /\ Pending # Failed
  /\ \A r : Found(r) # Failed /\ Won(r) # Failed /\ Lost(r) # Failed
BY RequestsAssumption DEF Missing, Row, Pending, Deleted, Failed, Found, Won, Lost,
   Answer, Stored, Request, NoRequest

LEMMA InitHolds == Init => IInv
<1> SUFFICES ASSUME Init PROVE IInv
  OBVIOUS
<1>1. TypeOK /\ CallsFit /\ TurnsFit /\ WritesFit
  BY Data DEF Init, TypeOK, Phases, CallsFit, TurnsFit, WritesFit, SomeRows, Row, Missing,
     Deciding, OnTurn
<1>2. \A s \in Subjects : Chain(s) = {} /\ tail[s] = NoCall
  BY DEF Init, Chain, Chained
<1>3. InOrder([c \in Calls |-> 0])
  BY <1>2 DEF InOrder
<1>4. ChainsFit
  BY <1>3 DEF ChainsFit
<1> QED
  BY <1>1, <1>4 DEF IInv

(* Two calls of a subject are never both on their turn. *)
LEMMA OneOnTurn ==
  ASSUME IInv, NEW c \in Calls, NEW d \in Calls, pc[c] \in OnTurn, pc[d] \in OnTurn,
         req[c].subject = req[d].subject
  PROVE  c = d
<1>1. PICK place \in [Calls -> Nat] : InOrder(place)
  BY DEF IInv, ChainsFit
<1>2. req[c].subject \in Subjects
  BY Data DEF IInv, CallsFit, OnTurn, Request
<1>3. c \in Chain(req[c].subject) /\ d \in Chain(req[c].subject)
  BY DEF Chain, Chained, OnTurn
<1>4. \A x \in Calls : pc[x] \in OnTurn => prev[x] \notin Chain(req[x].subject)
  BY NoCallAssumption DEF IInv, TurnsFit, Chain, Chained, Released
<1>5. ~(place[c] < place[d]) /\ ~(place[d] < place[c])
  BY <1>1, <1>2, <1>3, <1>4 DEF InOrder
<1> QED
  BY <1>1, <1>2, <1>3, <1>5 DEF InOrder

(* Chains that stay as they are stay in order. *)
LEMMA ChainsStay ==
  ASSUME ChainsFit, NEW c \in Calls, NEW phase, pc \in [Calls -> Phases], Goto(c, phase),
         pc[c] \in Chained <=> phase \in Chained, UNCHANGED <<tail, prev, req>>
  PROVE  ChainsFit'
<1>1. PICK place \in [Calls -> Nat] : InOrder(place)
  BY DEF ChainsFit
<1>2. \A s \in Subjects : Chain(s)' = Chain(s)
  BY DEF Chain, Goto
<1>3. InOrder(place)'
  BY <1>1, <1>2 DEF InOrder
<1> QED
  BY <1>3 DEF ChainsFit

(* A call that asks to change a subject comes behind the tail. *)
LEMMA InvokeKeepsOrder ==
  ASSUME IInv, NEW c \in Calls, NEW r \in Requests, Invoke(c, r), r.op # "load"
  PROVE  ChainsFit'
<1> DEFINE s == r.subject
           t == tail[s]
<1>1. PICK place \in [Calls -> Nat] : InOrder(place)
  BY DEF IInv, ChainsFit
<1>2. s \in Subjects
  BY Data DEF Request
<1>3. /\ pc[c] = "idle" /\ pc' = [pc EXCEPT ![c] = "queued"] /\ req' = [req EXCEPT ![c] = r]
      /\ prev' = [prev EXCEPT ![c] = t] /\ tail' = [tail EXCEPT ![s] = c]
  BY DEF Invoke, Goto
<1>4. t # NoCall => t \in Chain(s) /\ t \in Calls
  BY <1>1, <1>2 DEF InOrder, Chain
<1>a. PICK last \in Nat : last = IF t = NoCall THEN 0 ELSE place[t] + 1
  BY <1>1, <1>4
<1>5. PICK next \in [Calls -> Nat] : next[c] = last /\ \A d \in Calls \ {c} : next[d] = place[d]
  <2>1. /\ [place EXCEPT ![c] = last] \in [Calls -> Nat] /\ [place EXCEPT ![c] = last][c] = last
        /\ \A d \in Calls \ {c} : [place EXCEPT ![c] = last][d] = place[d]
    OBVIOUS
  <2> QED
    BY <2>1
<1>6. /\ Chain(s)' = Chain(s) \cup {c}
      /\ \A x \in Subjects \ {s} : Chain(x)' = Chain(x) /\ tail'[x] = tail[x]
      /\ \A x \in Subjects : c \notin Chain(x) /\ Chain(x) \subseteq Calls
      /\ tail'[s] = c /\ prev'[c] = t /\ \A d \in Calls \ {c} : prev'[d] = prev[d]
  BY <1>2, <1>3 DEF IInv, TypeOK, Chain, Chained
<1>7. \A d \in Chain(s) : place[d] < last /\ t \in Chain(s) /\ place[d] <= place[t]
  <2> SUFFICES ASSUME NEW d \in Chain(s)
               PROVE place[d] < last /\ t \in Chain(s) /\ place[d] <= place[t]
    OBVIOUS
  <2>1. t # NoCall /\ t \in Chain(s) /\ place[d] <= place[t]
    BY <1>1, <1>2 DEF InOrder
  <2>2. place[d] \in Nat /\ place[t] \in Nat
    BY <1>2, <1>4, <1>6, <2>1
  <2> QED
    BY <1>a, <2>1, <2>2
<1>8. ASSUME NEW x \in Subjects
      PROVE  /\ tail'[x] = NoCall => Chain(x)' = {}
             /\ tail'[x] # NoCall => tail'[x] \in Chain(x)' /\ \A e \in Chain(x)' : next[e] <= next[tail'[x]]
             /\ \A e, f \in Chain(x)' :
                  /\ next[e] = next[f] => e = f
                  /\ next[e] < next[f] => prev'[f] \in Chain(x)' /\ next[e] <= next[prev'[f]]
  <2>1. CASE x # s
    <3>1. Chain(x)' = Chain(x) /\ tail'[x] = tail[x] /\ \A e \in Chain(x) : e \in Calls \ {c}
      BY <1>6, <2>1
    <3>2. \A e \in Chain(x) : next[e] = place[e] /\ prev'[e] = prev[e]
      BY <1>5, <1>6, <3>1
    <3>3. /\ tail[x] = NoCall => Chain(x) = {}
          /\ tail[x] # NoCall => tail[x] \in Chain(x) /\ \A e \in Chain(x) : place[e] <= place[tail[x]]
          /\ \A e, f \in Chain(x) :
               /\ place[e] = place[f] => e = f
               /\ place[e] < place[f] => prev[f] \in Chain(x) /\ place[e] <= place[prev[f]]
      BY <1>1 DEF InOrder
    <3> QED
      BY <3>1, <3>2, <3>3
  <2>2. CASE x = s
    <3>1. \A e \in Chain(s) : e \in Calls \ {c} /\ next[e] = place[e] /\ prev'[e] = prev[e]
      BY <1>2, <1>5, <1>6
    <3>2. \A e, f \in Chain(s) :
            /\ place[e] = place[f] => e = f
            /\ place[e] < place[f] => prev[f] \in Chain(s) /\ place[e] <= place[prev[f]]
      BY <1>1, <1>2 DEF InOrder
    <3>3. c # NoCall
      BY NoCallAssumption
    <3>4. \A e \in Chain(s) : next[e] < next[c] /\ prev'[c] \in Chain(s) /\ next[e] <= next[prev'[c]]
      BY <1>5, <1>6, <1>7, <3>1
    <3>5. \A e \in Chain(s) \cup {c} : next[e] \in Nat
      BY <1>2, <1>5, <1>6
    <3>6. \A e, f \in Chain(s) \cup {c} :
            /\ next[e] = next[f] => e = f
            /\ next[e] < next[f] => prev'[f] \in Chain(s) \cup {c} /\ next[e] <= next[prev'[f]]
      BY <3>1, <3>2, <3>4, <3>5
    <3> QED
      BY <1>6, <2>2, <3>3, <3>4, <3>5, <3>6
  <2> QED
    BY <2>1, <2>2
<1>9. InOrder(next)'
  BY <1>8 DEF InOrder
<1> QED
  BY <1>5, <1>9 DEF ChainsFit

(* The call that releases is the first of its chain. *)
LEMMA ReleaseKeepsOrder ==
  ASSUME IInv, NEW c \in Calls, Release(c)
  PROVE  ChainsFit'
<1>0. PICK s \in Subjects : s = req[c].subject
  BY Data DEF IInv, CallsFit, Request, Release
<1>1. PICK place \in [Calls -> Nat] : InOrder(place)
  BY DEF IInv, ChainsFit
<1>2. /\ pc[c] = "release" /\ pc' = [pc EXCEPT ![c] = "return"] /\ req' = req
      /\ tail' = [tail EXCEPT ![s] = IF @ = c THEN NoCall ELSE @]
      /\ prev' = [prev EXCEPT ![c] = NoCall]
  BY <1>0 DEF Release, Goto
<1>3. c \in Chain(s) /\ prev[c] \notin Chain(s)
  BY <1>0, <1>2, NoCallAssumption DEF IInv, TurnsFit, OnTurn, Chain, Chained, Released
<1>4. /\ Chain(s)' = Chain(s) \ {c}
      /\ \A x \in Subjects \ {s} : Chain(x)' = Chain(x) /\ tail'[x] = tail[x] /\ c \notin Chain(x)
      /\ tail'[s] = IF tail[s] = c THEN NoCall ELSE tail[s]
      /\ \A d \in Calls \ {c} : prev'[d] = prev[d]
      /\ \A x \in Subjects : Chain(x) \subseteq Calls
  BY <1>0, <1>2 DEF IInv, TypeOK, Chain, Chained
<1>5. \A x \in Subjects :
        /\ tail[x] = NoCall => Chain(x) = {}
        /\ tail[x] # NoCall => tail[x] \in Chain(x) /\ \A d \in Chain(x) : place[d] <= place[tail[x]]
        /\ \A d, e \in Chain(x) :
             /\ place[d] = place[e] => d = e
             /\ place[d] < place[e] => prev[e] \in Chain(x) /\ place[d] <= place[prev[e]]
  BY <1>1 DEF InOrder
<1>6. \A d \in Chain(s) : place[c] <= place[d] /\ place[d] \in Nat
  BY <1>1, <1>3, <1>4, <1>5
<1>7. \A d \in Chain(s) \ {c} : place[c] < place[d]
  BY <1>3, <1>5, <1>6
<1>8. tail[s] = c => Chain(s) = {c}
  BY <1>3, <1>4, <1>5, <1>6, <1>7, NoCallAssumption
<1>9. \A d, e \in Chain(s) \ {c} : place[d] < place[e] => prev[e] \in Chain(s) \ {c} /\ prev'[e] = prev[e]
  BY <1>3, <1>4, <1>5, <1>6, <1>7
<1>10. InOrder(place)'
  <2> SUFFICES ASSUME NEW x \in Subjects
      PROVE  /\ tail'[x] = NoCall => Chain(x)' = {}
             /\ tail'[x] # NoCall => tail'[x] \in Chain(x)' /\ \A e \in Chain(x)' : place[e] <= place[tail'[x]]
             /\ \A e, f \in Chain(x)' :
                  /\ place[e] = place[f] => e = f
                  /\ place[e] < place[f] => prev'[f] \in Chain(x)' /\ place[e] <= place[prev'[f]]
    BY DEF InOrder
  <2>1. CASE x # s
    <3>1. Chain(x)' = Chain(x) /\ tail'[x] = tail[x] /\ \A e \in Chain(x) : prev'[e] = prev[e]
      BY <1>4, <2>1
    <3> QED
      BY <1>5, <3>1
  <2>2. CASE x = s
    <3>1. tail'[s] = NoCall => Chain(s)' = {}
      BY <1>3, <1>4, <1>5, <1>8
    <3>2. tail'[s] # NoCall => tail'[s] \in Chain(s)' /\ \A e \in Chain(s)' : place[e] <= place[tail'[s]]
      BY <1>3, <1>4, <1>5
    <3>3. \A e, f \in Chain(s) \ {c} :
             /\ place[e] = place[f] => e = f
             /\ place[e] < place[f] => prev'[f] \in Chain(s) \ {c} /\ place[e] <= place[prev'[f]]
      BY <1>3, <1>5, <1>9
    <3> QED
      BY <1>4, <2>2, <3>1, <3>2, <3>3
  <2> QED
    BY <2>1, <2>2
<1> QED
  BY <1>1, <1>10 DEF ChainsFit

(* A process that comes back has no chains. *)
LEMMA RestartKeepsOrder == Restart => ChainsFit'
<1> SUFFICES ASSUME Restart PROVE ChainsFit'
  OBVIOUS
<1>1. \A s \in Subjects : Chain(s)' = {} /\ tail'[s] = NoCall
  BY DEF Restart, Chain, Chained, Running
<1>2. InOrder([c \in Calls |-> 0])'
  BY <1>1 DEF InOrder
<1> QED
  BY <1>2 DEF ChainsFit

(* A call that has been invoked moves on. *)
LEMMA MoveFits ==
  ASSUME IInv, NEW c \in Calls, pc[c] # "idle", req' = req,
         NEW phase \in Phases \ {"idle", "load", "queued"}, Goto(c, phase),
         NEW answer \in Answer, Answers(c, answer), phase \in Deciding => answer = Pending,
         phase \in {"get", "set"} => req[c].op = "cas", phase = "delete" => req[c].op = "delete",
         items' \in [Subjects -> Row], tail' \in [Subjects -> Calls \cup {NoCall}],
         prev' \in [Calls -> Calls \cup {NoCall}], todo' \in [Calls -> Row]
  PROVE  TypeOK' /\ CallsFit'
<1>1. /\ pc' = [pc EXCEPT ![c] = phase] /\ ans' = [ans EXCEPT ![c] = answer]
      /\ pc \in [Calls -> Phases] /\ ans \in [Calls -> Answer]
  BY DEF Goto, Answers, IInv, TypeOK
<1>2. TypeOK'
  BY <1>1 DEF IInv, TypeOK
<1>3. CallsFit'
  BY <1>1 DEF IInv, CallsFit
<1> QED
  BY <1>2, <1>3

(* A call that comes to its turn waits for no one, and nobody who was       *)
(* waited for is back.                                                      *)
LEMMA TurnsStay ==
  ASSUME IInv, NEW c \in Calls, NEW phase, Goto(c, phase), prev' = prev,
         Released(c) => phase \in {"return", "done"},
         phase \in OnTurn => prev[c] \in {NoCall} \cup {d \in Calls : Released(d)}
  PROVE  TurnsFit'
<1>1. pc' = [pc EXCEPT ![c] = phase] /\ pc \in [Calls -> Phases]
  BY DEF Goto, IInv, TypeOK
<1>2. \A d \in Calls : Released(d) => Released(d)'
  BY <1>1 DEF Released
<1> QED
  BY <1>1, <1>2 DEF IInv, TurnsFit

(* What the others decided on stands while the storage does. *)
LEMMA WritesStay ==
  ASSUME IInv, NEW c \in Calls, NEW phase, Goto(c, phase), req' = req, items' = items,
         \A d \in Calls \ {c} : todo'[d] = todo[d],
         phase = "set" => items[req[c].subject].ver = req[c].expected
                          /\ todo'[c] = Stored(c, req[c].expected)
  PROVE  WritesFit'
BY DEF Goto, IInv, TypeOK, WritesFit

(* The call on its turn is the only one that changes its subject's row. *)
LEMMA WriterIsAlone ==
  ASSUME IInv, NEW c \in Calls, pc[c] \in OnTurn, NEW row,
         items' = [items EXCEPT ![req[c].subject] = row], UNCHANGED <<req, todo>>, Goto(c, "release")
  PROVE  WritesFit'
<1> SUFFICES ASSUME NEW d \in Calls, pc'[d] = "set"
             PROVE  items'[req[d].subject].ver = req[d].expected
                    /\ todo[d] = Stored(d, req[d].expected)
  BY DEF WritesFit
<1>1. d # c /\ pc[d] = "set"
  BY DEF Goto, IInv, TypeOK
<1>2. req[d].subject # req[c].subject
  BY <1>1, OneOnTurn DEF OnTurn
<1>3. items'[req[d].subject] = items[req[d].subject]
  <2>1. req[d].subject \in Subjects
    BY <1>1, Data DEF IInv, CallsFit, Request
  <2> QED
    BY <1>2, <2>1 DEF IInv, TypeOK
<1> QED
  BY <1>1, <1>3 DEF IInv, WritesFit

(* Where a rejected call goes: to its release, if it is on its turn. *)
RejectedTo(c, phase) == Goto(c, phase) /\ (pc[c] \in OnTurn <=> phase = "release")

LEMMA NextHolds == IInv /\ [Next]_vars => IInv'
<1> SUFFICES ASSUME IInv, [Next]_vars PROVE IInv'
  OBVIOUS
<1> USE Data
<1>0. /\ TypeOK /\ CallsFit /\ ChainsFit /\ TurnsFit /\ WritesFit
      /\ pc \in [Calls -> Phases] /\ ans \in [Calls -> Answer]
  BY DEF IInv, TypeOK
<1>1. ASSUME NEW c \in Calls, pc[c] # "idle"
      PROVE /\ req[c] \in Request /\ req[c].subject \in Subjects /\ req[c].expected \in Nat
            /\ items[req[c].subject] \in Row /\ ans[c] \in Answer
            /\ ans' = ans => Answers(c, ans[c])
            /\ \A e \in Nat : Stored(c, e) \in Row
  <2>1. req[c] \in Request
    BY <1>0, <1>1 DEF CallsFit
  <2>2. req[c].subject \in Subjects /\ req[c].expected \in Nat
    BY <2>1 DEF Request
  <2> QED
    BY <1>0, <2>1, <2>2 DEF TypeOK, Answers
<1>2. ASSUME NEW c \in Calls, NEW r \in Requests, Invoke(c, r) PROVE IInv'
  <2>0. r \in Request /\ r.op \in {"load", "cas", "delete"} /\ r.subject \in Subjects
    BY DEF Request
  <2>1. pc[c] = "idle" /\ req' = [req EXCEPT ![c] = r] /\ UNCHANGED <<items, ans, todo>>
    BY <1>2 DEF Invoke
  <2>2. CASE r.op = "load"
    <3>1. Goto(c, "load") /\ pc' = [pc EXCEPT ![c] = "load"] /\ UNCHANGED <<tail, prev>>
      BY <1>2, <2>2 DEF Invoke, Goto
    <3>2. TypeOK'
      BY <1>0, <2>0, <2>1, <3>1 DEF TypeOK, Phases
    <3>3. CallsFit'
      BY <1>0, <2>1, <2>2, <3>1 DEF CallsFit, TypeOK, Deciding
    <3>4. \A s \in Subjects : Chain(s)' = Chain(s)
      BY <1>0, <2>1, <3>1 DEF Chain, Chained, TypeOK
    <3>5. ChainsFit'
      BY <1>0, <3>1, <3>4 DEF ChainsFit, InOrder
    <3>6. TurnsFit' /\ WritesFit'
      BY <1>0, <2>1, <3>1 DEF TurnsFit, WritesFit, Released, OnTurn, TypeOK
    <3> QED
      BY <3>2, <3>3, <3>5, <3>6 DEF IInv
  <2>3. CASE r.op # "load"
    <3>1. /\ pc' = [pc EXCEPT ![c] = "queued"] /\ tail' = [tail EXCEPT ![r.subject] = c]
          /\ prev' = [prev EXCEPT ![c] = tail[r.subject]]
      BY <1>2, <2>3 DEF Invoke, Goto
    <3>2. TypeOK'
      BY <1>0, <2>0, <2>1, <3>1 DEF TypeOK, Phases
    <3>3. CallsFit'
      BY <1>0, <2>0, <2>1, <2>3, <3>1 DEF CallsFit, TypeOK, Deciding
    <3>4. TurnsFit' /\ WritesFit'
      BY <1>0, <2>1, <3>1 DEF TurnsFit, WritesFit, Released, OnTurn, TypeOK
    <3> QED
      BY <1>2, <2>3, <3>2, <3>3, <3>4, InvokeKeepsOrder DEF IInv
  <2> QED
    BY <2>2, <2>3
<1>3. ASSUME NEW c \in Calls, Load(c) PROVE IInv'
  <2>1. /\ pc[c] = "load" /\ Goto(c, "return") /\ UNCHANGED <<items, tail, prev, req, todo>>
        /\ Answers(c, Found(items[req[c].subject])) /\ Found(items[req[c].subject]) \in Answer
    BY <1>1, <1>3 DEF Load
  <2>2. TypeOK' /\ CallsFit'
    BY <1>0, <2>1, MoveFits DEF TypeOK, Phases, Deciding
  <2> QED
    BY <1>0, <2>1, <2>2, ChainsStay, TurnsStay, WritesStay DEF IInv, Chained, OnTurn
<1>4. ASSUME NEW c \in Calls, Enter(c) PROVE IInv'
  <2> DEFINE phase == IF req[c].op = "cas" THEN "get" ELSE "delete"
  <2>1. /\ pc[c] = "queued" /\ Goto(c, phase) /\ UNCHANGED <<items, tail, prev, req, ans, todo>>
        /\ prev[c] \in {NoCall} \cup {d \in Calls : Released(d)}
        /\ req[c].op \in {"cas", "delete"} /\ ans[c] = Pending
        /\ phase = "get" => req[c].op = "cas"
        /\ phase = "delete" => req[c].op = "delete"
        /\ phase \in {"get", "delete"}
    BY <1>0, <1>4 DEF Enter, CallsFit, Deciding
  <2> HIDE DEF phase
  <2>2. Answers(c, ans[c]) /\ ans[c] \in Answer
    BY <1>1, <2>1
  <2>3. TypeOK' /\ CallsFit'
    BY <1>0, <2>1, <2>2, MoveFits DEF TypeOK, Phases
  <2>4. ChainsFit' /\ TurnsFit'
    BY <1>0, <2>1, ChainsStay, TurnsStay DEF Chained, Released
  <2>5. WritesFit'
    BY <1>0, <2>1, WritesStay
  <2> QED
    BY <2>3, <2>4, <2>5 DEF IInv
<1>5. ASSUME NEW c \in Calls, GetItem(c) PROVE IInv'
  <2>1. pc[c] = "get" /\ UNCHANGED <<items, tail, prev, req>> /\ req[c].op = "cas"
    BY <1>0, <1>5 DEF GetItem, CallsFit
  <2>2. prev[c] \in {NoCall} \cup {d \in Calls : Released(d)} /\ ans[c] = Pending
    BY <1>0, <2>1 DEF TurnsFit, OnTurn, CallsFit, Deciding
  <2>3. CASE items[req[c].subject].ver = req[c].expected
    <3>1. /\ todo' = [todo EXCEPT ![c] = Stored(c, req[c].expected)]
          /\ Goto(c, "set") /\ Answers(c, ans[c]) /\ ans[c] \in Answer
      BY <1>1, <1>5, <2>1, <2>3 DEF GetItem
    <3>2. todo' \in [Calls -> Row] /\ todo'[c] = Stored(c, req[c].expected)
          /\ \A d \in Calls \ {c} : todo'[d] = todo[d]
      BY <1>0, <1>1, <2>1, <3>1 DEF TypeOK
    <3>3. TypeOK' /\ CallsFit'
      BY <1>0, <2>1, <2>2, <3>1, <3>2, MoveFits DEF TypeOK, Phases
    <3>4. ChainsFit' /\ TurnsFit'
      BY <1>0, <2>1, <2>2, <3>1, ChainsStay, TurnsStay DEF Chained, Released
    <3>5. WritesFit'
      BY <1>0, <2>1, <2>3, <3>1, <3>2, WritesStay
    <3> QED
      BY <3>3, <3>4, <3>5 DEF IInv
  <2>4. CASE items[req[c].subject].ver # req[c].expected
    <3>1. /\ Answers(c, Lost(items[req[c].subject])) /\ Lost(items[req[c].subject]) \in Answer
          /\ Goto(c, "release") /\ UNCHANGED todo
      BY <1>1, <1>5, <2>1, <2>4 DEF GetItem
    <3>2. TypeOK' /\ CallsFit'
      BY <1>0, <2>1, <3>1, MoveFits DEF TypeOK, Phases, Deciding
    <3>3. ChainsFit' /\ TurnsFit'
      BY <1>0, <2>1, <2>2, <3>1, ChainsStay, TurnsStay DEF Chained, Released
    <3>4. WritesFit'
      BY <1>0, <2>1, <3>1, WritesStay
    <3> QED
      BY <3>2, <3>3, <3>4 DEF IInv
  <2> QED
    BY <2>3, <2>4
<1>6. ASSUME NEW c \in Calls, NEW row \in Row, NEW answer \in Answer, pc[c] \in {"set", "delete"},
             items' = [items EXCEPT ![req[c].subject] = row], Answers(c, answer),
             Goto(c, "release"), UNCHANGED <<tail, prev, req, todo>>
      PROVE  IInv'
  <2>1. prev[c] \in {NoCall} \cup {d \in Calls : Released(d)}
    BY <1>0, <1>6 DEF TurnsFit, OnTurn
  <2>2. items' \in [Subjects -> Row]
    BY <1>0, <1>6 DEF TypeOK
  <2>3. TypeOK' /\ CallsFit'
    BY <1>0, <1>6, <2>2, MoveFits DEF TypeOK, Phases, Deciding
  <2>4. ChainsFit' /\ TurnsFit'
    BY <1>0, <1>6, <2>1, ChainsStay, TurnsStay DEF Chained, Released
  <2>5. WritesFit'
    BY <1>0, <1>6, WriterIsAlone DEF OnTurn
  <2> QED
    BY <2>3, <2>4, <2>5 DEF IInv
<1>7. ASSUME NEW c \in Calls, SetItem(c) \/ DeleteItem(c) PROVE IInv'
  <2>1. CASE SetItem(c)
    <3>1. todo[c] \in Row /\ Won(todo[c]) \in Answer
      BY <1>0 DEF TypeOK
    <3> QED
      BY <1>6, <2>1, <3>1 DEF SetItem
  <2>2. CASE DeleteItem(c)
    BY <1>6, <2>2 DEF DeleteItem
  <2> QED
    BY <1>7, <2>1, <2>2
<1>8. ASSUME NEW c \in Calls, Reject(c) PROVE IInv'
  <2>1. /\ Answers(c, Failed) /\ UNCHANGED <<items, tail, prev, req, todo>>
        /\ pc[c] \in {"load", "get", "set", "delete"}
        /\ RejectedTo(c, "return") \/ RejectedTo(c, "release")
    BY <1>8 DEF Reject, RejectedTo, OnTurn
  <2>2. ASSUME NEW x \in {"return", "release"}, RejectedTo(c, x) PROVE IInv'
    <3>1. Goto(c, x) /\ (pc[c] \in Chained <=> x \in Chained)
          /\ (x \in OnTurn => prev[c] \in {NoCall} \cup {d \in Calls : Released(d)})
      BY <1>0, <2>1, <2>2 DEF RejectedTo, Chained, OnTurn, TurnsFit
    <3>2. TypeOK' /\ CallsFit'
      BY <1>0, <2>1, <2>2, <3>1, MoveFits DEF TypeOK, Phases, Deciding
    <3>3. ChainsFit' /\ TurnsFit'
      BY <1>0, <2>1, <3>1, ChainsStay, TurnsStay DEF Released
    <3>4. WritesFit'
      BY <1>0, <2>1, <2>2, <3>1, WritesStay
    <3> QED
      BY <3>2, <3>3, <3>4 DEF IInv
  <2> QED
    BY <2>1, <2>2
<1>9. ASSUME NEW c \in Calls, Release(c) PROVE IInv'
  <2>1. /\ pc[c] = "release" /\ Goto(c, "return") /\ UNCHANGED <<items, req, ans>>
        /\ prev' = [prev EXCEPT ![c] = NoCall] /\ todo' = [todo EXCEPT ![c] = Missing]
        /\ tail' \in [Subjects -> Calls \cup {NoCall}]
    BY <1>0, <1>9 DEF Release, TypeOK
  <2>2. /\ ans[c] \in Answer /\ Answers(c, ans[c])
        /\ prev' \in [Calls -> Calls \cup {NoCall}] /\ todo' \in [Calls -> Row]
        /\ \A d \in Calls \ {c} : todo'[d] = todo[d]
    BY <1>0, <1>1, <2>1 DEF TypeOK
  <2>3. TypeOK' /\ CallsFit'
    BY <1>0, <2>1, <2>2, MoveFits DEF TypeOK, Phases, Deciding
  <2>4. TurnsFit'
    BY <1>0, <2>1 DEF TurnsFit, TypeOK, Goto, Released, OnTurn
  <2>5. WritesFit'
    BY <2>1, <2>2, WritesStay
  <2> QED
    BY <1>9, <2>3, <2>4, <2>5, ReleaseKeepsOrder DEF IInv
<1>10. ASSUME NEW c \in Calls, Return(c) PROVE IInv'
  <2>1. /\ pc[c] = "return" /\ Goto(c, "done") /\ UNCHANGED <<items, tail, prev, req, ans, todo>>
    BY <1>10 DEF Return
  <2>2. ans[c] \in Answer /\ Answers(c, ans[c])
    BY <1>1, <2>1
  <2>3. TypeOK' /\ CallsFit'
    BY <1>0, <2>1, <2>2, MoveFits DEF TypeOK, Phases, Deciding
  <2> QED
    BY <1>0, <2>1, <2>3, ChainsStay, TurnsStay, WritesStay DEF IInv, Chained, OnTurn
<1>11. ASSUME Restart PROVE IInv'
  <2> DEFINE dying == {c \in Calls : Running(c)}
  <2>1. /\ pc' = [c \in Calls |-> IF c \in dying THEN "done" ELSE pc[c]]
        /\ ans' = [c \in Calls |-> IF c \in dying THEN Failed ELSE ans[c]]
        /\ tail' = [s \in Subjects |-> NoCall]
        /\ prev' = [c \in Calls |-> NoCall] /\ todo' = [c \in Calls |-> Missing]
        /\ UNCHANGED <<items, req>>
    BY <1>11 DEF Restart
  <2>2. TypeOK'
    BY <1>0, <2>1 DEF TypeOK, Phases
  <2>3. \A c \in Calls : pc'[c] \in {"idle", "done"} /\ (pc'[c] = "idle" <=> pc[c] = "idle")
    BY <2>1 DEF Running
  <2>4. \A c \in Calls : pc[c] = "idle" => ans'[c] = ans[c]
    BY <2>1 DEF Running
  <2>5. CallsFit' /\ TurnsFit' /\ WritesFit'
    BY <1>0, <2>1, <2>3, <2>4 DEF CallsFit, TurnsFit, WritesFit, Deciding, OnTurn
  <2> QED
    BY <1>11, <2>2, <2>5, RestartKeepsOrder DEF IInv
<1>12. CASE UNCHANGED vars
  <2>1. TypeOK' /\ CallsFit' /\ TurnsFit' /\ WritesFit'
    BY <1>0, <1>12 DEF vars, TypeOK, CallsFit, TurnsFit, WritesFit, Released
  <2>2. \A s \in Subjects : Chain(s)' = Chain(s)
    BY <1>12 DEF vars, Chain
  <2>3. ChainsFit'
    <3>1. PICK place \in [Calls -> Nat] : InOrder(place)
      BY <1>0 DEF ChainsFit
    <3>2. InOrder(place)'
      BY <1>12, <2>2, <3>1 DEF vars, InOrder
    <3> QED
      BY <3>2 DEF ChainsFit
  <2> QED
    BY <2>1, <2>3 DEF IInv
<1> QED
  BY <1>2, <1>3, <1>4, <1>5, <1>7, <1>8, <1>9, <1>10, <1>11, <1>12 DEF Next, Step

THEOREM Invariance == Spec => []IInv
BY InitHolds, NextHolds, PTL DEF Spec


(* Every variable keeps its type. *)
THEOREM DeviceTypeCorrect == Spec => []TypeOK
<1>1. IInv => TypeOK
  BY DEF IInv
<1> QED
  BY Invariance, <1>1, PTL

(* The chain of promises is a lock: of the calls that change a subject one  *)
(* at a time is between its first request to the secure storage and its     *)
(* release, however the application's calls and restarts fall.              *)
OneCallAtATime ==
  \A c, d \in Calls :
    (pc[c] \in OnTurn /\ pc[d] \in OnTurn /\ req[c].subject = req[d].subject) => c = d

THEOREM OneCallOnTurn == Spec => []OneCallAtATime
<1>1. IInv => OneCallAtATime
  BY OneOnTurn DEF OneCallAtATime
<1> QED
  BY Invariance, <1>1, PTL

-----------------------------------------------------------------------------
(* The refinement: each step is a step of the abstract store or a stutter.  *)

AbstractPhase == [c \in Calls |-> Phase(c)]

(* The data of the abstract store is this store's. *)
LEMMA SameData ==
  /\ Abstract!SomeRows = SomeRows /\ Abstract!NoRequest = NoRequest
  /\ Abstract!Pending = Pending /\ Abstract!Deleted = Deleted /\ Abstract!Failed = Failed
  /\ Abstract!Missing = Missing
  /\ \A r : Abstract!Found(r) = Found(r) /\ Abstract!Won(r) = Won(r) /\ Abstract!Lost(r) = Lost(r)
  /\ \A c, e : Abstract!Stored(c, e) = Stored(c, e)
BY DEF SomeRows, Abstract!SomeRows, NoRequest, Abstract!NoRequest, Pending, Abstract!Pending,
   Deleted, Abstract!Deleted, Failed, Abstract!Failed, Missing, Abstract!Missing,
   Found, Abstract!Found, Won, Abstract!Won, Lost, Abstract!Lost, Stored, Abstract!Stored

LEMMA InitRefines == Init => Abstract!Init
BY SameData DEF Init, Abstract!Init, Phase

(* How the abstract phase changes with one call's. *)
LEMMA PhaseStep ==
  ASSUME NEW c \in Calls, NEW x, Phase(c)' = x,
         \A d \in Calls \ {c} : pc'[d] = pc[d] /\ ans'[d] = ans[d]
  PROVE  AbstractPhase' = [AbstractPhase EXCEPT ![c] = x]
<1>1. \A d \in Calls \ {c} : Phase(d)' = Phase(d)
  BY DEF Phase
<1> QED
  BY <1>1 DEF AbstractPhase

LEMMA DecideRefines ==
  ASSUME IInv, NEW c \in Calls, NEW answer, answer # Failed, Answers(c, answer), req' = req,
         pc[c] \in Deciding \ {"idle"}, NEW x \in {"return", "release"}, Goto(c, x)
  PROVE  Abstract!Decide(c, answer)
<1>1. /\ \A d \in Calls \ {c} : pc'[d] = pc[d] /\ ans'[d] = ans[d]
      /\ pc'[c] = x /\ ans'[c] = answer
  BY DEF Goto, Answers, IInv, TypeOK
<1>2. Phase(c) = "open" /\ Phase(c)' = "decided"
  BY <1>1 DEF Phase, Deciding
<1>3. AbstractPhase' = [AbstractPhase EXCEPT ![c] = "decided"] /\ AbstractPhase[c] = "open"
  BY <1>1, <1>2, PhaseStep DEF AbstractPhase
<1> QED
  BY <1>3 DEF Abstract!Decide, Answers, AbstractPhase

(* Calls that fail before they return fail in the abstract store.           *)
LEMMA FailRefines ==
  ASSUME NEW C \in SUBSET Calls, C # {},
         \A c \in C : Phase(c) \in {"open", "decided"} /\ Phase(c)' = "done",
         \A c \in Calls \ C : Phase(c)' = Phase(c),
         ans' = [c \in Calls |-> IF c \in C THEN Failed ELSE ans[c]],
         items' = items, req' = req
  PROVE  Abstract!Fail(C)
<1>1. [c \in Calls |-> Phase(c)]'
      = [c \in Calls |-> IF c \in C THEN "done" ELSE [d \in Calls |-> Phase(d)][c]]
  OBVIOUS
<1>2. \A c \in C : [d \in Calls |-> Phase(d)][c] \in {"open", "decided"}
  OBVIOUS
<1> QED
  BY <1>1, <1>2, SameData DEF Abstract!Fail

LEMMA StepRefines == IInv /\ [Next]_vars => [Abstract!Next]_(Abstract!vars)
<1> SUFFICES ASSUME IInv, [Next]_vars
             PROVE  [Abstract!Next]_(Abstract!vars)
  OBVIOUS
<1> USE Data, SameData
<1>0. /\ TypeOK /\ CallsFit /\ TurnsFit /\ WritesFit
      /\ pc \in [Calls -> Phases] /\ ans \in [Calls -> Answer] /\ items \in [Subjects -> Row]
  BY DEF IInv, TypeOK
<1>1. ASSUME UNCHANGED <<items, req, ans>>, \A c \in Calls : Phase(c)' = Phase(c)
      PROVE  UNCHANGED Abstract!vars
  BY <1>1 DEF Abstract!vars
<1>2. ASSUME NEW c \in Calls, NEW r \in Requests, Invoke(c, r) PROVE Abstract!Next
  <2>1. /\ \A d \in Calls \ {c} : pc'[d] = pc[d] /\ ans'[d] = ans[d]
        /\ pc[c] = "idle" /\ pc'[c] \in {"load", "queued"}
    BY <1>0, <1>2 DEF Invoke, Goto
  <2>2. Phase(c) = "idle" /\ Phase(c)' = "open"
    BY <2>1 DEF Phase
  <2>3. AbstractPhase' = [AbstractPhase EXCEPT ![c] = "open"] /\ AbstractPhase[c] = "idle"
    BY <2>1, <2>2, PhaseStep DEF AbstractPhase
  <2>4. Abstract!Invoke(c, r)
    BY <1>2, <2>3 DEF Abstract!Invoke, Invoke, AbstractPhase
  <2> QED
    BY <2>4 DEF Abstract!Next
<1>3. ASSUME NEW c \in Calls, Load(c) PROVE Abstract!Next
  <2>1. pc[c] \in Deciding \ {"idle"} /\ req[c].op = "load"
    BY <1>0, <1>3 DEF Load, CallsFit, Deciding
  <2>2. Abstract!Decide(c, Found(items[req[c].subject]))
    BY <1>3, <2>1, DecideRefines DEF Load
  <2> QED
    BY <1>3, <2>1, <2>2 DEF Load, Abstract!Load, Abstract!Next, Abstract!Step
<1>4. ASSUME NEW c \in Calls, NEW x, Goto(c, x), UNCHANGED <<items, req, ans>>,
             \/ pc[c] \in {"queued", "get"} /\ x \in {"get", "set", "delete"}
             \/ pc[c] = "release" /\ x = "return"
      PROVE  UNCHANGED Abstract!vars
  <2>1. \A d \in Calls : Phase(d)' = Phase(d)
    BY <1>0, <1>4 DEF Phase, Goto
  <2> QED
    BY <1>1, <1>4, <2>1
<1>5. ASSUME NEW c \in Calls, Enter(c) \/ Release(c) PROVE UNCHANGED Abstract!vars
  BY <1>4, <1>5 DEF Enter, Release
<1>6. ASSUME NEW c \in Calls, GetItem(c) PROVE [Abstract!Next]_(Abstract!vars)
  <2>1. pc[c] = "get" /\ UNCHANGED <<items, req>> /\ req[c].op = "cas"
    BY <1>0, <1>6 DEF GetItem, CallsFit
  <2>2. CASE items[req[c].subject].ver = req[c].expected
    <3>1. Goto(c, "set") /\ UNCHANGED ans
      BY <1>6, <2>2 DEF GetItem
    <3> QED
      BY <1>4, <2>1, <3>1
  <2>3. CASE items[req[c].subject].ver # req[c].expected
    <3>1. Goto(c, "release") /\ Answers(c, Lost(items[req[c].subject]))
      BY <1>6, <2>3 DEF GetItem
    <3>2. Abstract!Decide(c, Lost(items[req[c].subject]))
      BY <2>1, <3>1, DecideRefines DEF Deciding
    <3> QED
      BY <2>1, <2>3, <3>2 DEF Abstract!Refuse, Abstract!Matches, Abstract!Next, Abstract!Step
  <2> QED
    BY <2>2, <2>3
<1>7. ASSUME NEW c \in Calls, SetItem(c) PROVE Abstract!Next
  <2>1. /\ pc[c] = "set" /\ Goto(c, "release") /\ req' = req /\ req[c].op = "cas"
        /\ items[req[c].subject].ver = req[c].expected
        /\ todo[c] = Stored(c, req[c].expected)
    BY <1>0, <1>7 DEF SetItem, CallsFit, WritesFit
  <2>2. Abstract!Decide(c, Won(Stored(c, req[c].expected)))
    BY <1>7, <2>1, DecideRefines DEF SetItem, Deciding
  <2> QED
    BY <1>7, <2>1, <2>2 DEF SetItem, Abstract!Swap, Abstract!Matches, Abstract!Next, Abstract!Step
<1>8. ASSUME NEW c \in Calls, DeleteItem(c) PROVE Abstract!Next
  <2>1. pc[c] = "delete" /\ Goto(c, "release") /\ req' = req /\ req[c].op = "delete"
    BY <1>0, <1>8 DEF DeleteItem, CallsFit
  <2>2. Abstract!Decide(c, Deleted)
    BY <1>8, <2>1, DecideRefines DEF DeleteItem, Deciding
  <2> QED
    BY <1>8, <2>1, <2>2 DEF DeleteItem, Abstract!Delete, Abstract!Next, Abstract!Step
<1>9. ASSUME NEW c \in Calls, Reject(c) PROVE Abstract!Next
  <2>1. /\ \A d \in Calls \ {c} : pc'[d] = pc[d] /\ ans'[d] = ans[d]
        /\ pc[c] \in {"load", "get", "set", "delete"} /\ pc'[c] \in {"return", "release"}
        /\ ans' = [ans EXCEPT ![c] = Failed] /\ UNCHANGED <<items, req>>
    BY <1>0, <1>9 DEF Reject, Goto, Answers
  <2>2. Phase(c) = "open" /\ Phase(c)' = "done" /\ \A d \in Calls \ {c} : Phase(d)' = Phase(d)
    BY <1>0, <2>1 DEF Phase
  <2>3. ans' = [d \in Calls |-> IF d \in {c} THEN Failed ELSE ans[d]]
    BY <1>0, <2>1
  <2>4. Abstract!Fail({c})
    BY <2>1, <2>2, <2>3, FailRefines
  <2> QED
    BY <2>4 DEF Abstract!Next
<1>10. ASSUME NEW c \in Calls, Return(c) PROVE [Abstract!Next]_(Abstract!vars)
  <2>1. /\ \A d \in Calls \ {c} : pc'[d] = pc[d] /\ ans'[d] = ans[d]
        /\ pc[c] = "return" /\ pc'[c] = "done" /\ UNCHANGED <<items, req, ans>>
    BY <1>0, <1>10 DEF Return, Goto
  <2>2. Phase(c)' = "done"
    BY <2>1 DEF Phase
  <2>3. CASE ans[c] = Failed
    <3>1. \A d \in Calls : Phase(d)' = Phase(d)
      BY <2>1, <2>2, <2>3 DEF Phase
    <3> QED
      BY <1>1, <2>1, <3>1
  <2>4. CASE ans[c] # Failed
    <3>1. AbstractPhase' = [AbstractPhase EXCEPT ![c] = "done"]
      BY <2>1, <2>2, PhaseStep
    <3>2. AbstractPhase[c] = "decided"
      BY <2>1, <2>4 DEF Phase, AbstractPhase
    <3>3. Abstract!Return(c)
      BY <2>1, <3>1, <3>2 DEF Abstract!Return, AbstractPhase
    <3> QED
      BY <3>3 DEF Abstract!Next, Abstract!Step
  <2> QED
    BY <2>3, <2>4
<1>11. ASSUME Restart PROVE [Abstract!Next]_(Abstract!vars)
  <2> DEFINE dying == {c \in Calls : Running(c)}
             C == {c \in dying : Phase(c) # "done"}
  <2>1. /\ pc' = [c \in Calls |-> IF c \in dying THEN "done" ELSE pc[c]]
        /\ ans' = [c \in Calls |-> IF c \in dying THEN Failed ELSE ans[c]]
        /\ UNCHANGED <<items, req>>
    BY <1>11 DEF Restart
  <2>2. \A c \in dying : Phase(c) \in {"open", "decided", "done"} /\ (Phase(c) = "done" => ans[c] = Failed)
    BY DEF Running, Phase
  <2>3. \A c \in Calls \ dying : Phase(c)' = Phase(c)
    BY <2>1 DEF Phase
  <2>4. \A c \in dying : Phase(c)' = "done"
    BY <2>1 DEF Phase
  <2>5. ans' = [c \in Calls |-> IF c \in C THEN Failed ELSE ans[c]]
    BY <1>0, <2>1, <2>2
  <2>6. CASE C = {}
    <3>1. ans' = ans
      BY <1>0, <2>5, <2>6
    <3> QED
      BY <1>1, <2>1, <2>3, <2>4, <2>6, <3>1
  <2>7. CASE C # {}
    <3>1. C \in SUBSET Calls /\ \A c \in C : Phase(c) \in {"open", "decided"}
      BY <2>2
    <3>2. /\ \A c \in C : Phase(c)' = "done"
          /\ \A c \in Calls \ C : Phase(c)' = Phase(c)
      BY <2>3, <2>4
    <3> HIDE DEF C
    <3>3. Abstract!Fail(C)
      BY <2>1, <2>5, <2>7, <3>1, <3>2, FailRefines
    <3> QED
      BY <3>1, <3>3 DEF Abstract!Next
  <2> QED
    BY <2>6, <2>7
<1>12. CASE UNCHANGED vars
  BY <1>12 DEF vars, Abstract!vars, Phase
<1> QED
  BY <1>2, <1>3, <1>5, <1>6, <1>7, <1>8, <1>9, <1>10, <1>11, <1>12 DEF Next, Step

(* Every call takes effect at one moment or fails, although the storage     *)
(* reads and writes in separate requests.                                   *)
THEOREM DeviceImplementsStore == Spec => ImplementsStore
<1>1. IInv /\ IInv' /\ [Next]_vars => [Abstract!Next]_(Abstract!vars)
  BY StepRefines
<1> QED
  BY Invariance, InitRefines, <1>1, PTL DEF Spec, ImplementsStore, Abstract!Spec

-----------------------------------------------------------------------------
(* What holds of the abstract store holds of this one.                      *)

Contract == INSTANCE CredentialStoreProofs WITH
  rows <- items, phase <- AbstractPhase, req <- req, ans <- ans

LEMMA SameRequests == Requests \subseteq Contract!Request /\ NoCall \notin Calls
BY RequestsAssumption, NoCallAssumption DEF Request, Contract!Request

(* The theorems are about a copy of the abstract store of the refinement.   *)
LEMMA SameSteps ==
  /\ Abstract!Init = Contract!Init /\ Abstract!vars = Contract!vars
  /\ Abstract!Next = Contract!Next
<1> USE DEF AbstractPhase, Abstract!Missing, Contract!Missing, Abstract!Pending, Contract!Pending,
      Abstract!NoRequest, Contract!NoRequest
<1>1. Abstract!Init = Contract!Init /\ Abstract!vars = Contract!vars
  BY DEF Abstract!Init, Contract!Init, Abstract!SomeRows, Contract!SomeRows,
     Abstract!vars, Contract!vars
<1>2. \A c, answer : Abstract!Decide(c, answer) = Contract!Decide(c, answer)
  BY DEF Abstract!Decide, Contract!Decide
<1>3. \A c : Abstract!Load(c) = Contract!Load(c)
  BY <1>2 DEF Abstract!Load, Contract!Load, Abstract!Found, Contract!Found
<1>4. \A c : Abstract!Swap(c) = Contract!Swap(c) /\ Abstract!Refuse(c) = Contract!Refuse(c)
  BY <1>2 DEF Abstract!Swap, Contract!Swap, Abstract!Refuse, Contract!Refuse, Abstract!Matches,
     Contract!Matches, Abstract!Won, Contract!Won, Abstract!Lost, Contract!Lost,
     Abstract!Stored, Contract!Stored
<1>5. \A c : Abstract!Delete(c) = Contract!Delete(c) /\ Abstract!Return(c) = Contract!Return(c)
  BY <1>2 DEF Abstract!Delete, Contract!Delete, Abstract!Return, Contract!Return,
     Abstract!Deleted, Contract!Deleted
<1>6. /\ \A c, r : Abstract!Invoke(c, r) = Contract!Invoke(c, r)
      /\ \A C : Abstract!Fail(C) = Contract!Fail(C)
  BY DEF Abstract!Invoke, Contract!Invoke, Abstract!Fail, Contract!Fail,
     Abstract!Failed, Contract!Failed
<1> QED
  BY <1>1, <1>3, <1>4, <1>5, <1>6 DEF Abstract!Next, Contract!Next, Abstract!Step, Contract!Step

LEMMA ContractHolds == Spec => []Contract!IInv
<1>1. Abstract!Init => Contract!IInv
  BY SameRequests, SameSteps, Contract!InitHolds
<1>2. Contract!IInv /\ [Abstract!Next]_(Abstract!vars) => Contract!IInv'
  <2>1. Contract!IInv /\ [Contract!Next]_(Contract!vars) =>
          Contract!TypeOK' /\ Contract!AnswersFit'
    BY SameRequests, Contract!TypeStep DEF Contract!IInv
  <2>2. Contract!IInv /\ [Contract!Next]_(Contract!vars) =>
          Contract!WinnersAreNotLost' /\ Contract!OneWinnerPerVersion'
    BY SameRequests, Contract!WinnersStep
  <2>3. [Abstract!Next]_(Abstract!vars) => [Contract!Next]_(Contract!vars)
    BY SameSteps DEF AbstractPhase, Abstract!vars, Contract!vars
  <2> QED
    BY <2>1, <2>2, <2>3 DEF Contract!IInv
<1> QED
  BY <1>1, <1>2, DeviceImplementsStore, PTL DEF ImplementsStore, Abstract!Spec

(* Of the writes to the device that expect the same version one wins, and   *)
(* its row stays until a later version replaces it, unless a call may have  *)
(* deleted the subject.                                                     *)
THEOREM DeviceKeepsContract ==
  Spec => [](Abstract!OneWinnerPerVersion /\ Abstract!WinnersAreNotLost)
<1>1. Contract!IInv => Abstract!OneWinnerPerVersion /\ Abstract!WinnersAreNotLost
  BY DEF Contract!IInv, Contract!OneWinnerPerVersion, Abstract!OneWinnerPerVersion,
     Contract!WinnersAreNotLost, Abstract!WinnersAreNotLost,
     Contract!Winner, Abstract!Winner, Contract!Same, Abstract!Same,
     Contract!Undeleted, Abstract!Undeleted, Contract!NoRequest, Abstract!NoRequest
<1> QED
  BY ContractHolds, <1>1, PTL

=============================================================================
