--------------------------- MODULE AppServerProofs ---------------------------
(* Proofs about a codex process and who uses it.  First the client of one    *)
(* process (AppServer), for any number of streams, any number of deltas, any *)
(* length of the pipe, and a process that waits for its callbacks or does    *)
(* not.  Then the render service, which keeps a process for each subject     *)
(* (RenderService), for any number of subjects, entries, requests and        *)
(* sign-outs.                                                                *)
EXTENDS AppServer, RenderService, FunctionTheorems, FiniteSetTheorems, TLAPS

(***************************************************************************)
(* The inductive invariant.  The pipe is in order, so what is in it about  *)
(* turns is about the active turn, and nothing of a turn follows its       *)
(* completion; what a stream has received, what its queue and its turn's   *)
(* pending notifications hold and what is still in the pipe are together   *)
(* the deltas the process has sent.                                        *)
(***************************************************************************)

Lines == [m: {"thread", "reply", "started", "delta", "completed", "callback"},
          of: Streams, n: Nat, ok: BOOLEAN]
Types == TypeOK /\ wire \in Seq(Lines)

Positions == 1..Len(wire)
OfTurn(i)   == wire[i].m \in {"started", "delta", "completed"}
DeltaOf(s, i) == wire[i].m = "delta" /\ wire[i].of = s
Pend(s) == turns[s].pending[s]
Quiet(s) == \A i \in Positions : OfTurn(i) => wire[i].of # s

(* A stream before its turn, and a turn the process has not begun.          *)
Untouched(s) == run[s] = "none" => got[s] = <<>>
Unbegun(s) ==
  run[s] \in {"none", "requested"} =>
    told[s].deltas = 0 /\ ~told[s].replied /\ Quiet(s) /\ Pend(s) = Silence
BeforeTurn == {"idle", "thread", "check", "fence", "refused"}
TurnsFit ==
  \A s \in Streams :
    /\ pc[s] \in BeforeTurn => run[s] = "none" /\ turns[s] = NewTurn
    /\ Untouched(s) /\ Unbegun(s)
    /\ turns[s].id \in {s, NoStream}
    /\ turns[s].id = s => Pend(s) = Silence
    /\ turns[s].failed => turns[s].over = "failed"

(* One turn holds the process, and everything the pipe says is about it.    *)
OneHolds ==
  /\ closed => active = NoStream
  /\ ~closed => \A s \in Streams : run[s] \in {"requested", "running"} => active = s
  /\ ~closed => \A i \in Positions : OfTurn(i) => wire[i].of = active
  /\ active # NoStream => run[active] # "none"

(* Completions come last, and the process is done with the turn by then.    *)
CompletionsFit ==
  /\ \A i \in Positions : wire[i].m = "completed" =>
       /\ run[wire[i].of] = "over"
       /\ \A j \in Positions : j > i /\ OfTurn(j) => wire[j].of # wire[i].of
  /\ \A s \in Streams : Pend(s).end # "none" => run[s] = "over" /\ Quiet(s)

(* Each turn/start is answered once; a refused one has nothing to show.     *)
NeverBegun(s) == run[s] = "over" /\ told[s].deltas = 0 /\ Quiet(s) /\ Pend(s) = Silence
RepliesFit ==
  /\ \A i \in Positions : wire[i].m = "reply" =>
       /\ told[wire[i].of].replied
       /\ run[wire[i].of] # "none"
       /\ ~wire[i].ok => NeverBegun(wire[i].of)
       /\ ~closed => pc[wire[i].of] = "start"
       /\ \A j \in Positions : wire[j].m = "reply" /\ wire[j].of = wire[i].of => i = j
  /\ \A s \in Streams :
       /\ pc[s] = "rejected" => NeverBegun(s)
       /\ run[s] # "none" /\ ~told[s].replied /\ ~closed => pc[s] = "start"

QueuesFit ==
  \A s \in Streams :
    pc[s] \in {"start", "bind", "rejected", "read"} /\ turns[s].over = "open" => active = s

(* The deltas of a turn, from the consumer back to the pipe.                *)
Base(s) == Len(got[s]) + Len(turns[s].queue) + Len(Pend(s).deltas)
Heeded(s) == active = s /\ ~turns[s].failed
Received(s) ==
  /\ Len(got[s]) + Len(turns[s].queue) <= told[s].deltas
  /\ \A i \in 1..Len(got[s]) : got[s][i] = i
  /\ \A i \in 1..Len(turns[s].queue) : turns[s].queue[i] = Len(got[s]) + i
  /\ turns[s].over = "ended" =>
       Len(got[s]) + Len(turns[s].queue) = told[s].deltas /\ run[s] = "over"
Expected(s) ==
  /\ turns[s].over = "open"
  /\ Base(s) <= told[s].deltas
  /\ \A i \in 1..Len(Pend(s).deltas) :
       Pend(s).deltas[i] = Len(got[s]) + Len(turns[s].queue) + i
  /\ Pend(s).end # "none" => Base(s) = told[s].deltas
DeltasFit == \A s \in Streams : Received(s) /\ (Heeded(s) => Expected(s))
OnTheWay(s) ==
  /\ \A i \in Positions : DeltaOf(s, i) => wire[i].n \in Base(s)+1 .. told[s].deltas
  /\ \A i, j \in Positions : DeltaOf(s, i) /\ DeltaOf(s, j) /\ i < j => wire[i].n < wire[j].n
  /\ \A n \in Base(s)+1 .. told[s].deltas :
       \E i \in Positions : DeltaOf(s, i) /\ wire[i].n = n
WireFits == \A s \in Streams : Heeded(s) => OnTheWay(s)

IInv == /\ Types /\ TurnsFit /\ OneHolds /\ CompletionsFit /\ RepliesFit /\ QueuesFit
        /\ DeltasFit /\ WireFits

(***************************************************************************)
(* The model's operators.                                                  *)
(***************************************************************************)

LEMMA ConstantsTyped ==
  /\ Silence \in Heard /\ NonePending \in [Streams -> Heard] /\ NewTurn \in ActiveTurn
  /\ \A s \in Streams : NonePending[s] = Silence
BY NoStreamAssumption DEF Silence, Heard, NonePending, NewTurn, ActiveTurn

LEMMA HearDoes ==
  ASSUME NEW h \in Heard, NEW line \in Lines
  PROVE  /\ Hear(h, line) \in Heard
         /\ h.end # "none" => Hear(h, line) = h
         /\ h.end = "none" /\ line.m = "delta" =>
              Hear(h, line).deltas = Append(h.deltas, line.n) /\ Hear(h, line).end = "none"
         /\ h.end = "none" /\ line.m # "delta" =>
              /\ Hear(h, line).deltas = h.deltas
              /\ Hear(h, line).end = IF line.ok THEN "ended" ELSE "failed"
<1>1. line.n \in Nat /\ h.deltas \in Seq(Nat)
  BY DEF Lines, Heard
<1>2. Append(h.deltas, line.n) \in Seq(Nat)
  BY <1>1
<1> QED
  BY <1>1, <1>2 DEF Hear, Heard, Lines

LEMMA AbsorbDoes ==
  ASSUME NEW r \in ActiveTurn, NEW h \in Heard
  PROVE  /\ Absorb(r, h) \in ActiveTurn
         /\ r.failed => Absorb(r, h) = r
         /\ Absorb(r, h).id = r.id /\ Absorb(r, h).failed = r.failed
         /\ Absorb(r, h).pending = r.pending
         /\ ~r.failed =>
              /\ Absorb(r, h).queue = r.queue \o h.deltas
              /\ Absorb(r, h).over = IF h.end = "none" THEN r.over ELSE h.end
<1>1. r.queue \o h.deltas \in Seq(Nat)
  BY DEF ActiveTurn, Heard
<1> QED
  BY <1>1 DEF Absorb, ActiveTurn, Heard

(* A line leaves the pipe, or joins it.                                     *)
LEMMA TailDoes ==
  ASSUME wire \in Seq(Lines), wire # <<>>, wire' = Tail(wire)
  PROVE  /\ wire' \in Seq(Lines) /\ Len(wire) \in Nat \ {0} /\ Len(wire') = Len(wire) - 1
         /\ Head(wire) = wire[1] /\ Head(wire) \in Lines
         /\ \A i \in 1..Len(wire') : wire'[i] = wire[i + 1] /\ i + 1 \in 1..Len(wire)
         /\ \A i \in 2..Len(wire) : i - 1 \in 1..Len(wire') /\ wire'[i - 1] = wire[i]
OBVIOUS

LEMMA WritesDoes ==
  ASSUME wire \in Seq(Lines), NEW line \in Lines, Writes(line)
  PROVE  /\ wire' \in Seq(Lines) /\ Len(wire) \in Nat /\ Len(wire') = Len(wire) + 1
         /\ wire'[Len(wire) + 1] = line
         /\ \A i \in 1..Len(wire) : wire'[i] = wire[i]
BY DEF Writes

(* Nothing else moves.                                                      *)
OthersStay(s) ==
  \A t \in Streams \ {s} :
    pc'[t] = pc[t] /\ turns'[t] = turns[t] /\ run'[t] = run[t] /\ told'[t] = told[t] /\ got'[t] = got[t]

(* A stream takes the process, or finds it closed, or taken.                *)
LEMMA TakeDoes ==
  ASSUME Types, NEW s \in Streams, TakeOrRefuse(s),
         UNCHANGED <<thread, got, closed, wire, told, refreshing>>
  PROVE  /\ OthersStay(s) /\ waitsFor' = waitsFor
         /\ \/ /\ active # NoStream /\ pc'[s] = "refused" /\ UNCHANGED <<active, turns, run>>
            \/ /\ active = NoStream /\ closed /\ pc'[s] = "read" /\ UNCHANGED <<active, run>>
               /\ turns'[s] = [NewTurn EXCEPT !.over = "failed"]
            \/ /\ active = NoStream /\ ~closed /\ active' = s /\ pc'[s] = "start"
               /\ turns'[s] = NewTurn /\ run'[s] = "requested"
         /\ Types'
<1> USE DEF Types, TypeOK
<1>1. CASE active # NoStream
  BY <1>1 DEF TakeOrRefuse, Goto, OthersStay, Phases, Ended
<1>2. CASE active = NoStream /\ closed
  <2>1. [NewTurn EXCEPT !.over = "failed"] \in ActiveTurn
    BY ConstantsTyped DEF ActiveTurn
  <2> QED
    BY <1>2, <2>1 DEF TakeOrRefuse, Take, Goto, OthersStay, Phases
<1>3. CASE active = NoStream /\ ~closed
  BY <1>3, ConstantsTyped DEF TakeOrRefuse, Take, Goto, OthersStay, Phases
<1> QED
  BY <1>1, <1>2, <1>3

(* What was pending reaches the queue when the turn learns its id.          *)
BindsTurn(s) ==
  /\ turns[s].id = NoStream /\ turns'[s].id = s
  /\ turns'[s].pending = NonePending /\ turns'[s].failed = turns[s].failed
  /\ turns[s].failed => turns'[s].queue = turns[s].queue /\ turns'[s].over = turns[s].over
  /\ ~turns[s].failed =>
       /\ turns'[s].queue = turns[s].queue \o Pend(s).deltas
       /\ turns'[s].over = IF Pend(s).end = "none" THEN turns[s].over ELSE Pend(s).end
  /\ active' = IF Pend(s).end = "none" THEN active ELSE NoStream

LEMMA BindDoes ==
  ASSUME Types, NEW s \in Streams, Bind(s, s), active = s
  PROVE  /\ turns' \in [Streams -> ActiveTurn] /\ active' \in Streams \cup {NoStream}
         /\ \A t \in Streams \ {s} : turns'[t] = turns[t]
         /\ \/ turns[s].id # NoStream /\ UNCHANGED <<turns, active>>
            \/ BindsTurn(s)
<1> USE DEF Types, TypeOK
<1>1. CASE turns[s].id # NoStream
  BY <1>1 DEF Bind
<1>2. CASE turns[s].id = NoStream
  <2> DEFINE r == [turns[s] EXCEPT !.id = s, !.pending = NonePending]
             h == turns[s].pending[s]
  <2>1. turns[s] \in ActiveTurn /\ h \in Heard /\ h = Pend(s)
    BY DEF ActiveTurn, Pend
  <2>2. r \in ActiveTurn /\ r.id = s /\ r.pending = NonePending /\ r.failed = turns[s].failed
        /\ r.queue = turns[s].queue /\ r.over = turns[s].over
    BY <2>1, ConstantsTyped DEF ActiveTurn
  <2>3. turns' = [turns EXCEPT ![s] = Absorb(r, h)] /\ Finishes(h)
    BY <1>2 DEF Bind
  <2>4. turns'[s] = Absorb(r, h) /\ \A t \in Streams \ {s} : turns'[t] = turns[t]
    BY <2>3
  <2> HIDE DEF r, h
  <2>5. BindsTurn(s)
    <3>1. /\ turns[s].failed => turns'[s] = r
          /\ turns'[s].id = r.id /\ turns'[s].failed = r.failed /\ turns'[s].pending = r.pending
          /\ ~turns[s].failed =>
               /\ turns'[s].queue = r.queue \o h.deltas
               /\ turns'[s].over = IF h.end = "none" THEN r.over ELSE h.end
      <4>1. /\ r.failed => Absorb(r, h) = r
            /\ Absorb(r, h).id = r.id /\ Absorb(r, h).failed = r.failed
            /\ Absorb(r, h).pending = r.pending
            /\ ~r.failed =>
                 /\ Absorb(r, h).queue = r.queue \o h.deltas
                 /\ Absorb(r, h).over = IF h.end = "none" THEN r.over ELSE h.end
        BY <2>1, <2>2, AbsorbDoes
      <4> QED
        BY <2>2, <2>4, <4>1
    <3>2. active' = IF h.end = "none" THEN active ELSE NoStream
      BY <2>3 DEF Finishes
    <3> QED
      BY <1>2, <2>1, <2>2, <3>1, <3>2 DEF BindsTurn
  <2> QED
    BY <2>1, <2>2, <2>3, <2>4, <2>5, AbsorbDoes DEF Finishes
<1> QED
  BY <1>1, <1>2

(***************************************************************************)
(* The client's steps.                                                     *)
(***************************************************************************)

LEMMA WireTyped ==
  ASSUME Types
  PROVE  \A i \in Positions : /\ wire[i] \in Lines /\ wire[i].of \in Streams
                             /\ wire[i].n \in Nat /\ wire[i].ok \in BOOLEAN
<1>1. \A i \in Positions : wire[i] \in Lines
  BY DEF Types, Positions
<1> QED
  BY <1>1 DEF Lines

(* The pipe stays as it is (k = 0) or loses its first line (k = 1): what is *)
(* said of its lines is said of those that are left.                        *)
Drops(k) ==
  /\ k \in {0, 1} /\ Len(wire) \in Nat /\ Len(wire') = Len(wire) - k
  /\ \A i \in Positions' : wire'[i] = wire[i + k]

LEMMA DropsDo ==
  ASSUME NEW k, Drops(k)
  PROVE  /\ \A i \in Positions' : i \in Nat /\ i + k \in Positions /\ wire'[i] = wire[i + k]
         /\ \A i \in Positions : i > k => i - k \in Positions' /\ wire'[i - k] = wire[i]
         /\ \A i, j \in Positions' : (i < j => i + k < j + k) /\ (i + k = j + k => i = j)
         /\ \A i \in Positions' : OfTurn(i)' <=> OfTurn(i + k)
         /\ \A t \in Streams : Quiet(t) => Quiet(t)'
         /\ \A t \in Streams, i \in Positions' : DeltaOf(t, i)' <=> DeltaOf(t, i + k)
         /\ \A t \in Streams, i \in Positions :
              i > k => (DeltaOf(t, i - k)' <=> DeltaOf(t, i))
<1>1. \A i \in Positions' : i \in Nat /\ i + k \in Positions /\ wire'[i] = wire[i + k]
  BY DEF Drops, Positions
<1>2. \A i \in Positions : i > k => i - k \in Positions' /\ wire'[i - k] = wire[i]
  BY DEF Drops, Positions
<1>7. \A i, j \in Positions' : (i < j => i + k < j + k) /\ (i + k = j + k => i = j)
  BY DEF Drops, Positions
<1>3. \A i \in Positions' : OfTurn(i)' <=> OfTurn(i + k)
  BY <1>1 DEF OfTurn
<1>4. \A t \in Streams : Quiet(t) => Quiet(t)'
  BY <1>1, <1>3 DEF Quiet
<1>5. \A t \in Streams, i \in Positions' : DeltaOf(t, i)' <=> DeltaOf(t, i + k)
  BY <1>1 DEF DeltaOf
<1>6. \A t \in Streams, i \in Positions : i > k => (DeltaOf(t, i - k)' <=> DeltaOf(t, i))
  BY <1>2 DEF DeltaOf
<1> QED
  BY <1>1, <1>2, <1>3, <1>4, <1>5, <1>6, <1>7

LEMMA SameWire ==
  ASSUME wire' = wire, Types
  PROVE  Drops(0)
BY DEF Drops, Positions, Types

LEMMA OnTheWayStays ==
  ASSUME NEW k, Drops(k), NEW s \in Streams, k = 1 => ~DeltaOf(s, 1),
         Base(s)' = Base(s), told'[s].deltas = told[s].deltas, OnTheWay(s)
  PROVE  OnTheWay(s)'
<1> USE DropsDo
<1>1. \A i \in Positions' : DeltaOf(s, i)' => wire'[i].n \in Base(s)'+1 .. told'[s].deltas
  BY DEF OnTheWay
<1>2. \A i, j \in Positions' : DeltaOf(s, i)' /\ DeltaOf(s, j)' /\ i < j => wire'[i].n < wire'[j].n
  BY DEF OnTheWay
<1>3. ASSUME NEW n \in Base(s)'+1 .. told'[s].deltas
      PROVE  \E i \in Positions' : DeltaOf(s, i)' /\ wire'[i].n = n
  <2>1. PICK i \in Positions : DeltaOf(s, i) /\ wire[i].n = n
    BY <1>3 DEF OnTheWay
  <2>2. i > k
    BY <2>1 DEF Positions, Drops
  <2> QED
    BY <2>1, <2>2
<1> QED
  BY <1>1, <1>2, <1>3 DEF OnTheWay

(* What the process has said of the turns stays, its callbacks aside.       *)
SameTold ==
  \A t \in Streams : told'[t].deltas = told[t].deltas /\ told'[t].replied = told[t].replied

(* A stream moves before its turn, reads, or leaves its queue for good.     *)
MovesOn(s) ==
  \/ pc'[s] = pc[s]
  \/ pc[s] = "bind" /\ pc'[s] = "read"
  \/ pc[s] \in BeforeTurn /\ pc'[s] \in BeforeTurn
  \/ pc[s] = "read" /\ pc'[s] \in {"done", "failed", "abandoned"}

(* What the pipe alone decides.                                             *)
LEMMA PipeKeeps ==
  ASSUME IInv, NEW k, Drops(k), run' = run, SameTold, closed => closed',
         \A t \in Streams :
           \/ Pend(t)' = Pend(t) \/ Pend(t)' = Silence
           \/ ~NeverBegun(t) /\ (Pend(t)'.end # "none" => run[t] = "over" /\ Quiet(t)'),
         \A t \in Streams : pc[t] = "start" =>
           \/ pc'[t] = "start" \/ closed
           \/ told[t].replied /\ \A i \in Positions' : wire'[i].m = "reply" => wire'[i].of # t,
         \A t \in Streams : pc'[t] = "rejected" => pc[t] = "rejected" \/ NeverBegun(t)
  PROVE  CompletionsFit' /\ RepliesFit'
<1> USE DropsDo DEF IInv, SameTold
<1>1. \A t \in Streams : Pend(t)'.end # "none" => run'[t] = "over" /\ Quiet(t)'
  <2>1. Silence.end = "none"
    BY DEF Silence
  <2> QED
    BY <2>1 DEF CompletionsFit
<1>2. \A t \in Streams : NeverBegun(t) => NeverBegun(t)'
  BY DEF NeverBegun
<1>3. \A i \in Positions' : wire'[i].of \in Streams
  BY WireTyped
<1>4. CompletionsFit'
  <2>1. \A i \in Positions' : wire'[i].m = "completed" => run'[wire'[i].of] = "over"
    BY DEF CompletionsFit
  <2>2. \A i, j \in Positions' : wire'[i].m = "completed" /\ j > i /\ OfTurn(j)' => wire'[j].of # wire'[i].of
    <3> SUFFICES ASSUME NEW i \in Positions', NEW j \in Positions',
                        wire'[i].m = "completed", j > i, OfTurn(j)'
                 PROVE  wire'[j].of # wire'[i].of
      OBVIOUS
    <3>1. i + k \in Positions /\ j + k \in Positions /\ j + k > i + k /\ OfTurn(j + k)
          /\ wire[i + k].m = "completed"
      OBVIOUS
    <3> QED
      BY <3>1 DEF CompletionsFit
  <2> QED
    BY <1>1, <2>1, <2>2 DEF CompletionsFit
<1>5. RepliesFit'
  <2>1. ASSUME NEW i \in Positions', wire'[i].m = "reply"
        PROVE  /\ told'[wire'[i].of].replied
               /\ run'[wire'[i].of] # "none"
               /\ ~wire'[i].ok => NeverBegun(wire[i].of)'
               /\ ~closed' => pc'[wire'[i].of] = "start"
               /\ \A j \in Positions' : wire'[j].m = "reply" /\ wire'[j].of = wire'[i].of => i = j
    <3> DEFINE l == i + k
    <3>1. l \in Positions /\ wire'[i] = wire[l]
      OBVIOUS
    <3> HIDE DEF l
    <3>2. /\ told[wire[l].of].replied /\ run[wire[l].of] # "none"
          /\ ~wire[l].ok => NeverBegun(wire[l].of)
          /\ ~closed => pc[wire[l].of] = "start"
      BY <2>1, <3>1 DEF RepliesFit
    <3>3. \A j \in Positions' : wire'[j].m = "reply" /\ wire'[j].of = wire'[i].of => i = j
      <4> SUFFICES ASSUME NEW j \in Positions', wire'[j].m = "reply", wire'[j].of = wire'[i].of
                   PROVE  i = j
        OBVIOUS
      <4>1. i + k \in Positions /\ j + k \in Positions /\ wire[i + k] = wire'[i] /\ wire[j + k] = wire'[j]
        OBVIOUS
      <4>2. i + k = j + k
        BY <2>1, <4>1 DEF RepliesFit
      <4> QED
        BY <4>2
    <3>4. PICK t \in Streams : t = wire[l].of /\ t = wire'[i].of
      BY <3>1, WireTyped
    <3>5. ~wire'[i].ok => NeverBegun(t)'
      BY <1>2, <3>1, <3>2, <3>4
    <3>6. ~wire'[i].ok => NeverBegun(wire[i].of)'
      BY <3>4, <3>5 DEF NeverBegun, Quiet, Pend
    <3>7. ~closed' => pc'[t] = "start"
      BY <2>1, <3>1, <3>2, <3>4
    <3> QED
      BY <3>1, <3>2, <3>3, <3>4, <3>6, <3>7
  <2>2. \A t \in Streams :
          /\ pc'[t] = "rejected" => NeverBegun(t)'
          /\ run'[t] # "none" /\ ~told'[t].replied /\ ~closed' => pc'[t] = "start"
    BY <1>2 DEF RepliesFit
  <2> QED
    BY <2>1, <2>2 DEF RepliesFit
<1> QED
  BY <1>4, <1>5

LEMMA MovesKeep ==
  ASSUME IInv, Types', UNCHANGED <<active, turns, got, run>>, SameTold,
         closed' = closed \/ (closed' /\ active = NoStream),
         NEW k, Drops(k), k = 1 => \A s \in Streams : Heeded(s) => ~DeltaOf(s, 1),
         \A s \in Streams : MovesOn(s)
  PROVE  IInv'
<1> USE DEF IInv, MovesOn, SameTold
<1>0. \A s \in Streams :
        (pc'[s] \in BeforeTurn => pc[s] \in BeforeTurn) /\ (pc[s] = "start" => pc'[s] = "start")
        /\ (pc'[s] = "rejected" => pc[s] = "rejected")
        /\ (pc'[s] \in {"start", "bind", "rejected", "read"} =>
              pc[s] \in {"start", "bind", "rejected", "read"})
  BY DEF BeforeTurn
<1>1. \A s \in Streams : Base(s)' = Base(s) /\ Pend(s)' = Pend(s) /\ (Heeded(s)' <=> Heeded(s))
  BY DEF Base, Pend, Heeded
<1>2. TurnsFit'
  BY <1>0, <1>1, DropsDo DEF TurnsFit, Untouched, Unbegun
<1>3. OneHolds'
  BY DropsDo DEF OneHolds
<1>4. CompletionsFit' /\ RepliesFit'
  <2>1. closed => closed'
    OBVIOUS
  <2> QED
    BY <1>0, <1>1, <2>1, PipeKeeps
<1>5. QueuesFit'
  BY <1>0 DEF QueuesFit
<1>6. DeltasFit'
  <2>1. \A s \in Streams : Received(s) => Received(s)'
    BY DEF Received
  <2>2. \A s \in Streams : Expected(s) => Expected(s)'
    BY <1>1 DEF Expected
  <2> QED
    BY <1>1, <2>1, <2>2 DEF DeltasFit
<1>7. WireFits'
  BY <1>1, OnTheWayStays DEF WireFits
<1> QED
  BY <1>2, <1>3, <1>4, <1>5, <1>6, <1>7

LEMMA TakeKeeps ==
  ASSUME IInv, NEW s \in Streams, pc[s] \in {"check", "fence"}, TakeOrRefuse(s),
         UNCHANGED <<thread, got, closed, wire, told, refreshing>>
  PROVE  IInv'
<1> USE DEF IInv
<1>1. /\ OthersStay(s) /\ Types'
      /\ \/ /\ active # NoStream /\ pc'[s] = "refused" /\ UNCHANGED <<active, turns, run>>
         \/ /\ active = NoStream /\ closed /\ pc'[s] = "read" /\ UNCHANGED <<active, run>>
            /\ turns'[s] = [NewTurn EXCEPT !.over = "failed"]
         \/ /\ active = NoStream /\ ~closed /\ active' = s /\ pc'[s] = "start"
            /\ turns'[s] = NewTurn /\ run'[s] = "requested"
  BY TakeDoes
<1>2. /\ run[s] = "none" /\ turns[s] = NewTurn /\ told[s].deltas = 0 /\ ~told[s].replied
      /\ got[s] = <<>> /\ Quiet(s)
  BY DEF TurnsFit, BeforeTurn, Untouched, Unbegun
<1>n. /\ NewTurn.id = NoStream /\ ~NewTurn.failed /\ NewTurn.over = "open"
      /\ NewTurn.queue = <<>> /\ NewTurn.pending[s] = Silence
      /\ Silence.end = "none" /\ Silence.deltas = <<>>
  BY ConstantsTyped DEF NewTurn, Silence
<1>q. /\ UNCHANGED <<wire, told, got, closed>>
      /\ \A t \in Streams : Quiet(t) => Quiet(t)'
  BY DEF Quiet, OfTurn, Positions
<1>3. CASE active # NoStream
  <2>1. pc'[s] = "refused" /\ UNCHANGED <<active, turns, run>>
    BY <1>1, <1>3
  <2> QED
    BY <1>1, <1>q, <2>1, SameWire, MovesKeep DEF SameTold, MovesOn, BeforeTurn, OthersStay
<1>4. CASE active = NoStream
  <2>1. \/ /\ closed /\ pc'[s] = "read" /\ UNCHANGED <<active, run>>
           /\ turns'[s].over = "failed"
        \/ /\ ~closed /\ active' = s /\ pc'[s] = "start"
           /\ turns'[s].over = "open" /\ run'[s] = "requested"
    BY <1>1, <1>4, <1>n DEF NewTurn
  <2>2. /\ turns'[s].id = NoStream /\ ~turns'[s].failed
        /\ turns'[s].queue = <<>> /\ Pend(s)' = Silence
    BY <1>1, <1>4, <1>n DEF NewTurn, Pend
  <2>3. /\ \A t \in Streams \ {s} : Pend(t)' = Pend(t) /\ turns'[t] = turns[t] /\ run'[t] = run[t] /\ pc'[t] = pc[t]
        /\ Pend(s) = Silence
    BY <1>1, <1>2, <1>n DEF OthersStay, Pend
  <2>4. TurnsFit'
    BY <1>2, <1>q, <2>1, <2>2, <2>3 DEF TurnsFit, Untouched, Unbegun, BeforeTurn
  <2>5. OneHolds'
    <3>1. ~closed => \A i \in Positions : ~OfTurn(i)
      BY <1>4, WireTyped, NoStreamAssumption DEF OneHolds
    <3>2. ~closed => \A t \in Streams : run[t] \notin {"requested", "running"}
      BY <1>4, NoStreamAssumption DEF OneHolds
    <3> QED
      BY <1>4, <1>q, <2>1, <2>3, <3>1, <3>2 DEF OneHolds, OfTurn, Positions
  <2>6. CompletionsFit'
    <3>1. \A t \in Streams : Pend(t)' = Pend(t) /\ (run[t] = "over" => run'[t] = "over")
      BY <1>2, <2>1, <2>2, <2>3
    <3>2. UNCHANGED Positions /\ \A i \in Positions : OfTurn(i)' <=> OfTurn(i)
      BY <1>q DEF Positions, OfTurn
    <3> QED
      BY <1>q, <3>1, <3>2, WireTyped DEF CompletionsFit
  <2>7. RepliesFit'
    <3>1. \A t \in Streams : NeverBegun(t) => NeverBegun(t)'
      BY <1>2, <1>q, <2>1, <2>2, <2>3 DEF NeverBegun
    <3>2. \A i \in Positions : wire[i].of \in Streams
      BY WireTyped
    <3>3. \A i \in Positions : wire[i].m = "reply" => wire[i].of # s
      BY <1>2 DEF RepliesFit
    <3> QED
      BY <1>2, <1>q, <2>1, <2>3, <3>1, <3>2, <3>3 DEF RepliesFit, Positions
  <2>8. QueuesFit'
    BY <1>4, <2>1, <2>3, NoStreamAssumption DEF QueuesFit
  <2>9. DeltasFit'
    <3>1. got'[s] = <<>> /\ turns'[s].queue = <<>> /\ Pend(s)'.deltas = <<>> /\ Pend(s)'.end = "none"
          /\ told'[s].deltas = 0
      BY <1>2, <1>n, <1>q, <2>2
    <3>2. \A t \in Streams \ {s} : ~Heeded(t)'
      BY <1>4, <2>1, NoStreamAssumption DEF Heeded
    <3>3. ~Heeded(s)' \/ turns'[s].over = "open"
      BY <1>4, <2>1, NoStreamAssumption DEF Heeded
    <3>4. turns'[s].over # "ended" /\ Base(s)' = 0
      BY <2>1, <3>1 DEF Base
    <3>5. \A t \in Streams \ {s} : UNCHANGED <<got[t], turns[t], told[t], run[t]>>
      BY <1>1, <2>3 DEF OthersStay
    <3>6. Len(got'[s]) = 0 /\ Len(turns'[s].queue) = 0 /\ Len(Pend(s)'.deltas) = 0
      BY <3>1
    <3>7. Received(s)' /\ (Heeded(s)' => Expected(s)')
      BY <3>1, <3>3, <3>4, <3>6 DEF Received, Expected
    <3>8. \A t \in Streams \ {s} : Received(t) => Received(t)'
      BY <3>5 DEF Received
    <3> QED
      BY <3>2, <3>7, <3>8 DEF DeltasFit
  <2>10. WireFits'
    <3>1. \A t \in Streams \ {s} : ~Heeded(t)'
      BY <1>4, <2>1, NoStreamAssumption DEF Heeded
    <3>2. told'[s].deltas = 0 /\ Base(s)' = 0
      BY <1>2, <1>n, <1>q, <2>2 DEF Base
    <3>3. \A i \in Positions' : ~DeltaOf(s, i)'
      BY <1>2, <1>q DEF DeltaOf, Quiet, OfTurn, Positions
    <3> QED
      BY <3>1, <3>2, <3>3 DEF WireFits, OnTheWay
  <2> QED
    BY <1>1, <2>4, <2>5, <2>6, <2>7, <2>8, <2>9, <2>10
<1> QED
  BY <1>3, <1>4

LEMMA RunsOn ==
  ASSUME NEW a \in Seq(Nat), NEW b \in Seq(Nat), NEW m \in Nat,
         \A i \in 1..Len(a) : a[i] = m + i,
         \A i \in 1..Len(b) : b[i] = m + Len(a) + i
  PROVE  /\ Len(a \o b) = Len(a) + Len(b)
         /\ \A i \in 1..Len(a \o b) : (a \o b)[i] = m + i
OBVIOUS

LEMMA SumsDo ==
  /\ \A a, b, c \in Nat : a + b + c \in Nat
  /\ \A a, b, c \in Nat : a + (b + c) = a + b + c /\ a + (b + c) + 0 = a + b + c
  /\ \A a, b, c \in Nat : a + b <= c /\ a + b > 0 => c # 0
OBVIOUS

LEMMA HeadMoves ==
  ASSUME NEW a \in Seq(Nat), NEW b \in Seq(Nat), b # <<>>,
         \A i \in 1..Len(a) : a[i] = i,
         \A i \in 1..Len(b) : b[i] = Len(a) + i
  PROVE  /\ Len(Append(a, Head(b))) = Len(a) + 1 /\ Len(Tail(b)) = Len(b) - 1
         /\ Len(Append(a, Head(b))) + Len(Tail(b)) = Len(a) + Len(b)
         /\ Len(a) \in Nat /\ Len(b) \in Nat \ {0} /\ Len(a) + Len(b) > 0
         /\ \A i \in 1..Len(Append(a, Head(b))) : Append(a, Head(b))[i] = i
         /\ \A i \in 1..Len(Tail(b)) : Tail(b)[i] = Len(a) + 1 + i
OBVIOUS

LEMMA SequencesTyped ==
  ASSUME Types, NEW s \in Streams
  PROVE  /\ got[s] \in Seq(Nat) /\ turns[s].queue \in Seq(Nat) /\ Pend(s).deltas \in Seq(Nat)
         /\ Len(got[s]) \in Nat /\ Len(turns[s].queue) \in Nat /\ Len(Pend(s).deltas) \in Nat
         /\ told[s].deltas \in Nat /\ turns[s] \in ActiveTurn /\ Pend(s) \in Heard
BY BoundsAssumption DEF Types, TypeOK, ActiveTurn, Heard, Pend, Told

LEMMA BaseTyped ==
  ASSUME Types, NEW s \in Streams
  PROVE  Base(s) \in Nat
<1>1. Len(got[s]) \in Nat /\ Len(turns[s].queue) \in Nat /\ Len(Pend(s).deltas) \in Nat
  BY SequencesTyped
<1>2. \A a, b, c \in Nat : a + b + c \in Nat
  BY SumsDo
<1> QED
  BY <1>1, <1>2, Zenon DEF Base

(* The active turn learns its id, from its answer or from its announcement. *)
LEMMA BindKeeps ==
  ASSUME IInv, Types', NEW s \in Streams, active = s, ~closed, BindsTurn(s),
         \A t \in Streams \ {s} : turns'[t] = turns[t],
         UNCHANGED <<got, closed, run, told>>,
         NEW k, Drops(k), k = 1 => wire[1].m = "started",
         \A t \in Streams : pc'[t] = pc[t] \/ (t = s /\ pc[s] = "bind" /\ pc'[s] = "read")
  PROVE  IInv'
<1> USE DropsDo DEF IInv
<1>0. /\ run[s] # "none" /\ pc[s] \notin BeforeTurn
      /\ \A t \in Streams \ {s} : run[t] \notin {"requested", "running"}
  BY NoStreamAssumption DEF OneHolds, TurnsFit
<1>1. /\ turns[s].id = NoStream /\ turns'[s].id = s /\ turns'[s].failed = turns[s].failed
      /\ Pend(s)' = Silence
      /\ turns[s].failed => turns'[s].queue = turns[s].queue /\ turns'[s].over = turns[s].over
      /\ ~turns[s].failed =>
           /\ turns'[s].queue = turns[s].queue \o Pend(s).deltas
           /\ turns'[s].over = IF Pend(s).end = "none" THEN turns[s].over ELSE Pend(s).end
      /\ active' = IF Pend(s).end = "none" THEN active ELSE NoStream
  BY ConstantsTyped DEF BindsTurn, Pend
<1>2. \A t \in Streams \ {s} : Pend(t)' = Pend(t)
  BY DEF Pend
<1>3. Pend(s).end # "none" => run[s] = "over" /\ Quiet(s)
  BY DEF CompletionsFit
<1>4. TurnsFit'
  <2>1. \A t \in Streams : pc'[t] \in BeforeTurn => t # s /\ pc[t] \in BeforeTurn
    BY <1>0 DEF BeforeTurn
  <2>2. turns'[s].failed => turns'[s].over = "failed"
    BY <1>1 DEF TurnsFit
  <2> QED
    BY <1>1, <1>2, <2>1, <2>2 DEF TurnsFit, Untouched, Unbegun
<1>5. OneHolds'
  <2>1. CASE Pend(s).end = "none"
    BY <1>1, <2>1 DEF OneHolds
  <2>2. CASE Pend(s).end # "none"
    <3>1. \A i \in Positions : ~OfTurn(i)
      BY <1>3, <2>2, WireTyped DEF OneHolds, Quiet
    <3> QED
      BY <1>0, <1>1, <1>3, <2>2, <3>1 DEF OneHolds
  <2> QED
    BY <2>1, <2>2
<1>6. CompletionsFit' /\ RepliesFit'
  BY <1>1, <1>2, PipeKeeps DEF SameTold
<1>7. QueuesFit'
  <2>1. \A t \in Streams \ {s} : pc'[t] = pc[t] /\ turns'[t] = turns[t] /\ active # t
    OBVIOUS
  <2>2. Pend(s).end \in {"none", "ended", "failed"}
    BY DEF Types, TypeOK, ActiveTurn, Heard, Pend
  <2>3. turns'[s].over = "open" => active' = s
    BY <1>1, <2>2 DEF TurnsFit
  <2> QED
    BY <2>1, <2>3 DEF QueuesFit
<1>8. \A t \in Streams \ {s} : ~Heeded(t)'
  BY <1>1, NoStreamAssumption DEF Heeded
<1>9. \A t \in Streams \ {s} : Received(t) => Received(t)'
  BY DEF Received
<1>10. Received(s) /\ (Heeded(s) => Expected(s))
  BY DEF DeltasFit
<1>11. Heeded(s)' => Heeded(s) /\ Base(s)' = Base(s) /\ Pend(s).end = "none"
  <2> SUFFICES ASSUME Heeded(s)' PROVE Heeded(s) /\ Base(s)' = Base(s) /\ Pend(s).end = "none"
    OBVIOUS
  <2>1. Heeded(s) /\ Pend(s).end = "none" /\ ~turns[s].failed
    BY <1>1, NoStreamAssumption DEF Heeded
  <2>2. Len(turns'[s].queue) = Len(turns[s].queue) + Len(Pend(s).deltas)
    <3>1. turns[s].queue \in Seq(Nat) /\ Pend(s).deltas \in Seq(Nat)
      BY SequencesTyped
    <3>2. turns'[s].queue = turns[s].queue \o Pend(s).deltas
      BY <1>1, <2>1
    <3> QED
      BY <3>1, <3>2
  <2>3. Len(Pend(s)'.deltas) = 0 /\ got'[s] = got[s]
    BY <1>1 DEF Silence
  <2>4. Base(s)' = Len(got'[s]) + Len(turns'[s].queue) + Len(Pend(s)'.deltas)
    BY DEF Base
  <2>5. Base(s) = Len(got[s]) + Len(turns[s].queue) + Len(Pend(s).deltas)
    BY DEF Base
  <2>6. Len(got[s]) \in Nat /\ Len(turns[s].queue) \in Nat /\ Len(Pend(s).deltas) \in Nat
    BY SequencesTyped
  <2>7. Base(s)' = Len(got[s]) + (Len(turns[s].queue) + Len(Pend(s).deltas)) + 0
    BY <2>2, <2>3, <2>4
  <2>8. \A a, b, c \in Nat : a + (b + c) + 0 = a + b + c
    BY SumsDo
  <2>9. Len(got[s]) + (Len(turns[s].queue) + Len(Pend(s).deltas)) + 0
          = Len(got[s]) + Len(turns[s].queue) + Len(Pend(s).deltas)
    BY <2>6, <2>8
  <2>10. Base(s)' = Base(s)
    BY <2>5, <2>7, <2>9, Zenon
  <2> QED
    BY <2>1, <2>10
<1>12. DeltasFit'
  <2>1. CASE turns[s].failed
    <3>1. turns'[s].queue = turns[s].queue /\ turns'[s].over = turns[s].over
      BY <1>1, <2>1
    <3>2. Received(s)'
      BY <1>10, <3>1 DEF Received
    <3>3. ~Heeded(s)'
      BY <1>1, <2>1 DEF Heeded
    <3> QED
      BY <1>8, <1>9, <3>2, <3>3 DEF DeltasFit
  <2>2. CASE ~turns[s].failed
    <3>1. Expected(s) /\ turns'[s].queue = turns[s].queue \o Pend(s).deltas
      BY <1>1, <1>10, <2>2 DEF Heeded
    <3>2. /\ Len(turns[s].queue \o Pend(s).deltas) = Len(turns[s].queue) + Len(Pend(s).deltas)
          /\ \A i \in 1..Len(turns[s].queue \o Pend(s).deltas) :
               (turns[s].queue \o Pend(s).deltas)[i] = Len(got[s]) + i
      BY <1>10, <3>1, RunsOn, SequencesTyped DEF Received, Expected
    <3>3. Len(got[s]) + Len(turns'[s].queue) = Base(s)
      <4>1. Base(s) = Len(got[s]) + Len(turns[s].queue) + Len(Pend(s).deltas)
        BY DEF Base
      <4>2. Len(got[s]) \in Nat /\ Len(turns[s].queue) \in Nat /\ Len(Pend(s).deltas) \in Nat
        BY SequencesTyped
      <4>3. Len(turns'[s].queue) = Len(turns[s].queue) + Len(Pend(s).deltas)
        BY <3>1, <3>2
      <4>4. Len(got[s]) + Len(turns'[s].queue) = Len(got[s]) + (Len(turns[s].queue) + Len(Pend(s).deltas))
        BY <4>3
      <4>5. \A a, b, c \in Nat : a + (b + c) = a + b + c
        BY SumsDo
      <4>6. Len(got[s]) + (Len(turns[s].queue) + Len(Pend(s).deltas))
              = Len(got[s]) + Len(turns[s].queue) + Len(Pend(s).deltas)
        BY <4>2, <4>5
      <4> QED
        BY <4>1, <4>4, <4>6, Zenon
    <3>4. turns'[s].over = "ended" => Base(s) = told[s].deltas /\ run[s] = "over"
      BY <1>1, <1>3, <2>2, <3>1 DEF Expected
    <3>5. Received(s)'
      BY <1>10, <3>1, <3>2, <3>3, <3>4 DEF Received, Expected
    <3>6. Heeded(s)' => Expected(s)'
      <4> SUFFICES ASSUME Heeded(s)' PROVE Expected(s)'
        OBVIOUS
      <4>1. turns'[s].over = "open" /\ Base(s)' <= told'[s].deltas
        BY <1>1, <1>11, <2>2, <3>1 DEF Expected
      <4>2. Len(Pend(s)'.deltas) = 0 /\ Pend(s)'.end = "none"
        BY <1>1 DEF Silence
      <4> QED
        BY <4>1, <4>2 DEF Expected
    <3> QED
      BY <1>8, <1>9, <3>5, <3>6 DEF DeltasFit
  <2> QED
    BY <2>1, <2>2
<1>13. WireFits'
  <2>1. k = 1 => ~DeltaOf(s, 1)
    BY DEF DeltaOf
  <2> QED
    BY <1>8, <1>11, <2>1, OnTheWayStays DEF WireFits
<1> QED
  BY <1>4, <1>5, <1>6, <1>7, <1>12, <1>13

(* A turn that ends without its completion: its start was refused, its      *)
(* refresh failed, the connection closed.                                   *)
LEMMA FailureKeeps ==
  ASSUME IInv, Types', NEW s \in Streams,
         turns'[s].over = "failed", turns'[s].id = turns[s].id,
         turns'[s].pending = turns[s].pending, turns'[s].queue = turns[s].queue,
         \A t \in Streams \ {s} : turns'[t] = turns[t],
         \A t \in Streams \ {s} : pc'[t] = pc[t] \/ (pc[t] \in BeforeTurn /\ pc'[t] \in BeforeTurn),
         UNCHANGED <<got, run, wire>>, SameTold,
         pc'[s] = pc[s] \/ (pc'[s] = "read" /\ (pc[s] = "rejected" \/ (pc[s] = "start" /\ closed))),
         \/ UNCHANGED <<active, closed>> /\ (active = s => turns'[s].failed)
         \/ active' = NoStream /\ active = s /\ closed' = closed /\ pc[s] = "rejected"
         \/ active' = NoStream /\ (active = s \/ active = NoStream) /\ closed',
         active = NoStream \/ active = s \/ pc[s] = "rejected",
         pc[s] \notin BeforeTurn
  PROVE  IInv'
<1> USE DEF IInv, SameTold
<1>1. \A t \in Streams : Pend(t)' = Pend(t) /\ Base(t)' = Base(t)
  BY DEF Pend, Base
<1>2. /\ UNCHANGED Positions
      /\ \A i \in Positions : OfTurn(i)' <=> OfTurn(i)
      /\ \A t \in Streams : (Quiet(t)' <=> Quiet(t))
      /\ \A t \in Streams, i \in Positions : DeltaOf(t, i)' <=> DeltaOf(t, i)
  BY DEF Positions, OfTurn, Quiet, DeltaOf
<1>4. TurnsFit'
  <2>1. \A t \in Streams : pc'[t] \in BeforeTurn => t # s /\ pc[t] \in BeforeTurn
    BY DEF BeforeTurn
  <2> QED
    BY <1>1, <1>2, <2>1 DEF TurnsFit, Untouched, Unbegun
<1>5. OneHolds'
  <2>1. pc[s] = "rejected" => run[s] = "over" /\ Quiet(s)
    BY DEF RepliesFit, NeverBegun
  <2>2. CASE active' = NoStream /\ active = s /\ closed' = closed /\ pc[s] = "rejected"
    BY <1>2, <2>1, <2>2, NoStreamAssumption, WireTyped DEF OneHolds, Quiet
  <2>3. CASE active' = NoStream /\ closed'
    BY <2>3 DEF OneHolds
  <2>4. CASE UNCHANGED <<active, closed>>
    BY <1>2, <2>4 DEF OneHolds
  <2> QED
    BY <2>2, <2>3, <2>4
<1>6. CompletionsFit'
  BY <1>1, <1>2 DEF CompletionsFit
<1>7. \A t \in Streams : NeverBegun(t) => NeverBegun(t)'
  BY <1>1, <1>2 DEF NeverBegun
<1>8. RepliesFit'
  <2>1. \A t \in Streams : pc[t] = "start" => pc'[t] = "start" \/ closed
    BY DEF BeforeTurn
  <2>2. \A t \in Streams : pc'[t] = "rejected" => pc[t] = "rejected"
    BY DEF BeforeTurn
  <2>3. closed => closed'
    OBVIOUS
  <2> QED
    BY <1>2, <1>7, <2>1, <2>2, <2>3, WireTyped DEF RepliesFit
<1>9. QueuesFit'
  BY NoStreamAssumption DEF QueuesFit, BeforeTurn
<1>10. \A t \in Streams : Heeded(t)' => Heeded(t) /\ t # s
  BY NoStreamAssumption DEF Heeded
<1>11. DeltasFit'
  <2>1. \A t \in Streams : Received(t) => Received(t)'
    BY DEF Received
  <2>2. \A t \in Streams \ {s} : Expected(t) => Expected(t)'
    BY <1>1 DEF Expected
  <2> QED
    BY <1>10, <2>1, <2>2 DEF DeltasFit
<1>12. WireFits'
  BY <1>1, <1>10, SameWire, OnTheWayStays DEF WireFits
<1> QED
  BY <1>4, <1>5, <1>6, <1>8, <1>9, <1>11, <1>12

(* The consumer takes a value.                                              *)
LEMMA ValueKeeps ==
  ASSUME IInv, Types', NEW s \in Streams, turns[s].queue # <<>>,
         got' = [got EXCEPT ![s] = Append(@, Head(turns[s].queue))],
         turns' = [turns EXCEPT ![s].queue = Tail(@)],
         UNCHANGED <<pc, active, closed, wire, run, told>>
  PROVE  IInv'
<1> USE DEF IInv
<1>0. turns[s] \in ActiveTurn /\ Received(s) /\ (Heeded(s) => Expected(s))
  BY SequencesTyped DEF DeltasFit
<1>1. /\ got'[s] = Append(got[s], Head(turns[s].queue))
      /\ \A t \in Streams \ {s} : got'[t] = got[t] /\ turns'[t] = turns[t]
      /\ turns'[s].queue = Tail(turns[s].queue) /\ turns'[s].id = turns[s].id
      /\ turns'[s].over = turns[s].over /\ turns'[s].failed = turns[s].failed
      /\ turns'[s].pending = turns[s].pending
  BY <1>0 DEF Types, TypeOK, ActiveTurn
<1>2. \A t \in Streams : Pend(t)' = Pend(t)
  BY <1>1 DEF Pend
<1>3. /\ Len(got'[s]) = Len(got[s]) + 1
      /\ Len(got'[s]) + Len(turns'[s].queue) = Len(got[s]) + Len(turns[s].queue)
      /\ Len(got[s]) + Len(turns[s].queue) > 0
      /\ \A i \in 1..Len(got'[s]) : got'[s][i] = i
      /\ \A i \in 1..Len(turns'[s].queue) : turns'[s].queue[i] = Len(got[s]) + 1 + i
  <2>1. /\ Len(Append(got[s], Head(turns[s].queue))) = Len(got[s]) + 1
        /\ Len(Append(got[s], Head(turns[s].queue))) + Len(Tail(turns[s].queue))
             = Len(got[s]) + Len(turns[s].queue)
        /\ Len(got[s]) + Len(turns[s].queue) > 0
        /\ \A i \in 1..Len(Append(got[s], Head(turns[s].queue))) : Append(got[s], Head(turns[s].queue))[i] = i
        /\ \A i \in 1..Len(Tail(turns[s].queue)) : Tail(turns[s].queue)[i] = Len(got[s]) + 1 + i
    BY <1>0, HeadMoves, SequencesTyped DEF Received
  <2> QED
    BY <1>1, <2>1
<1>4. Len(got'[s]) + Len(turns'[s].queue) = Len(got[s]) + Len(turns[s].queue)
  BY <1>3
<1>5. \A t \in Streams : Heeded(t)' <=> Heeded(t)
  BY <1>1 DEF Heeded
<1>6. \A t \in Streams : Base(t)' = Base(t)
  BY <1>1, <1>2, <1>4 DEF Base
<1>7. /\ UNCHANGED Positions
      /\ \A i \in Positions : OfTurn(i)' <=> OfTurn(i)
      /\ \A t \in Streams : Quiet(t)' <=> Quiet(t)
  BY DEF Positions, OfTurn, Quiet
<1>8. pc[s] \notin BeforeTurn /\ run[s] # "none"
  <2>1. turns[s].queue # NewTurn.queue
    BY DEF NewTurn
  <2>2. pc[s] \notin BeforeTurn
    BY <2>1 DEF TurnsFit
  <2>3. run[s] = "none" => told[s].deltas = 0
    BY DEF TurnsFit, Unbegun
  <2>4. ~(told[s].deltas = 0)
    <3>1. Len(got[s]) + Len(turns[s].queue) <= told[s].deltas
      BY <1>0 DEF Received
    <3>2. Len(got[s]) \in Nat /\ Len(turns[s].queue) \in Nat /\ told[s].deltas \in Nat
      BY SequencesTyped
    <3>3. Len(got[s]) + Len(turns[s].queue) > 0
      BY <1>3
    <3>4. \A a, b, c \in Nat : a + b <= c /\ a + b > 0 => c # 0
      BY SumsDo
    <3> QED
      BY <3>1, <3>2, <3>3, <3>4, Zenon
  <2> QED
    BY <2>2, <2>3, <2>4
<1>9. TurnsFit'
  BY <1>1, <1>2, <1>7, <1>8 DEF TurnsFit, Untouched, Unbegun
<1>10. OneHolds'
  BY <1>7 DEF OneHolds
<1>11. CompletionsFit' /\ RepliesFit'
  BY <1>2, SameWire, PipeKeeps DEF SameTold
<1>12. QueuesFit'
  BY <1>1 DEF QueuesFit
<1>13. DeltasFit'
  <2>1. Received(s)'
    BY <1>0, <1>1, <1>3, <1>4 DEF Received
  <2>2. \A t \in Streams \ {s} : Received(t) => Received(t)'
    BY <1>1 DEF Received
  <2>3. \A t \in Streams \ {s} : Expected(t) => Expected(t)'
    BY <1>1, <1>2, <1>6 DEF Expected
  <2>4. Expected(s) => Expected(s)'
    BY <1>1, <1>2, <1>4, <1>6 DEF Expected
  <2> QED
    BY <1>5, <2>1, <2>2, <2>3, <2>4 DEF DeltasFit
<1>14. WireFits'
  BY <1>5, <1>6, SameWire, OnTheWayStays DEF WireFits
<1> QED
  BY <1>9, <1>10, <1>11, <1>12, <1>13, <1>14

(* Begin, Check and Fenced: the steps before the turn.                      *)
LEMMA BeforeKeeps ==
  ASSUME IInv, NEW s \in Streams, Begin(s) \/ Check(s) \/ Fenced(s)
  PROVE  IInv'
<1> USE SameWire DEF IInv
<1>1. CASE Begin(s)
  <2>1. Types'
    BY <1>1 DEF Begin, Goto, server, Types, TypeOK, Phases, Ended
  <2>2. \A t \in Streams : MovesOn(t)
    BY <1>1 DEF Begin, Goto, Types, TypeOK, MovesOn, BeforeTurn
  <2> QED
    BY <1>1, <2>1, <2>2, MovesKeep DEF Begin, server, SameTold
<1>2. CASE Check(s) /\ active # NoStream /\ turns[active].failed
  <2>1. Types'
    BY <1>2 DEF Check, Goto, Types, TypeOK, Phases, Ended
  <2>2. \A t \in Streams : MovesOn(t)
    BY <1>2 DEF Check, Goto, Types, TypeOK, MovesOn, BeforeTurn
  <2> QED
    BY <1>2, <2>1, <2>2, MovesKeep DEF Check, SameTold
<1>3. CASE Check(s) /\ ~(active # NoStream /\ turns[active].failed)
  BY <1>3, TakeKeeps DEF Check
<1>4. CASE Fenced(s)
  BY <1>4, TakeKeeps DEF Fenced
<1> QED
  BY <1>1, <1>2, <1>3, <1>4

LEMMA StartedKeeps ==
  ASSUME IInv, NEW s \in Streams, Started(s)
  PROVE  IInv'
<1> USE SameWire DEF IInv
<1>1. pc' \in [Streams -> Phases] /\ pc'[s] = "read" /\ \A t \in Streams \ {s} : pc'[t] = pc[t]
  BY DEF Started, Goto, Types, TypeOK, Phases, Ended
<1>2. UNCHANGED <<thread, waitsFor, got, closed, wire, run, told, refreshing>> /\ pc[s] = "bind"
  BY DEF Started, server
<1>3. CASE UNCHANGED <<turns, active>>
  <2>1. Types'
    BY <1>1, <1>2, <1>3 DEF Types, TypeOK
  <2> QED
    BY <1>1, <1>2, <1>3, <2>1, MovesKeep DEF MovesOn, SameTold
<1>4. CASE active = s /\ Bind(s, s)
  <2>1. /\ turns' \in [Streams -> ActiveTurn] /\ active' \in Streams \cup {NoStream}
        /\ \A t \in Streams \ {s} : turns'[t] = turns[t]
        /\ \/ UNCHANGED <<turns, active>>
           \/ BindsTurn(s)
    BY <1>4, BindDoes
  <2>2. Types'
    BY <1>1, <1>2, <2>1 DEF Types, TypeOK
  <2>3. ~closed
    BY <1>4, NoStreamAssumption DEF OneHolds
  <2>4. CASE BindsTurn(s)
    <3>1. Drops(0)
      BY <1>2, SameWire
    <3>2. \A t \in Streams : pc'[t] = pc[t] \/ (t = s /\ pc[s] = "bind" /\ pc'[s] = "read")
      BY <1>1, <1>2
    <3> QED
      BY <1>2, <1>4, <2>1, <2>2, <2>3, <2>4, <3>1, <3>2, BindKeeps
  <2> QED
    BY <1>3, <2>1, <2>4
<1> QED
  BY <1>3, <1>4 DEF Started

LEMMA StartFailsKeeps ==
  ASSUME IInv, NEW s \in Streams, StartFails(s)
  PROVE  IInv'
<1> USE DEF IInv
<1>1. /\ pc' \in [Streams -> Phases] /\ pc'[s] = "read" /\ \A t \in Streams \ {s} : pc'[t] = pc[t]
      /\ pc[s] = "rejected" \/ (pc[s] = "start" /\ closed)
  BY DEF StartFails, Goto, Types, TypeOK, Phases, Ended
<1>2. turns[s] \in ActiveTurn
  BY SequencesTyped
<1>3. /\ turns' \in [Streams -> ActiveTurn] /\ turns'[s].over = "failed"
      /\ turns'[s].id = turns[s].id /\ turns'[s].pending = turns[s].pending
      /\ turns'[s].queue = turns[s].queue /\ turns'[s].failed = turns[s].failed
      /\ \A t \in Streams \ {s} : turns'[t] = turns[t]
  BY <1>2 DEF StartFails, FailQueue, Types, TypeOK, ActiveTurn
<1>4. active' = IF active = s THEN NoStream ELSE active
  BY DEF StartFails, FinishIfActive
<1>5. Types'
  BY <1>1, <1>3, <1>4 DEF StartFails, server, Types, TypeOK
<1>6. closed => active = NoStream
  BY DEF OneHolds
<1>7. \/ UNCHANGED <<active, closed>> /\ (active = s => turns'[s].failed)
      \/ active' = NoStream /\ active = s /\ closed' = closed /\ pc[s] = "rejected"
  BY <1>1, <1>4, <1>6, NoStreamAssumption DEF StartFails
<1> QED
  BY <1>1, <1>3, <1>5, <1>6, <1>7, FailureKeeps DEF StartFails, server, BeforeTurn, SameTold

LEMMA ReadsKeep ==
  ASSUME IInv, NEW s \in Streams, Consume(s) \/ Abandon(s)
  PROVE  IInv'
<1> USE DEF IInv
<1>1. CASE UNCHANGED <<got, turns>> /\ (\E phase \in {"done", "failed", "abandoned"} : Goto(s, phase))
           /\ pc[s] = "read"
           /\ UNCHANGED <<thread, waitsFor, active, closed, wire, server, refreshing>>
  <2>1. Types'
    BY <1>1 DEF Goto, server, Types, TypeOK, Phases, Ended
  <2>2. \A t \in Streams : MovesOn(t)
    BY <1>1 DEF Goto, Types, TypeOK, MovesOn
  <2> QED
    BY <1>1, <2>1, <2>2, SameWire, MovesKeep DEF server, SameTold
<1>2. CASE /\ turns[s].queue # <<>>
           /\ got' = [got EXCEPT ![s] = Append(@, Head(turns[s].queue))]
           /\ turns' = [turns EXCEPT ![s].queue = Tail(@)]
           /\ UNCHANGED <<pc, thread, waitsFor, active, closed, wire, server, refreshing>>
  <2>1. turns[s] \in ActiveTurn /\ turns[s].queue \in Seq(Nat) /\ got[s] \in Seq(Nat)
    BY SequencesTyped
  <2>2. Tail(turns[s].queue) \in Seq(Nat) /\ Append(got[s], Head(turns[s].queue)) \in Seq(Nat)
    BY <1>2, <2>1
  <2>3. [turns[s] EXCEPT !.queue = Tail(@)] \in ActiveTurn
    BY <2>1, <2>2 DEF ActiveTurn
  <2>4. turns' \in [Streams -> ActiveTurn] /\ got' \in [Streams -> Seq(Nat)]
    BY <1>2, <2>2, <2>3 DEF Types, TypeOK
  <2>5. Types'
    BY <1>2, <2>4 DEF server, Types, TypeOK
  <2> QED
    BY <1>2, <2>5, ValueKeeps DEF server
<1> QED
  BY <1>1, <1>2 DEF Consume, Abandon

LEMMA SettlingKeeps ==
  ASSUME IInv, NEW s \in Streams, NEW ok \in BOOLEAN, RefreshSettles(s, ok)
  PROVE  IInv'
<1> USE DEF IInv
<1>1. told' \in [Streams -> Told] /\ SameTold
  BY DEF RefreshSettles, Types, TypeOK, Told, SameTold
<1>2. UNCHANGED <<thread, pc, waitsFor, active, got, closed, wire, run>> /\ refreshing' \subseteq Streams
  BY DEF RefreshSettles, Types, TypeOK
<1>3. CASE ok \/ active = NoStream
  <2>1. turns' = turns
    BY <1>3 DEF RefreshSettles
  <2>2. Types'
    BY <1>1, <1>2, <2>1 DEF Types, TypeOK
  <2> QED
    BY <1>1, <1>2, <2>1, <2>2, SameWire, MovesKeep DEF MovesOn
<1>4. CASE ~ok /\ active # NoStream
  <2>1. PICK t \in Streams : t = active
    BY <1>4 DEF Types, TypeOK
  <2>2. turns' = [turns EXCEPT ![t].failed = TRUE, ![t].over = "failed"]
    BY <1>4, <2>1 DEF RefreshSettles
  <2>3. turns[t] \in ActiveTurn
    BY SequencesTyped
  <2>4. /\ turns' \in [Streams -> ActiveTurn] /\ turns'[t].over = "failed" /\ turns'[t].failed
        /\ turns'[t].id = turns[t].id /\ turns'[t].pending = turns[t].pending
        /\ turns'[t].queue = turns[t].queue
        /\ \A u \in Streams \ {t} : turns'[u] = turns[u]
    BY <2>2, <2>3 DEF Types, TypeOK, ActiveTurn
  <2>5. Types'
    BY <1>1, <1>2, <2>4 DEF Types, TypeOK
  <2>6. pc[t] \notin BeforeTurn
    BY <2>1, NoStreamAssumption DEF OneHolds, TurnsFit
  <2> QED
    BY <1>1, <1>2, <2>1, <2>4, <2>5, <2>6, FailureKeeps
<1> QED
  BY <1>3, <1>4

LEMMA CloseKeeps ==
  ASSUME IInv, Close
  PROVE  IInv'
<1> USE DEF IInv
<1>1. /\ pc' \in [Streams -> Phases] /\ thread' \in {"none", "starting", "started"}
      /\ \A t \in Streams : pc'[t] = pc[t] \/ (pc[t] = "thread" /\ pc'[t] = "refused")
      /\ closed' = TRUE /\ active' = NoStream
      /\ UNCHANGED <<waitsFor, got, wire, run, told, refreshing>>
  BY DEF Close, server, Types, TypeOK, Phases, Ended
<1>2. CASE active = NoStream
  <2>1. turns' = turns
    BY <1>2 DEF Close
  <2>2. Types'
    BY <1>1, <2>1 DEF Types, TypeOK
  <2> QED
    BY <1>1, <1>2, <2>1, <2>2, SameWire, MovesKeep DEF MovesOn, SameTold, BeforeTurn
<1>3. CASE active # NoStream
  <2>1. PICK s \in Streams : s = active
    BY <1>3 DEF Types, TypeOK
  <2>2. turns' = [turns EXCEPT ![s].over = "failed"]
    BY <1>3, <2>1 DEF Close
  <2>3. turns[s] \in ActiveTurn
    BY SequencesTyped
  <2>4. /\ turns' \in [Streams -> ActiveTurn] /\ turns'[s].over = "failed"
        /\ turns'[s].id = turns[s].id /\ turns'[s].pending = turns[s].pending
        /\ turns'[s].queue = turns[s].queue /\ turns'[s].failed = turns[s].failed
        /\ \A u \in Streams \ {s} : turns'[u] = turns[u]
    BY <2>2, <2>3 DEF Types, TypeOK, ActiveTurn
  <2>5. Types'
    BY <1>1, <2>4 DEF Types, TypeOK
  <2>6. pc[s] \notin BeforeTurn
    BY <2>1, NoStreamAssumption DEF OneHolds, TurnsFit
  <2>7. pc'[s] = pc[s] /\ \A t \in Streams : pc'[t] = pc[t] \/ (pc[t] \in BeforeTurn /\ pc'[t] \in BeforeTurn)
    BY <1>1, <2>6 DEF BeforeTurn
  <2>8. closed' /\ active = s /\ SameTold
    BY <1>1, <2>1 DEF SameTold
  <2> QED
    BY <1>1, <2>4, <2>5, <2>6, <2>7, <2>8, FailureKeeps
<1> QED
  BY <1>2, <1>3

(***************************************************************************)
(* The process's steps.                                                    *)
(***************************************************************************)

LEMMA GrowsDo ==
  ASSUME Types, NEW line \in Lines, Writes(line), NEW N, N = Len(wire) + 1
  PROVE  /\ Positions' = Positions \cup {N} /\ wire'[N] = line
         /\ \A i \in Positions : i < N /\ i # N /\ wire'[i] = wire[i]
         /\ \A i \in Positions : ~(i > N) /\ ~(N < i)
         /\ ~(N < N)
         /\ \A i \in Positions : OfTurn(i)' <=> OfTurn(i)
         /\ OfTurn(N)' <=> line.m \in {"started", "delta", "completed"}
         /\ \A t \in Streams, i \in Positions : DeltaOf(t, i)' <=> DeltaOf(t, i)
         /\ \A t \in Streams : DeltaOf(t, N)' <=> line.m = "delta" /\ line.of = t
<1>1. /\ wire' \in Seq(Lines) /\ Len(wire) \in Nat /\ Len(wire') = Len(wire) + 1
      /\ wire'[N] = line
      /\ \A i \in 1..Len(wire) : wire'[i] = wire[i]
  BY WritesDoes DEF Types
<1>2. /\ Positions' = Positions \cup {N}
      /\ \A i \in Positions : i < N /\ i # N /\ wire'[i] = wire[i]
      /\ \A i \in Positions : ~(i > N) /\ ~(N < i)
      /\ ~(N < N)
  BY <1>1 DEF Positions
<1> QED
  BY <1>1, <1>2 DEF OfTurn, DeltaOf

LEMMA QuietStays ==
  ASSUME Types, NEW line \in Lines, Writes(line), NEW t \in Streams, Quiet(t),
         line.of # t \/ line.m \notin {"started", "delta", "completed"}
  PROVE  Quiet(t)'
<1>1. PICK N : N = Len(wire) + 1
  OBVIOUS
<1> QED
  BY <1>1, GrowsDo DEF Quiet

LEMMA OnTheWayGrows ==
  ASSUME Types, NEW line \in Lines, Writes(line), line.m # "delta", NEW s \in Streams,
         UNCHANGED <<got, turns>>, told'[s].deltas = told[s].deltas, OnTheWay(s)
  PROVE  OnTheWay(s)'
<1>1. PICK N : N = Len(wire) + 1
  OBVIOUS
<1>2. Base(s)' = Base(s)
  BY DEF Base, Pend
<1> QED
  BY <1>1, <1>2, GrowsDo DEF OnTheWay

(* The streams hear nothing before the line is handled.                     *)
LEMMA DeltasStay ==
  ASSUME IInv, UNCHANGED <<pc, active, turns, got>>,
         \A t \in Streams : told'[t].deltas = told[t].deltas,
         \A t \in Streams : run[t] = "over" => run'[t] = "over"
  PROVE  DeltasFit' /\ QueuesFit'
<1> USE DEF IInv
<1>1. \A t \in Streams : Received(t) => Received(t)'
  BY DEF Received
<1>2. \A t \in Streams : (Heeded(t)' <=> Heeded(t)) /\ (Expected(t) => Expected(t)')
  BY DEF Heeded, Expected, Base, Pend
<1> QED
  BY <1>1, <1>2 DEF DeltasFit, QueuesFit

(* A line that is not about a turn: the thread's answer, a callback, the    *)
(* answer to a turn/start, with which a turn may be refused.                *)
LEMMA AnswerKeeps ==
  ASSUME IInv, Types', NEW s \in Streams, NEW line \in Lines, line.of = s, Writes(line),
         ~closed, UNCHANGED <<pc, active, turns, got, closed>>,
         \A t \in Streams : told'[t].deltas = told[t].deltas,
         \A t \in Streams \ {s} : told'[t].replied = told[t].replied /\ run'[t] = run[t],
         \/ /\ line.m \in {"thread", "callback"} /\ told'[s].replied = told[s].replied
            /\ run'[s] = run[s]
         \/ /\ line.m = "reply" /\ ~told[s].replied /\ told'[s].replied
            /\ \/ line.ok /\ run'[s] = run[s] /\ run[s] \in {"running", "over"}
               \/ ~line.ok /\ run[s] = "requested" /\ run'[s] = "over"
  PROVE  IInv'
<1> USE DEF IInv
<1>0. PICK N : N = Len(wire) + 1
  OBVIOUS
<1>1. /\ Positions' = Positions \cup {N} /\ wire'[N] = line
      /\ \A i \in Positions : i < N /\ i # N /\ wire'[i] = wire[i]
      /\ \A i \in Positions : OfTurn(i)' <=> OfTurn(i)
      /\ ~OfTurn(N)'
  <2>1. line.m \notin {"started", "delta", "completed"}
    OBVIOUS
  <2> QED
    BY <1>0, <2>1, GrowsDo
<1>2. \A t \in Streams : Pend(t)' = Pend(t) /\ (Quiet(t) => Quiet(t)')
  BY QuietStays DEF Pend
<1>3. \A t \in Streams : /\ run[t] = "over" => run'[t] = "over"
                         /\ run[t] # "none" <=> run'[t] # "none"
                         /\ run'[t] = "requested" => run[t] = "requested"
                         /\ run'[t] = "running" => run[t] = "running"
  OBVIOUS
<1>4. \A t \in Streams : run'[t] \in {"none", "requested"} => ~told'[t].replied \/ told[t].replied
  OBVIOUS
<1>5. TurnsFit'
  BY <1>2, <1>3, <1>4 DEF TurnsFit, Untouched, Unbegun
<1>6. OneHolds'
  <2>1. \A i \in Positions' : OfTurn(i)' => wire'[i].of = active'
    <3>1. \A i \in Positions : OfTurn(i) => wire[i].of = active
      BY DEF OneHolds
    <3> QED
      BY <1>1, <3>1
  <2>2. active \in Streams \cup {NoStream}
    BY DEF Types, TypeOK
  <2> QED
    BY <1>3, <2>1, <2>2 DEF OneHolds
<1>7. CompletionsFit'
  <2>1. wire'[N].m # "completed"
    BY <1>1
  <2>2. ASSUME NEW i \in Positions', wire'[i].m = "completed"
        PROVE  /\ run'[wire'[i].of] = "over"
               /\ \A j \in Positions' : j > i /\ OfTurn(j)' => wire'[j].of # wire'[i].of
    <3>1. i \in Positions /\ wire'[i] = wire[i] /\ wire[i].of \in Streams
      BY <1>1, <2>1, <2>2, WireTyped
    <3>2. /\ run[wire[i].of] = "over"
          /\ \A j \in Positions : j > i /\ OfTurn(j) => wire[j].of # wire[i].of
      BY <2>2, <3>1 DEF CompletionsFit
    <3>3. run'[wire'[i].of] = "over"
      BY <1>3, <3>1, <3>2
    <3>4. \A j \in Positions' : j > i /\ OfTurn(j)' => wire'[j].of # wire'[i].of
      BY <1>1, <3>1, <3>2
    <3> QED
      BY <3>3, <3>4
  <2>3. \A t \in Streams : Pend(t)'.end # "none" => run'[t] = "over" /\ Quiet(t)'
    BY <1>2, <1>3 DEF CompletionsFit
  <2> QED
    BY <2>2, <2>3 DEF CompletionsFit
<1>8. \A t \in Streams : NeverBegun(t) => NeverBegun(t)'
  BY <1>2, <1>3 DEF NeverBegun
<1>9. RepliesFit'
  <2>1. \A t \in Streams : /\ pc'[t] = "rejected" => NeverBegun(t)'
                           /\ run'[t] # "none" /\ ~told'[t].replied /\ ~closed' => pc'[t] = "start"
    BY <1>3, <1>8 DEF RepliesFit
  <2>2. ASSUME line.m = "reply"
        PROVE  /\ told'[s].replied /\ run'[s] # "none" /\ pc'[s] = "start"
               /\ ~line.ok => NeverBegun(s)'
               /\ \A i \in Positions : wire[i].m = "reply" => wire[i].of # s
    <3>1. run[s] # "none" /\ ~told[s].replied
      BY <2>2
    <3>2. pc[s] = "start"
      BY <3>1 DEF RepliesFit
    <3>3. ~line.ok => NeverBegun(s)'
      BY <1>2, <2>2 DEF TurnsFit, Unbegun, NeverBegun
    <3>4. \A i \in Positions : wire[i].m = "reply" => wire[i].of # s
      BY <3>1 DEF RepliesFit
    <3> QED
      BY <2>2, <3>1, <3>2, <3>3, <3>4
  <2>3. ASSUME NEW i \in Positions', wire'[i].m = "reply"
        PROVE  /\ told'[wire'[i].of].replied
               /\ run'[wire'[i].of] # "none"
               /\ ~wire'[i].ok => NeverBegun(wire[i].of)'
               /\ ~closed' => pc'[wire'[i].of] = "start"
               /\ \A j \in Positions' : wire'[j].m = "reply" /\ wire'[j].of = wire'[i].of => i = j
    <3>1. CASE i = N
      <4>1. wire'[i] = line /\ line.m = "reply"
        BY <1>1, <2>3, <3>1
      <4>2. ~line.ok => NeverBegun(wire[i].of)'
        BY <2>2, <4>1 DEF NeverBegun, Quiet, Pend
      <4>3. told'[s].replied /\ run'[s] # "none" /\ pc'[s] = "start"
            /\ \A j \in Positions : wire'[j].m = "reply" => wire'[j].of # s
        BY <1>1, <2>2, <4>1
      <4> QED
        BY <1>1, <3>1, <4>1, <4>2, <4>3
    <3>2. CASE i \in Positions
      <4>1. PICK t \in Streams : t = wire[i].of /\ t = wire'[i].of
        BY <1>1, <3>2, WireTyped
      <4>2. /\ told[t].replied /\ run[t] # "none" /\ pc[t] = "start"
            /\ ~wire[i].ok => NeverBegun(t)
            /\ \A j \in Positions : wire[j].m = "reply" /\ wire[j].of = t => i = j
        BY <1>1, <2>3, <3>2, <4>1 DEF RepliesFit
      <4>3. ~wire'[i].ok => NeverBegun(wire[i].of)'
        BY <1>1, <1>8, <3>2, <4>1, <4>2 DEF NeverBegun, Quiet, Pend
      <4>4. line.m = "reply" => t # s
        BY <1>1, <2>2, <2>3, <3>2, <4>1
      <4> QED
        BY <1>1, <1>3, <3>2, <4>1, <4>2, <4>3, <4>4
    <3> QED
      BY <1>1, <3>1, <3>2
  <2> QED
    BY <2>1, <2>3 DEF RepliesFit
<1>10. DeltasFit' /\ QueuesFit'
  BY <1>3, DeltasStay
<1>11. WireFits'
  <2>1. \A t \in Streams : Heeded(t)' <=> Heeded(t)
    BY DEF Heeded
  <2>2. \A t \in Streams : OnTheWay(t) => OnTheWay(t)'
    BY OnTheWayGrows
  <2> QED
    BY <2>1, <2>2 DEF WireFits
<1> QED
  BY <1>5, <1>6, <1>7, <1>9, <1>10, <1>11

(* A line about a turn that is running: it is announced, a delta of it, or  *)
(* its completion.                                                          *)
LEMMA SpeaksKeeps ==
  ASSUME IInv, Types', NEW s \in Streams, NEW line \in Lines, line.of = s, Writes(line),
         run[s] = "running", ~closed, UNCHANGED <<pc, active, turns, got, closed>>,
         \A t \in Streams : told'[t].replied = told[t].replied,
         \A t \in Streams \ {s} : told'[t].deltas = told[t].deltas /\ run'[t] = run[t],
         \/ line.m = "started" /\ run'[s] = run[s] /\ told'[s].deltas = told[s].deltas
         \/ /\ line.m = "delta" /\ line.n = told[s].deltas + 1 /\ run'[s] = run[s]
            /\ told'[s].deltas = told[s].deltas + 1
         \/ line.m = "completed" /\ run'[s] = "over" /\ told'[s].deltas = told[s].deltas
  PROVE  IInv'
<1> USE DEF IInv
<1>0. PICK N : N = Len(wire) + 1
  OBVIOUS
<1>1. /\ Positions' = Positions \cup {N} /\ wire'[N] = line
      /\ \A i \in Positions : i < N /\ i # N /\ wire'[i] = wire[i]
      /\ \A i \in Positions : ~(i > N) /\ ~(N < i)
      /\ ~(N < N) /\ ~(N > N)
      /\ \A i \in Positions : OfTurn(i)' <=> OfTurn(i)
      /\ \A t \in Streams, i \in Positions : DeltaOf(t, i)' <=> DeltaOf(t, i)
      /\ \A t \in Streams : DeltaOf(t, N)' <=> line.m = "delta" /\ line.of = t
  BY <1>0, GrowsDo
<1>2. \A t \in Streams : Pend(t)' = Pend(t)
  BY DEF Pend
<1>3. \A t \in Streams \ {s} : Quiet(t) => Quiet(t)'
  BY QuietStays
<1>4. active = s
  BY DEF OneHolds
<1>5. \A t \in Streams : (run[t] = "over" => t # s /\ run'[t] = "over") /\ (run'[t] # "none" <=> run[t] # "none")
  OBVIOUS
<1>6. TurnsFit'
  BY <1>2, <1>3, <1>5 DEF TurnsFit, Untouched, Unbegun
<1>7. OneHolds'
  <2>1. \A i \in Positions' : OfTurn(i)' => wire'[i].of = active'
    <3>1. \A i \in Positions : OfTurn(i) => wire[i].of = active
      BY DEF OneHolds
    <3> QED
      BY <1>1, <1>4, <3>1
  <2> QED
    BY <1>4, <1>5, <2>1 DEF OneHolds
<1>8. Pend(s).end = "none" /\ \A i \in Positions : wire[i].m = "completed" => wire[i].of # s
  BY DEF CompletionsFit
<1>9. CompletionsFit'
  <2>1. ASSUME NEW i \in Positions', wire'[i].m = "completed"
        PROVE  /\ run'[wire'[i].of] = "over"
               /\ \A j \in Positions' : j > i /\ OfTurn(j)' => wire'[j].of # wire'[i].of
    <3>1. CASE i = N
      <4>1. wire'[i] = line /\ line.m = "completed"
        BY <1>1, <2>1, <3>1
      <4> QED
        BY <1>1, <3>1, <4>1
    <3>2. CASE i \in Positions
      <4>1. wire'[i] = wire[i] /\ wire[i].of \in Streams
        BY <1>1, <3>2, WireTyped
      <4>2. /\ run[wire[i].of] = "over" /\ wire[i].of # s
            /\ \A j \in Positions : j > i /\ OfTurn(j) => wire[j].of # wire[i].of
        BY <1>8, <2>1, <3>2, <4>1 DEF CompletionsFit
      <4>3. run'[wire'[i].of] = "over"
        BY <1>5, <4>1, <4>2
      <4>4. \A j \in Positions' : j > i /\ OfTurn(j)' => wire'[j].of # wire'[i].of
        BY <1>1, <4>1, <4>2
      <4> QED
        BY <4>3, <4>4
    <3> QED
      BY <1>1, <3>1, <3>2
  <2>2. \A t \in Streams : Pend(t)'.end # "none" => run'[t] = "over" /\ Quiet(t)'
    BY <1>2, <1>3, <1>5, <1>8 DEF CompletionsFit
  <2> QED
    BY <2>1, <2>2 DEF CompletionsFit
<1>10. \A t \in Streams : NeverBegun(t) => NeverBegun(t)'
  BY <1>2, <1>3, <1>5 DEF NeverBegun
<1>11. RepliesFit'
  <2>1. \A t \in Streams : /\ pc'[t] = "rejected" => NeverBegun(t)'
                           /\ run'[t] # "none" /\ ~told'[t].replied /\ ~closed' => pc'[t] = "start"
    BY <1>5, <1>10 DEF RepliesFit
  <2>2. ASSUME NEW i \in Positions', wire'[i].m = "reply"
        PROVE  /\ told'[wire'[i].of].replied
               /\ run'[wire'[i].of] # "none"
               /\ ~wire'[i].ok => NeverBegun(wire[i].of)'
               /\ ~closed' => pc'[wire'[i].of] = "start"
               /\ \A j \in Positions' : wire'[j].m = "reply" /\ wire'[j].of = wire'[i].of => i = j
    <3>1. i # N /\ i \in Positions /\ \A j \in Positions' : wire'[j].m = "reply" => j # N /\ j \in Positions
      BY <1>1, <2>2
    <3>2. PICK t \in Streams : t = wire[i].of /\ t = wire'[i].of /\ wire'[i] = wire[i]
      BY <1>1, <3>1, WireTyped
    <3>3. /\ told[t].replied /\ run[t] # "none" /\ pc[t] = "start"
          /\ ~wire[i].ok => NeverBegun(t)
          /\ \A j \in Positions : wire[j].m = "reply" /\ wire[j].of = t => i = j
      BY <2>2, <3>1, <3>2 DEF RepliesFit
    <3>4. ~wire'[i].ok => NeverBegun(wire[i].of)'
      BY <1>10, <3>2, <3>3 DEF NeverBegun, Quiet, Pend
    <3> QED
      BY <1>1, <1>5, <3>1, <3>2, <3>3, <3>4
  <2> QED
    BY <2>1, <2>2 DEF RepliesFit
<1>12. QueuesFit'
  BY DEF QueuesFit
<1>13. /\ \A t \in Streams : Base(t)' = Base(t) /\ (Heeded(t)' <=> Heeded(t))
       /\ \A t \in Streams \ {s} : ~Heeded(t)
  BY <1>2, <1>4 DEF Base, Heeded
<1>14. DeltasFit'
  <2>1. \A t \in Streams \ {s} : Received(t) => Received(t)'
    BY DEF Received
  <2>2. Received(s) /\ (Heeded(s) => Expected(s))
    BY DEF DeltasFit
  <2>3. Received(s)'
    <3>1. Len(got[s]) + Len(turns[s].queue) <= told'[s].deltas
      <4>1. Len(got[s]) \in Nat /\ Len(turns[s].queue) \in Nat /\ told[s].deltas \in Nat
        BY SequencesTyped
      <4>2. Len(got[s]) + Len(turns[s].queue) <= told[s].deltas
        BY <2>2 DEF Received
      <4>3. \A a, b, c \in Nat : a + b <= c => a + b <= c + 1
        OBVIOUS
      <4>4. told'[s].deltas = told[s].deltas \/ told'[s].deltas = told[s].deltas + 1
        OBVIOUS
      <4> QED
        BY <4>1, <4>2, <4>3, <4>4, Zenon
    <3>2. turns[s].over # "ended"
      BY <2>2 DEF Received
    <3> QED
      BY <2>2, <3>1, <3>2 DEF Received
  <2>4. Heeded(s) => Expected(s)'
    <3> SUFFICES ASSUME Heeded(s) PROVE Expected(s)'
      OBVIOUS
    <3>1. Base(s)' <= told'[s].deltas
      <4>1. told[s].deltas \in Nat /\ Base(s) \in Nat
        BY SequencesTyped, BaseTyped
      <4>2. Base(s) <= told[s].deltas /\ Base(s)' = Base(s)
        BY <1>13, <2>2 DEF Expected
      <4>3. \A a, c \in Nat : a <= c => a <= c + 1
        OBVIOUS
      <4>4. told'[s].deltas = told[s].deltas \/ told'[s].deltas = told[s].deltas + 1
        OBVIOUS
      <4> QED
        BY <4>1, <4>2, <4>3, <4>4, Zenon
    <3> QED
      BY <1>2, <1>8, <2>2, <3>1 DEF Expected
  <2> QED
    BY <1>13, <2>1, <2>3, <2>4 DEF DeltasFit
<1>15. WireFits'
  <2> SUFFICES ASSUME Heeded(s), OnTheWay(s), Expected(s) PROVE OnTheWay(s)'
    BY <1>13 DEF WireFits, DeltasFit
  <2>1. CASE line.m # "delta"
    BY <2>1, OnTheWayGrows
  <2>2. CASE line.m = "delta"
    <3>1. PICK b \in Nat, d \in Nat : b = Base(s) /\ d = told[s].deltas /\ b <= d
      BY SequencesTyped, BaseTyped DEF Expected
    <3>2. Base(s)' = b /\ told'[s].deltas = d + 1 /\ line.n = d + 1
      BY <1>13, <2>2, <3>1
    <3>3. /\ \A i \in Positions : DeltaOf(s, i) => wire[i].n \in b+1 .. d
          /\ \A i, j \in Positions : DeltaOf(s, i) /\ DeltaOf(s, j) /\ i < j => wire[i].n < wire[j].n
          /\ \A n \in b+1 .. d : \E i \in Positions : DeltaOf(s, i) /\ wire[i].n = n
      BY <3>1 DEF OnTheWay
    <3>4. DeltaOf(s, N)' /\ wire'[N].n = d + 1
      BY <1>1, <2>2, <3>2
    <3>5. \A i \in Positions' : DeltaOf(s, i)' => wire'[i].n \in b+1 .. d+1
      BY <1>1, <3>1, <3>3, <3>4
    <3>6. \A i, j \in Positions' : DeltaOf(s, i)' /\ DeltaOf(s, j)' /\ i < j => wire'[i].n < wire'[j].n
      <4> SUFFICES ASSUME NEW i \in Positions', NEW j \in Positions',
                          DeltaOf(s, i)', DeltaOf(s, j)', i < j
                   PROVE  wire'[i].n < wire'[j].n
        OBVIOUS
      <4>1. i \in Positions /\ wire'[i] = wire[i] /\ DeltaOf(s, i)
        BY <1>1
      <4>2. CASE j = N
        <5>1. wire[i].n \in b+1 .. d
          BY <3>3, <4>1
        <5> QED
          BY <3>1, <3>4, <4>1, <4>2, <5>1
      <4>3. CASE j \in Positions
        BY <1>1, <3>3, <4>1, <4>3
      <4> QED
        BY <1>1, <4>2, <4>3
    <3>7. \A n \in b+1 .. d+1 : \E i \in Positions' : DeltaOf(s, i)' /\ wire'[i].n = n
      <4> SUFFICES ASSUME NEW n \in b+1 .. d+1 PROVE \E i \in Positions' : DeltaOf(s, i)' /\ wire'[i].n = n
        OBVIOUS
      <4>1. CASE n = d + 1
        BY <1>1, <3>4, <4>1
      <4>2. CASE n # d + 1
        <5>1. n \in b+1 .. d
          BY <3>1, <4>2
        <5>2. PICK i \in Positions : DeltaOf(s, i) /\ wire[i].n = n
          BY <3>3, <5>1
        <5> QED
          BY <1>1, <5>2
      <4> QED
        BY <4>1, <4>2
    <3> QED
      BY <3>2, <3>5, <3>6, <3>7 DEF OnTheWay
  <2> QED
    BY <2>1, <2>2
<1> QED
  BY <1>6, <1>7, <1>9, <1>11, <1>12, <1>14, <1>15

LEMMA AcceptKeeps ==
  ASSUME IInv, NEW s \in Streams, Accept(s)
  PROVE  IInv'
<1> USE DEF IInv
<1>1. /\ run[s] = "requested" /\ run'[s] = "running" /\ ~closed
      /\ \A t \in Streams \ {s} : run'[t] = run[t]
      /\ UNCHANGED <<thread, pc, waitsFor, active, turns, got, closed, wire, told, refreshing>>
      /\ Types'
  BY DEF Accept, Says, Types, TypeOK
<1>2. /\ UNCHANGED Positions
      /\ \A i \in Positions : OfTurn(i)' <=> OfTurn(i)
      /\ \A t \in Streams : (Quiet(t)' <=> Quiet(t)) /\ Pend(t)' = Pend(t)
      /\ \A t \in Streams : Base(t)' = Base(t) /\ (Heeded(t)' <=> Heeded(t))
  BY <1>1 DEF Positions, OfTurn, Quiet, Pend, Base, Heeded
<1>3. \A t \in Streams : /\ run[t] = "over" => run'[t] = "over"
                         /\ run[t] # "none" <=> run'[t] # "none"
  BY <1>1
<1>4. TurnsFit'
  BY <1>1, <1>2 DEF TurnsFit, Untouched, Unbegun
<1>5. OneHolds'
  <2>1. active \in Streams \cup {NoStream}
    BY DEF Types, TypeOK
  <2> QED
    BY <1>1, <1>2, <1>3, <2>1 DEF OneHolds
<1>6. CompletionsFit'
  BY <1>1, <1>2, <1>3, WireTyped DEF CompletionsFit
<1>7. \A t \in Streams : NeverBegun(t) => NeverBegun(t)'
  BY <1>1, <1>2, <1>3 DEF NeverBegun
<1>8. RepliesFit'
  BY <1>1, <1>2, <1>3, <1>7, WireTyped DEF RepliesFit
<1>9. DeltasFit' /\ QueuesFit'
  BY <1>1, <1>3, DeltasStay
<1>10. WireFits'
  <2>1. Drops(0)
    BY <1>1, SameWire
  <2> QED
    BY <1>1, <1>2, <2>1, OnTheWayStays DEF WireFits
<1> QED
  BY <1>1, <1>4, <1>5, <1>6, <1>8, <1>9, <1>10

LEMMA AnswersKeep ==
  ASSUME IInv, NEW s \in Streams, AnswerThread \/ Refuse(s) \/ Reply(s) \/ CallBack(s)
  PROVE  IInv'
<1> USE DEF IInv
<1>1. CASE AnswerThread
  <2>1. PICK t \in Streams, ok \in BOOLEAN : Writes(Line("thread", t, 0, ok))
    BY <1>1 DEF AnswerThread
  <2>2. UNCHANGED <<thread, pc, waitsFor, active, turns, got, closed, run, told, refreshing>> /\ ~closed
    BY <1>1 DEF AnswerThread, Says, server
  <2>3. Line("thread", t, 0, ok) \in Lines /\ Line("thread", t, 0, ok).m = "thread"
        /\ Line("thread", t, 0, ok).of = t
    BY DEF Line, Lines
  <2>4. Types'
    BY <2>1, <2>2, <2>3, WritesDoes DEF Types, TypeOK
  <2> QED
    BY <2>1, <2>2, <2>3, <2>4, AnswerKeeps
<1>2. CASE Refuse(s)
  <2>1. UNCHANGED <<thread, pc, waitsFor, active, turns, got, closed, refreshing>> /\ ~closed
        /\ Writes(Line("reply", s, 0, FALSE)) /\ run[s] = "requested"
    BY <1>2 DEF Refuse, Says
  <2>2. /\ run' \in [Streams -> {"none", "requested", "running", "over"}] /\ run'[s] = "over"
        /\ told' \in [Streams -> Told] /\ told'[s].replied
        /\ \A t \in Streams : told'[t].deltas = told[t].deltas
        /\ \A t \in Streams \ {s} : told'[t].replied = told[t].replied /\ run'[t] = run[t]
    BY <1>2 DEF Refuse, Types, TypeOK, Told
  <2>3. Line("reply", s, 0, FALSE) \in Lines /\ Line("reply", s, 0, FALSE).m = "reply"
        /\ Line("reply", s, 0, FALSE).of = s /\ ~Line("reply", s, 0, FALSE).ok
    BY DEF Line, Lines
  <2>4. Types'
    BY <2>1, <2>2, <2>3, WritesDoes DEF Types, TypeOK
  <2>5. ~told[s].replied
    BY <2>1 DEF TurnsFit, Unbegun
  <2> QED
    BY <2>1, <2>2, <2>3, <2>4, <2>5, AnswerKeeps
<1>3. CASE Reply(s)
  <2>1. UNCHANGED <<thread, pc, waitsFor, active, turns, got, closed, run, refreshing>> /\ ~closed
        /\ Writes(Line("reply", s, 0, TRUE)) /\ run[s] \in {"running", "over"} /\ ~told[s].replied
    BY <1>3 DEF Reply, Says
  <2>2. /\ told' \in [Streams -> Told] /\ told'[s].replied
        /\ \A t \in Streams : told'[t].deltas = told[t].deltas
        /\ \A t \in Streams \ {s} : told'[t].replied = told[t].replied
    BY <1>3 DEF Reply, Types, TypeOK, Told
  <2>3. Line("reply", s, 0, TRUE) \in Lines /\ Line("reply", s, 0, TRUE).m = "reply"
        /\ Line("reply", s, 0, TRUE).of = s /\ Line("reply", s, 0, TRUE).ok
    BY DEF Line, Lines
  <2>4. Types'
    BY <2>1, <2>2, <2>3, WritesDoes DEF Types, TypeOK
  <2> QED
    BY <2>1, <2>2, <2>3, <2>4, AnswerKeeps
<1>4. CASE CallBack(s)
  <2>1. UNCHANGED <<thread, pc, waitsFor, active, turns, got, closed, run, refreshing>> /\ ~closed
        /\ Writes(Line("callback", s, 0, TRUE))
    BY <1>4 DEF CallBack, Says
  <2>2. /\ told' \in [Streams -> Told]
        /\ \A t \in Streams : told'[t].deltas = told[t].deltas /\ told'[t].replied = told[t].replied
    BY <1>4 DEF CallBack, Types, TypeOK, Told
  <2>3. Line("callback", s, 0, TRUE) \in Lines /\ Line("callback", s, 0, TRUE).m = "callback"
        /\ Line("callback", s, 0, TRUE).of = s
    BY DEF Line, Lines
  <2>4. Types'
    BY <2>1, <2>2, <2>3, WritesDoes DEF Types, TypeOK
  <2> QED
    BY <2>1, <2>2, <2>3, <2>4, AnswerKeeps
<1> QED
  BY <1>1, <1>2, <1>3, <1>4

LEMMA TurnSpeaks ==
  ASSUME IInv, NEW s \in Streams, NEW ok \in BOOLEAN, Announce(s) \/ Delta(s) \/ Complete(s, ok)
  PROVE  IInv'
<1> USE DEF IInv
<1>0. told[s].deltas \in Nat /\ told[s].deltas + 1 \in Nat /\ told[s] \in Told
  BY BoundsAssumption DEF Types, TypeOK, Told
<1>1. CASE Announce(s)
  <2>1. UNCHANGED <<thread, pc, waitsFor, active, turns, got, closed, run, refreshing>> /\ ~closed
        /\ Writes(Line("started", s, 0, TRUE)) /\ run[s] = "running"
    BY <1>1 DEF Announce, Says
  <2>2. /\ told' \in [Streams -> Told]
        /\ \A t \in Streams : told'[t].deltas = told[t].deltas /\ told'[t].replied = told[t].replied
    BY <1>1 DEF Announce, Types, TypeOK, Told
  <2>3. Line("started", s, 0, TRUE) \in Lines /\ Line("started", s, 0, TRUE).m = "started"
        /\ Line("started", s, 0, TRUE).of = s
    BY DEF Line, Lines
  <2>4. Types'
    BY <2>1, <2>2, <2>3, WritesDoes DEF Types, TypeOK
  <2> QED
    BY <2>1, <2>2, <2>3, <2>4, SpeaksKeeps
<1>2. CASE Delta(s)
  <2> DEFINE line == Line("delta", s, told[s].deltas + 1, TRUE)
  <2>1. UNCHANGED <<thread, pc, waitsFor, active, turns, got, closed, run, refreshing>> /\ ~closed
        /\ Writes(line) /\ run[s] = "running"
    BY <1>2 DEF Delta, Says
  <2>2. /\ told' \in [Streams -> Told] /\ told'[s].deltas = told[s].deltas + 1
        /\ \A t \in Streams : told'[t].replied = told[t].replied
        /\ \A t \in Streams \ {s} : told'[t].deltas = told[t].deltas
    <3>1. told[s].deltas + 1 \in 0..MaxDeltas
      BY <1>0, <1>2, BoundsAssumption DEF Delta
    <3>2. told' = [told EXCEPT ![s].deltas = told[s].deltas + 1]
      BY <1>2 DEF Delta
    <3> QED
      BY <1>0, <3>1, <3>2 DEF Types, TypeOK, Told
  <2>3. line \in Lines /\ line.m = "delta" /\ line.of = s /\ line.n = told[s].deltas + 1
    BY <1>0 DEF Line, Lines
  <2> HIDE DEF line
  <2>4. Types'
    BY <2>1, <2>2, <2>3, WritesDoes DEF Types, TypeOK
  <2> QED
    BY <2>1, <2>2, <2>3, <2>4, SpeaksKeeps
<1>3. CASE Complete(s, ok)
  <2>1. UNCHANGED <<thread, pc, waitsFor, active, turns, got, closed, told, refreshing>> /\ ~closed
        /\ Writes(Line("completed", s, 0, ok)) /\ run[s] = "running"
    BY <1>3 DEF Complete, Says
  <2>2. /\ run' \in [Streams -> {"none", "requested", "running", "over"}] /\ run'[s] = "over"
        /\ \A t \in Streams \ {s} : run'[t] = run[t]
    BY <1>3 DEF Complete, Types, TypeOK
  <2>3. Line("completed", s, 0, ok) \in Lines /\ Line("completed", s, 0, ok).m = "completed"
        /\ Line("completed", s, 0, ok).of = s
    BY DEF Line, Lines
  <2>4. Types'
    BY <2>1, <2>2, <2>3, WritesDoes DEF Types, TypeOK
  <2> QED
    BY <2>1, <2>2, <2>3, <2>4, SpeaksKeeps
<1> QED
  BY <1>1, <1>2, <1>3

(***************************************************************************)
(* The lines of the pipe.                                                  *)
(***************************************************************************)

LEMMA TailDrops ==
  ASSUME Types, wire # <<>>, wire' = Tail(wire)
  PROVE  /\ Drops(1) /\ wire' \in Seq(Lines)
         /\ 1 \in Positions /\ Head(wire) = wire[1] /\ wire[1] \in Lines
BY TailDoes DEF Types, Drops, Positions

(* The next delta of a turn that is heeded is the one it waits for.         *)
LEMMA HeadIsNext ==
  ASSUME IInv, NEW s \in Streams, Heeded(s), 1 \in Positions, DeltaOf(s, 1)
  PROVE  wire[1].n = Base(s) + 1 /\ Base(s) + 1 <= told[s].deltas
<1> USE DEF IInv
<1>1. PICK b \in Nat, d \in Nat : b = Base(s) /\ d = told[s].deltas
  BY SequencesTyped, BaseTyped
<1>2. /\ wire[1].n \in b+1 .. d
      /\ \A i \in Positions : DeltaOf(s, i) /\ 1 < i => wire[1].n < wire[i].n
      /\ \A n \in b+1 .. d : \E i \in Positions : DeltaOf(s, i) /\ wire[i].n = n
  BY <1>1 DEF WireFits, OnTheWay
<1>3. wire[1].n \in Nat /\ b + 1 <= wire[1].n /\ b + 1 <= d
  BY <1>2
<1>4. PICK i \in Positions : DeltaOf(s, i) /\ wire[i].n = b + 1
  BY <1>2, <1>3
<1>5. i = 1
  <2>1. i \in Nat /\ i >= 1
    BY DEF Positions
  <2>2. ~(1 < i)
    BY <1>2, <1>3, <1>4
  <2> QED
    BY <2>1, <2>2
<1> QED
  BY <1>1, <1>3, <1>4, <1>5

LEMMA OnTheWayMoves ==
  ASSUME IInv, NEW s \in Streams, Heeded(s), 1 \in Positions, DeltaOf(s, 1), Drops(1),
         Base(s)' = Base(s) + 1, told'[s].deltas = told[s].deltas
  PROVE  OnTheWay(s)'
<1> USE DropsDo DEF IInv
<1>1. PICK b \in Nat, d \in Nat : b = Base(s) /\ d = told[s].deltas
  BY SequencesTyped, BaseTyped
<1>2. Base(s)' = b + 1 /\ told'[s].deltas = d /\ wire[1].n = b + 1
  BY <1>1, HeadIsNext
<1>3. /\ \A i \in Positions : DeltaOf(s, i) => wire[i].n \in b+1 .. d
      /\ \A i, j \in Positions : DeltaOf(s, i) /\ DeltaOf(s, j) /\ i < j => wire[i].n < wire[j].n
      /\ \A n \in b+1 .. d : \E i \in Positions : DeltaOf(s, i) /\ wire[i].n = n
  BY <1>1 DEF WireFits, OnTheWay
<1>4. ASSUME NEW i \in Positions', DeltaOf(s, i)'
      PROVE  wire'[i].n \in b+1+1 .. d
  <2>1. i + 1 \in Positions /\ DeltaOf(s, i + 1) /\ wire'[i] = wire[i + 1] /\ i \in Nat /\ 1 < i + 1
    BY <1>4 DEF Positions
  <2>2. wire[i + 1].n \in b+1 .. d /\ wire[1].n < wire[i + 1].n
    BY <1>3, <2>1
  <2> QED
    BY <1>2, <2>1, <2>2
<1>5. \A i, j \in Positions' : DeltaOf(s, i)' /\ DeltaOf(s, j)' /\ i < j => wire'[i].n < wire'[j].n
  <2> SUFFICES ASSUME NEW i \in Positions', NEW j \in Positions', DeltaOf(s, i)', DeltaOf(s, j)', i < j
               PROVE  wire'[i].n < wire'[j].n
    OBVIOUS
  <2>1. /\ i + 1 \in Positions /\ j + 1 \in Positions /\ i + 1 < j + 1
        /\ DeltaOf(s, i + 1) /\ DeltaOf(s, j + 1)
        /\ wire'[i] = wire[i + 1] /\ wire'[j] = wire[j + 1]
    OBVIOUS
  <2> QED
    BY <1>3, <2>1
<1>6. ASSUME NEW n \in b+1+1 .. d PROVE \E i \in Positions' : DeltaOf(s, i)' /\ wire'[i].n = n
  <2>1. n \in b+1 .. d /\ n # b + 1
    BY <1>1
  <2>2. PICK i \in Positions : DeltaOf(s, i) /\ wire[i].n = n
    BY <1>3, <2>1
  <2>3. i > 1
    BY <1>2, <2>1, <2>2 DEF Positions
  <2> QED
    BY <2>2, <2>3
<1> QED
  BY <1>2, <1>4, <1>5, <1>6 DEF OnTheWay

LEMMA CompletionIsLast ==
  ASSUME IInv, NEW s \in Streams, 1 \in Positions, wire[1].m = "completed", wire[1].of = s, Drops(1)
  PROVE  /\ run[s] = "over" /\ Quiet(s)'
         /\ Heeded(s) => Base(s) = told[s].deltas
         /\ \A i \in Positions : ~DeltaOf(s, i)
<1> USE DEF IInv
<1>1. run[s] = "over" /\ \A j \in Positions : j > 1 /\ OfTurn(j) => wire[j].of # s
  BY DEF CompletionsFit
<1>2. Quiet(s)'
  <2> SUFFICES ASSUME NEW i \in Positions', OfTurn(i)' PROVE wire'[i].of # s
    BY DEF Quiet
  <2>1. i + 1 \in Positions /\ wire'[i] = wire[i + 1] /\ OfTurn(i + 1) /\ i + 1 > 1
    BY DropsDo DEF Positions
  <2> QED
    BY <1>1, <2>1
<1>3. \A i \in Positions : ~DeltaOf(s, i)
  <2> SUFFICES ASSUME NEW i \in Positions, DeltaOf(s, i) PROVE FALSE
    OBVIOUS
  <2>1. OfTurn(i) /\ wire[i].of = s /\ i # 1
    BY DEF OfTurn, DeltaOf
  <2>2. i > 1
    BY <2>1 DEF Positions
  <2> QED
    BY <1>1, <2>1, <2>2
<1>4. ASSUME Heeded(s) PROVE Base(s) = told[s].deltas
  <2>1. PICK b \in Nat, d \in Nat : b = Base(s) /\ d = told[s].deltas /\ b <= d
    BY <1>4, SequencesTyped, BaseTyped DEF DeltasFit, Expected
  <2>2. \A n \in b+1 .. d : FALSE
    BY <1>3, <1>4, <2>1 DEF WireFits, OnTheWay
  <2>3. ~(b + 1 <= d)
    BY <2>1, <2>2
  <2> QED
    BY <2>1, <2>3
<1> QED
  BY <1>1, <1>2, <1>3, <1>4

LEMMA ReceivedStays ==
  ASSUME NEW s \in Streams, Received(s),
         got'[s] = got[s], told'[s] = told[s], run'[s] = run[s],
         turns'[s].queue = turns[s].queue, turns'[s].over = turns[s].over
  PROVE  Received(s)'
BY DEF Received

LEMMA AppendsOn ==
  ASSUME NEW a \in Seq(Nat), NEW n \in Nat
  PROVE  /\ Len(Append(a, n)) = Len(a) + 1 /\ Append(a, n)[Len(a) + 1] = n
         /\ \A i \in 1..Len(a) : Append(a, n)[i] = a[i]
         /\ a \o Append(<<>>, n) = Append(a, n) /\ a \o <<>> = a
OBVIOUS

LEMMA MoreSums ==
  /\ \A a, b, c \in Nat : a + b + (c + 1) = a + b + c + 1
  /\ \A a, b \in Nat : a + (b + 1) = a + b + 1 /\ a + (b + 1) + 0 = a + b + 1 /\ a + b + 0 = a + b
  /\ \A a \in Nat : \A i \in 1..(a + 1) : i \in 1..a \/ i = a + 1
OBVIOUS

(* A notification of the active turn: before the turn has an id, it is kept.*)
LEMMA HeardKeeps ==
  ASSUME IInv, Types', NEW s \in Streams, active = s, Drops(1), 1 \in Positions,
         NEW line \in Lines, line = wire[1], line.m \in {"delta", "completed"}, line.of = s,
         turns[s].id = NoStream, turns'[s].id = NoStream, turns'[s].failed = turns[s].failed,
         turns'[s].queue = turns[s].queue, turns'[s].over = turns[s].over,
         Pend(s)' = Hear(Pend(s), line),
         \A t \in Streams \ {s} : turns'[t] = turns[t],
         UNCHANGED <<pc, active, got, closed, run, told>>
  PROVE  IInv'
<1> USE DEF IInv
<1>1. OfTurn(1) /\ ~Quiet(s) /\ Pend(s).end = "none" /\ run[s] \notin {"none", "requested"}
  BY DEF OfTurn, Quiet, CompletionsFit, TurnsFit, Unbegun
<1>2. Pend(s) \in Heard /\ line.n \in Nat /\ line.ok \in BOOLEAN
  BY SequencesTyped DEF Lines
<1>3. /\ line.m = "delta" => Pend(s)'.deltas = Append(Pend(s).deltas, line.n) /\ Pend(s)'.end = "none"
      /\ line.m = "completed" => Pend(s)'.deltas = Pend(s).deltas /\ Pend(s)'.end # "none"
  BY <1>1, <1>2, HearDoes
<1>4. \A t \in Streams \ {s} : Pend(t)' = Pend(t)
  BY DEF Pend
<1>5. line.m = "completed" => run[s] = "over" /\ Quiet(s)'
  BY CompletionIsLast
<1>6. TurnsFit'
  <2>1. turns'[s].id # s
    BY NoStreamAssumption
  <2> QED
    BY <1>1, <1>4, <2>1, DropsDo DEF TurnsFit, Untouched, Unbegun, BeforeTurn
<1>7. OneHolds'
  BY DropsDo DEF OneHolds
<1>8. CompletionsFit' /\ RepliesFit'
  <2>1. ~NeverBegun(s) /\ (Pend(s)'.end # "none" => run[s] = "over" /\ Quiet(s)')
    BY <1>1, <1>3, <1>5 DEF NeverBegun
  <2> QED
    BY <1>4, <2>1, PipeKeeps DEF SameTold
<1>9. QueuesFit'
  BY DEF QueuesFit
<1>10. \A t \in Streams : (Heeded(t)' <=> Heeded(t)) /\ (Heeded(t) => t = s)
  BY DEF Heeded
<1>11. ASSUME Heeded(s), line.m = "delta"
       PROVE  Expected(s)' /\ Base(s)' = Base(s) + 1
  <2>1. wire[1].n = Base(s) + 1 /\ Base(s) + 1 <= told[s].deltas
    BY <1>11, HeadIsNext DEF DeltaOf
  <2>2. PICK g \in Nat, q \in Nat, e \in Nat :
               g = Len(got[s]) /\ q = Len(turns[s].queue) /\ e = Len(Pend(s).deltas)
    BY SequencesTyped
  <2>3. Pend(s).deltas \in Seq(Nat)
    BY SequencesTyped
  <2>4. /\ Len(Pend(s)'.deltas) = e + 1 /\ Pend(s)'.deltas[e + 1] = line.n
        /\ \A i \in 1..e : Pend(s)'.deltas[i] = Pend(s).deltas[i]
    <3>1. /\ Len(Append(Pend(s).deltas, line.n)) = e + 1
          /\ Append(Pend(s).deltas, line.n)[e + 1] = line.n
          /\ \A i \in 1..e : Append(Pend(s).deltas, line.n)[i] = Pend(s).deltas[i]
      BY <1>2, <2>2, <2>3, AppendsOn
    <3> QED
      BY <1>3, <1>11, <3>1
  <2>5. Base(s) = g + q + e /\ Base(s)' = g + q + (e + 1)
    BY <2>2, <2>4 DEF Base
  <2>6. \A i \in 1..e : Pend(s).deltas[i] = g + q + i
    BY <1>11, <2>2 DEF DeltasFit, Expected
  <2>7. \A i \in 1..(e + 1) : Pend(s)'.deltas[i] = g + q + i
    <3>1. Pend(s)'.deltas[e + 1] = g + q + (e + 1)
      <4>1. g + q + (e + 1) = g + q + e + 1
        BY MoreSums
      <4>2. Pend(s)'.deltas[e + 1] = Base(s) + 1
        BY <2>1, <2>4
      <4> QED
        BY <2>5, <4>1, <4>2, Zenon
    <3>2. \A i \in 1..(e + 1) : i \in 1..e \/ i = e + 1
      BY MoreSums
    <3> QED
      BY <2>4, <2>6, <3>1, <3>2
  <2>8. Base(s)' = Base(s) + 1
    <3>1. g + q + (e + 1) = g + q + e + 1
      BY MoreSums
    <3> QED
      BY <2>5, <3>1, Zenon
  <2>9. turns'[s].over = "open" /\ Pend(s)'.end = "none"
    BY <1>3, <1>11 DEF DeltasFit, Expected
  <2> QED
    <3>1. Base(s)' <= told'[s].deltas
      BY <2>1, <2>8
    <3>2. \A i \in 1..Len(Pend(s)'.deltas) :
            Pend(s)'.deltas[i] = Len(got'[s]) + Len(turns'[s].queue) + i
      BY <2>2, <2>4, <2>7, Zenon
    <3> QED
      BY <2>8, <2>9, <3>1, <3>2 DEF Expected
<1>12. ASSUME Heeded(s), line.m = "completed"
       PROVE  Expected(s)' /\ Base(s)' = Base(s)
  <2>1. Expected(s) /\ Base(s) = told[s].deltas
    BY <1>12, CompletionIsLast DEF DeltasFit
  <2>2. Base(s)' = Base(s)
    BY <1>3, <1>12 DEF Base
  <2>3. Base(s)' <= told'[s].deltas
    BY <2>1, <2>2 DEF Expected
  <2> QED
    BY <1>3, <1>12, <2>1, <2>2, <2>3 DEF Expected
<1>13. DeltasFit'
  <2>1. \A t \in Streams : Received(t) => Received(t)'
    BY DEF Received
  <2> QED
    BY <1>10, <1>11, <1>12, <2>1 DEF DeltasFit
<1>14. WireFits'
  <2> SUFFICES ASSUME Heeded(s), OnTheWay(s) PROVE OnTheWay(s)'
    BY <1>10 DEF WireFits
  <2>1. CASE line.m = "delta"
    <3>1. DeltaOf(s, 1)
      BY <2>1 DEF DeltaOf
    <3> QED
      BY <1>11, <2>1, <3>1, OnTheWayMoves
  <2>2. CASE line.m = "completed"
    <3>1. ~DeltaOf(s, 1)
      BY <2>2 DEF DeltaOf
    <3> QED
      BY <1>12, <2>2, <3>1, OnTheWayStays
  <2> QED
    BY <2>1, <2>2
<1> QED
  BY <1>6, <1>7, <1>8, <1>9, <1>13, <1>14

(* When the turn has its id, it reaches the queue, unless the turn failed.  *)
LEMMA AbsorbedKeeps ==
  ASSUME IInv, Types', NEW s \in Streams, active = s, Drops(1), 1 \in Positions,
         NEW line \in Lines, line = wire[1], line.m \in {"delta", "completed"}, line.of = s,
         turns[s].id = s, NEW h \in Heard, h = Hear(Silence, line),
         turns'[s] = Absorb(turns[s], h),
         active' = IF h.end = "none" THEN active ELSE NoStream,
         \A t \in Streams \ {s} : turns'[t] = turns[t],
         UNCHANGED <<pc, got, closed, run, told>>
  PROVE  IInv'
<1> USE DEF IInv
<1>1. OfTurn(1) /\ ~Quiet(s) /\ run[s] \notin {"none", "requested"} /\ Pend(s) = Silence
  BY DEF OfTurn, Quiet, TurnsFit, Unbegun
<1>2. /\ line.m = "delta" => h.deltas = Append(<<>>, line.n) /\ h.end = "none"
      /\ line.m = "completed" => h.deltas = <<>> /\ h.end \in {"ended", "failed"}
  <2>1. Silence.deltas = <<>> /\ Silence.end = "none"
    BY DEF Silence
  <2>2. line.ok \in BOOLEAN
    BY DEF Lines
  <2> QED
    BY <2>1, <2>2, ConstantsTyped, HearDoes
<1>3. /\ turns[s].failed => turns'[s] = turns[s]
      /\ turns'[s].id = s /\ turns'[s].failed = turns[s].failed /\ turns'[s].pending = turns[s].pending
      /\ ~turns[s].failed =>
           /\ turns'[s].queue = turns[s].queue \o h.deltas
           /\ turns'[s].over = IF h.end = "none" THEN turns[s].over ELSE h.end
  <2>1. turns[s] \in ActiveTurn
    BY SequencesTyped
  <2>2. PICK r \in ActiveTurn : r = turns[s]
    BY <2>1
  <2>3. /\ r.failed => Absorb(r, h) = r
        /\ Absorb(r, h).id = r.id /\ Absorb(r, h).failed = r.failed
        /\ Absorb(r, h).pending = r.pending
        /\ ~r.failed =>
             /\ Absorb(r, h).queue = r.queue \o h.deltas
             /\ Absorb(r, h).over = IF h.end = "none" THEN r.over ELSE h.end
    BY AbsorbDoes
  <2> QED
    BY <2>2, <2>3
<1>4. \A t \in Streams : Pend(t)' = Pend(t)
  BY <1>3 DEF Pend
<1>5. line.m = "completed" => run[s] = "over" /\ Quiet(s)' /\ active' = NoStream
  BY <1>2, CompletionIsLast
<1>6. line.m = "delta" => active' = s
  BY <1>2
<1>7. TurnsFit'
  <2>1. turns'[s].failed => turns'[s].over = "failed"
    BY <1>3 DEF TurnsFit
  <2> QED
    BY <1>1, <1>3, <1>4, <2>1, DropsDo DEF TurnsFit, Untouched, Unbegun, BeforeTurn
<1>8. OneHolds'
  <2>1. CASE line.m = "delta"
    BY <1>6, <2>1, DropsDo DEF OneHolds
  <2>2. CASE line.m = "completed"
    <3>1. ~closed => \A i \in Positions' : ~OfTurn(i)'
      <4>1. ~closed => \A i \in Positions' : OfTurn(i)' => wire'[i].of = s
        BY DropsDo DEF OneHolds
      <4> QED
        BY <1>5, <2>2, <4>1 DEF Quiet
    <3>2. ~closed => \A t \in Streams : run[t] \notin {"requested", "running"}
      BY <1>5, <2>2 DEF OneHolds
    <3> QED
      BY <1>5, <2>2, <3>1, <3>2 DEF OneHolds
  <2> QED
    BY <2>1, <2>2
<1>9. CompletionsFit' /\ RepliesFit'
  BY <1>4, PipeKeeps DEF SameTold
<1>10. QueuesFit'
  <2>1. \A t \in Streams \ {s} : active # t
    OBVIOUS
  <2>2. turns'[s].over = "open" => active' = s
    <3>1. turns[s].failed => turns[s].over = "failed"
      BY DEF TurnsFit
    <3> QED
      BY <1>2, <1>3, <1>6, <3>1
  <2> QED
    BY <2>1, <2>2 DEF QueuesFit
<1>11. \A t \in Streams : (Heeded(t)' => Heeded(t)) /\ (Heeded(t) => t = s)
  BY <1>3, <1>5, <1>6, NoStreamAssumption DEF Heeded
<1>12. Received(s) /\ (Heeded(s) => Expected(s))
  BY DEF DeltasFit
<1>13. PICK g \in Nat, q \in Nat, d \in Nat :
               g = Len(got[s]) /\ q = Len(turns[s].queue) /\ d = told[s].deltas
  BY SequencesTyped
<1>14. turns[s].queue \in Seq(Nat) /\ line.n \in Nat /\ Len(Pend(s).deltas) = 0
  BY <1>1, SequencesTyped DEF Lines, Silence
<1>15. Base(s) = g + q
  BY <1>13, <1>14 DEF Base
<1>16. ASSUME ~turns[s].failed, line.m = "delta"
       PROVE  /\ Received(s)' /\ Expected(s)' /\ Base(s)' = Base(s) + 1
  <2>1. Heeded(s) /\ Expected(s)
    BY <1>12, <1>16 DEF Heeded
  <2>2. line.n = g + q + 1 /\ g + q + 1 <= d
    BY <1>13, <1>15, <1>16, <2>1, HeadIsNext DEF DeltaOf
  <2>3. /\ Len(turns'[s].queue) = q + 1 /\ turns'[s].queue[q + 1] = line.n
        /\ \A i \in 1..q : turns'[s].queue[i] = turns[s].queue[i]
    <3>1. /\ Len(turns[s].queue \o Append(<<>>, line.n)) = q + 1
          /\ (turns[s].queue \o Append(<<>>, line.n))[q + 1] = line.n
          /\ \A i \in 1..q : (turns[s].queue \o Append(<<>>, line.n))[i] = turns[s].queue[i]
      BY <1>13, <1>14, AppendsOn
    <3>2. turns'[s].queue = turns[s].queue \o Append(<<>>, line.n)
      BY <1>2, <1>3, <1>16
    <3> QED
      BY <3>1, <3>2
  <2>4. \A i \in 1..q : turns[s].queue[i] = g + i
    BY <1>12, <1>13 DEF Received
  <2>5. \A i \in 1..(q + 1) : turns'[s].queue[i] = g + i
    <3>1. turns'[s].queue[q + 1] = g + (q + 1)
      BY <2>2, <2>3, MoreSums, Zenon
    <3>2. \A i \in 1..(q + 1) : i \in 1..q \/ i = q + 1
      BY MoreSums
    <3> QED
      BY <2>3, <2>4, <3>1, <3>2
  <2>6. turns'[s].over = "open"
    BY <1>2, <1>3, <1>16, <2>1 DEF Expected
  <2>7. g + (q + 1) = g + q + 1 /\ g + (q + 1) + 0 = g + q + 1
    BY MoreSums
  <2>8. Received(s)'
    <3>1. Len(got[s]) + Len(turns'[s].queue) <= told[s].deltas
      BY <1>13, <2>2, <2>3, <2>7
    <3> QED
      BY <1>12, <1>13, <2>3, <2>5, <2>6, <3>1 DEF Received
  <2>9. Len(Pend(s)'.deltas) = 0 /\ Pend(s)'.end = "none"
    BY <1>1, <1>4, <1>14 DEF Silence
  <2>10. Base(s)' = g + q + 1
    <3>1. Base(s)' = g + (q + 1) + 0
      BY <1>13, <2>3, <2>9 DEF Base
    <3> QED
      BY <2>7, <3>1, Zenon
  <2>11. Expected(s)'
    <3>1. Base(s)' <= told'[s].deltas
      BY <1>13, <2>2, <2>10, Zenon
    <3> QED
      BY <2>6, <2>9, <3>1 DEF Expected
  <2> QED
    BY <1>15, <2>8, <2>10, <2>11
<1>17. ASSUME ~turns[s].failed, line.m = "completed"
       PROVE  Received(s)'
  <2>1. Heeded(s) /\ Expected(s) /\ g + q = d
    BY <1>12, <1>13, <1>15, <1>17, CompletionIsLast DEF Heeded
  <2>2. turns'[s].queue = turns[s].queue
    <3>1. turns[s].queue \o <<>> = turns[s].queue
      BY <1>14
    <3> QED
      BY <1>2, <1>3, <1>17, <3>1
  <2>3. run[s] = "over" /\ Len(got[s]) + Len(turns[s].queue) = told[s].deltas
    BY <1>5, <1>13, <1>17, <2>1
  <2> QED
    BY <1>12, <2>2, <2>3 DEF Received
<1>18. turns[s].failed => Received(s)'
  <2> SUFFICES ASSUME turns[s].failed PROVE Received(s)'
    OBVIOUS
  <2>1. turns'[s].queue = turns[s].queue /\ turns'[s].over = turns[s].over
    BY <1>3
  <2>2. Received(s) /\ got'[s] = got[s] /\ told'[s] = told[s] /\ run'[s] = run[s]
    BY <1>12
  <2> QED
    BY <2>1, <2>2, ReceivedStays
<1>19. DeltasFit'
  <2>1. \A t \in Streams \ {s} : Received(t) => Received(t)'
    BY DEF Received
  <2>2. Received(s)'
    BY <1>16, <1>17, <1>18
  <2>3. Heeded(s)' => Expected(s)'
    BY <1>3, <1>5, <1>16, NoStreamAssumption DEF Heeded
  <2> QED
    BY <1>11, <2>1, <2>2, <2>3 DEF DeltasFit
<1>20. WireFits'
  <2> SUFFICES ASSUME Heeded(s)' PROVE OnTheWay(s)'
    BY <1>11 DEF WireFits
  <2>1. line.m = "delta" /\ Heeded(s) /\ ~turns[s].failed
    BY <1>5, <1>11, NoStreamAssumption DEF Heeded
  <2>2. DeltaOf(s, 1)
    BY <2>1 DEF DeltaOf
  <2> QED
    BY <1>16, <2>1, <2>2, OnTheWayMoves
<1> QED
  BY <1>7, <1>8, <1>9, <1>10, <1>19, <1>20

(* The answer to turn/start reaches the code that awaits it.                *)
LEMMA ReplyLineKeeps ==
  ASSUME IInv, Types', NEW s \in Streams, Drops(1), 1 \in Positions,
         wire[1].m = "reply", wire[1].of = s, ~closed,
         pc'[s] = IF wire[1].ok THEN "bind" ELSE "rejected",
         \A t \in Streams \ {s} : pc'[t] = pc[t],
         UNCHANGED <<active, turns, got, closed, run, told>>
  PROVE  IInv'
<1> USE DEF IInv
<1>1. /\ told[s].replied /\ run[s] # "none" /\ pc[s] = "start"
      /\ ~wire[1].ok => NeverBegun(s)
      /\ \A j \in Positions : wire[j].m = "reply" /\ wire[j].of = s => j = 1
  BY DEF RepliesFit
<1>2. \A t \in Streams : Base(t)' = Base(t) /\ Pend(t)' = Pend(t) /\ (Heeded(t)' <=> Heeded(t))
  BY DEF Base, Pend, Heeded
<1>3. TurnsFit'
  <2>1. \A t \in Streams : pc'[t] \in BeforeTurn => pc[t] \in BeforeTurn
    BY DEF BeforeTurn
  <2> QED
    BY <1>2, <2>1, DropsDo DEF TurnsFit, Untouched, Unbegun
<1>4. OneHolds'
  BY DropsDo DEF OneHolds
<1>5. CompletionsFit' /\ RepliesFit'
  <2>1. \A i \in Positions' : wire'[i].m = "reply" => wire'[i].of # s
    <3> SUFFICES ASSUME NEW i \in Positions', wire'[i].m = "reply", wire'[i].of = s PROVE FALSE
      OBVIOUS
    <3>1. i \in Nat /\ i >= 1 /\ i + 1 \in Positions /\ wire'[i] = wire[i + 1]
      BY DropsDo DEF Positions
    <3> QED
      BY <1>1, <3>1
  <2>2. \A t \in Streams : pc[t] = "start" =>
          \/ pc'[t] = "start" \/ closed
          \/ told[t].replied /\ \A i \in Positions' : wire'[i].m = "reply" => wire'[i].of # t
    BY <1>1, <2>1
  <2>3. \A t \in Streams : pc'[t] = "rejected" => pc[t] = "rejected" \/ NeverBegun(t)
    BY <1>1
  <2> QED
    BY <1>2, <2>2, <2>3, PipeKeeps DEF SameTold
<1>6. QueuesFit'
  BY <1>1 DEF QueuesFit
<1>7. DeltasFit'
  <2>1. \A t \in Streams : Received(t) => Received(t)'
    BY ReceivedStays
  <2>2. \A t \in Streams : Expected(t) => Expected(t)'
    BY <1>2 DEF Expected
  <2> QED
    BY <1>2, <2>1, <2>2 DEF DeltasFit
<1>8. WireFits'
  <2>1. \A t \in Streams : ~DeltaOf(t, 1)
    BY DEF DeltaOf
  <2> QED
    BY <1>2, <2>1, OnTheWayStays DEF WireFits
<1> QED
  BY <1>3, <1>4, <1>5, <1>6, <1>7, <1>8

LEMMA HandleLineKeeps ==
  ASSUME IInv, HandleLine
  PROVE  IInv'
<1> USE DEF IInv
<1>1. /\ wire # <<>> /\ wire' = Tail(wire)
      /\ UNCHANGED <<waitsFor, got, closed, run, told>>
  BY DEF HandleLine, server
<1>2. /\ Drops(1) /\ wire' \in Seq(Lines)
      /\ 1 \in Positions /\ Head(wire) = wire[1] /\ wire[1] \in Lines
  BY <1>1, TailDrops
<1>3. PICK line \in Lines : line = wire[1]
  BY <1>2
<1>4. \/ Handled(line)
      \/ /\ IF line.m \in {"thread", "reply"} THEN closed
            ELSE line.m # "callback" /\ active = NoStream
         /\ UNCHANGED <<thread, pc, active, turns, refreshing>>
  BY <1>2, <1>3 DEF HandleLine
<1>5. PICK s \in Streams : s = line.of
  BY DEF Lines
<1>6. ASSUME line.m # "delta" \/ active = NoStream,
             UNCHANGED <<active, turns>>, pc' \in [Streams -> Phases],
             thread' \in {"none", "starting", "started"}, refreshing' \subseteq Streams,
             \A t \in Streams : MovesOn(t)
      PROVE  IInv'
  <2>1. Types'
    BY <1>1, <1>2, <1>6 DEF Types, TypeOK
  <2>2. \A t \in Streams : Heeded(t) => ~DeltaOf(t, 1)
    BY <1>3, <1>6, NoStreamAssumption DEF Heeded, DeltaOf
  <2> QED
    BY <1>1, <1>2, <1>6, <2>1, <2>2, MovesKeep DEF SameTold
<1>7. CASE /\ IF line.m \in {"thread", "reply"} THEN closed
              ELSE line.m # "callback" /\ active = NoStream
           /\ UNCHANGED <<thread, pc, active, turns, refreshing>>
  BY <1>6, <1>7 DEF MovesOn, Types, TypeOK
<1>8. CASE HandleThread(line)
  <2>1. line.m # "delta" /\ UNCHANGED <<active, turns, refreshing>>
    BY <1>8 DEF HandleThread
  <2>2. /\ pc' \in [Streams -> Phases] /\ thread' \in {"none", "starting", "started"}
        /\ \A t \in Streams : MovesOn(t)
    BY <1>8 DEF HandleThread, MovesOn, BeforeTurn, Phases, Ended, Types, TypeOK
  <2> QED
    BY <1>6, <2>1, <2>2 DEF Types, TypeOK
<1>9. CASE HandleCallback(line)
  <2>1. /\ line.m # "delta" /\ UNCHANGED <<thread, pc, active, turns>> /\ refreshing' \subseteq Streams
    BY <1>5, <1>9 DEF HandleCallback, Types, TypeOK
  <2> QED
    BY <1>6, <2>1 DEF MovesOn, Types, TypeOK
<1>10. CASE HandleReply(line)
  <2>1. /\ line.m = "reply" /\ ~closed /\ UNCHANGED <<thread, active, turns, refreshing>>
        /\ pc' = [pc EXCEPT ![s] = IF line.ok THEN "bind" ELSE "rejected"]
    BY <1>5, <1>10 DEF HandleReply, Goto
  <2>2. /\ pc' \in [Streams -> Phases] /\ pc'[s] = IF line.ok THEN "bind" ELSE "rejected"
        /\ \A t \in Streams \ {s} : pc'[t] = pc[t]
    BY <2>1 DEF Phases, Types, TypeOK
  <2>3. Types'
    BY <1>1, <1>2, <2>1, <2>2 DEF Types, TypeOK
  <2> QED
    BY <1>1, <1>2, <1>3, <1>5, <2>1, <2>2, <2>3, ReplyLineKeeps
<1>11. ASSUME active # NoStream, line.m \in {"started", "delta", "completed"}
       PROVE  active = s /\ ~closed /\ turns[s].id \in {s, NoStream}
  <2>1. ~closed
    BY <1>11 DEF OneHolds
  <2>2. OfTurn(1)
    BY <1>3, <1>11 DEF OfTurn
  <2> QED
    BY <1>2, <1>3, <1>5, <2>1, <2>2 DEF OneHolds, TurnsFit
<1>12. CASE HandleStarted(line)
  <2>1. /\ line.m = "started" /\ active = s /\ ~closed /\ Bind(s, s)
        /\ UNCHANGED <<thread, pc, refreshing>>
    BY <1>5, <1>11, <1>12 DEF HandleStarted
  <2>2. /\ turns' \in [Streams -> ActiveTurn] /\ active' \in Streams \cup {NoStream}
        /\ \A t \in Streams \ {s} : turns'[t] = turns[t]
        /\ \/ UNCHANGED <<turns, active>>
           \/ BindsTurn(s)
    BY <2>1, BindDoes
  <2>3. CASE UNCHANGED <<turns, active>>
    BY <1>6, <2>1, <2>3 DEF MovesOn, Types, TypeOK
  <2>4. CASE BindsTurn(s)
    <3>1. Types'
      BY <1>1, <1>2, <2>1, <2>2 DEF Types, TypeOK
    <3>2. wire[1].m = "started"
      BY <1>3, <2>1
    <3> QED
      BY <1>1, <1>2, <2>1, <2>2, <2>4, <3>1, <3>2, BindKeeps
  <2> QED
    BY <2>2, <2>3, <2>4
<1>13. CASE HandleTurn(line)
  <2>1. /\ line.m \in {"delta", "completed"} /\ active = s /\ ~closed
        /\ UNCHANGED <<thread, pc, refreshing>> /\ turns[s].id \in {s, NoStream}
    BY <1>11, <1>13 DEF HandleTurn
  <2>2. turns[s] \in ActiveTurn /\ Pend(s) \in Heard /\ turns[s].pending \in [Streams -> Heard]
    BY SequencesTyped DEF ActiveTurn
  <2>3. CASE turns[s].id = NoStream
    <3>1. PICK h \in Heard : h = Hear(Pend(s), line)
      BY <2>2, HearDoes
    <3>2. turns' = [turns EXCEPT ![s].pending[s] = h] /\ active' = active
      BY <1>5, <1>13, <2>1, <2>3, <3>1 DEF HandleTurn, Pend
    <3>3. /\ turns' \in [Streams -> ActiveTurn] /\ turns'[s].id = NoStream
          /\ turns'[s].failed = turns[s].failed /\ turns'[s].queue = turns[s].queue
          /\ turns'[s].over = turns[s].over /\ turns'[s].pending[s] = h
          /\ \A t \in Streams \ {s} : turns'[t] = turns[t]
      <4>1. [turns[s].pending EXCEPT ![s] = h] \in [Streams -> Heard]
        BY <2>2
      <4> QED
        BY <2>2, <2>3, <3>2, <4>1 DEF Types, TypeOK, ActiveTurn
    <3>4. Types'
      BY <1>1, <1>2, <2>1, <3>2, <3>3 DEF Types, TypeOK
    <3>5. Pend(s)' = Hear(Pend(s), line)
      BY <3>1, <3>3 DEF Pend
    <3> QED
      BY <1>1, <1>2, <1>3, <1>5, <2>1, <2>3, <3>2, <3>3, <3>4, <3>5, HeardKeeps
  <2>4. CASE turns[s].id = s
    <3>1. PICK h \in Heard : h = Hear(Silence, line)
      BY ConstantsTyped, HearDoes
    <3>2. turns' = [turns EXCEPT ![s] = Absorb(turns[s], h)] /\ Finishes(h)
      BY <1>5, <1>13, <2>1, <2>4, <3>1, NoStreamAssumption DEF HandleTurn
    <3>3. Absorb(turns[s], h) \in ActiveTurn
      BY <2>2, AbsorbDoes
    <3>4. /\ turns' \in [Streams -> ActiveTurn] /\ turns'[s] = Absorb(turns[s], h)
          /\ \A t \in Streams \ {s} : turns'[t] = turns[t]
      BY <3>2, <3>3 DEF Types, TypeOK
    <3>5. active' = IF h.end = "none" THEN active ELSE NoStream
      BY <3>2 DEF Finishes
    <3>6. Types'
      BY <1>1, <1>2, <2>1, <3>4, <3>5 DEF Types, TypeOK
    <3> QED
      BY <1>1, <1>2, <1>3, <1>5, <2>1, <2>4, <3>1, <3>4, <3>5, <3>6, AbsorbedKeeps
  <2> QED
    BY <2>1, <2>3, <2>4
<1> QED
  BY <1>4, <1>7, <1>8, <1>9, <1>10, <1>12, <1>13 DEF Handled

(***************************************************************************)
(* The theorems.                                                           *)
(***************************************************************************)

LEMMA InitHolds ==
  ASSUME Init
  PROVE  IInv
<1>1. Types
  <2>1. told \in [Streams -> Told]
    <3>1. [replied |-> FALSE, deltas |-> 0, started |-> FALSE, asked |-> FALSE, answered |-> FALSE]
            \in Told
      BY BoundsAssumption DEF Told
    <3> QED
      BY <3>1 DEF Init
  <2>2. turns \in [Streams -> ActiveTurn] /\ got \in [Streams -> Seq(Nat)] /\ wire \in Seq(Lines)
    BY ConstantsTyped DEF Init
  <2>3. pc \in [Streams -> Phases]
    BY DEF Init, Phases
  <2> QED
    BY <2>1, <2>2, <2>3 DEF Init, Types, TypeOK
<1>2. Positions = {} /\ \A s \in Streams : Quiet(s)
  BY DEF Init, Positions, Quiet
<1>3. \A s \in Streams : /\ turns[s] = NewTurn /\ Pend(s) = Silence /\ got[s] = <<>>
                         /\ pc[s] = "idle" /\ run[s] = "none"
                         /\ told[s].deltas = 0 /\ ~told[s].replied
  BY ConstantsTyped DEF Init, Pend, NewTurn
<1>4. /\ NewTurn.id = NoStream /\ ~NewTurn.failed /\ NewTurn.over = "open" /\ NewTurn.queue = <<>>
      /\ Silence.end = "none"
  BY DEF NewTurn, Silence
<1>5. active = NoStream /\ closed = FALSE
  BY DEF Init
<1>6. TurnsFit
  BY <1>2, <1>3, <1>4, NoStreamAssumption DEF TurnsFit, Untouched, Unbegun
<1>7. OneHolds /\ CompletionsFit /\ RepliesFit /\ QueuesFit
  BY <1>2, <1>3, <1>4, <1>5 DEF OneHolds, CompletionsFit, RepliesFit, QueuesFit
<1>8. \A s \in Streams : ~Heeded(s)
  BY <1>5, NoStreamAssumption DEF Heeded
<1>9. \A s \in Streams : Received(s)
  <2> SUFFICES ASSUME NEW s \in Streams PROVE Received(s)
    OBVIOUS
  <2>1. got[s] = <<>> /\ turns[s].queue = <<>> /\ turns[s].over = "open" /\ told[s].deltas = 0
    BY <1>3, <1>4
  <2>2. Len(got[s]) = 0 /\ Len(turns[s].queue) = 0
    BY <2>1
  <2> QED
    BY <2>1, <2>2 DEF Received
<1> QED
  BY <1>1, <1>6, <1>7, <1>8, <1>9 DEF IInv, DeltasFit, WireFits

LEMMA NextHolds ==
  ASSUME IInv, [Next]_vars
  PROVE  IInv'
<1>1. CASE UNCHANGED vars
  <2>1. Types' /\ SameTold /\ \A s \in Streams : MovesOn(s)
    BY <1>1 DEF vars, server, IInv, Types, TypeOK, SameTold, MovesOn
  <2> QED
    BY <1>1, <2>1, SameWire, MovesKeep DEF vars, server, IInv
<1>2. ASSUME NEW s \in Streams,
             \/ Begin(s) \/ ClientStep(s) \/ Abandon(s) \/ Settling(s)
             \/ Answering(s) \/ Completing(s)
             \/ Announce(s) \/ Delta(s) \/ CallBack(s)
      PROVE  IInv'
  BY <1>2, BeforeKeeps, StartedKeeps, StartFailsKeeps, ReadsKeep, SettlingKeeps, AcceptKeeps,
     AnswersKeep, TurnSpeaks DEF ClientStep, Settling, Answering, Completing
<1>3. CASE HandleLine
  BY <1>3, HandleLineKeeps
<1>4. CASE AnswerThread
  <2>1. PICK s \in Streams : TRUE
    BY <1>4 DEF AnswerThread
  <2> QED
    BY <1>4, AnswersKeep
<1>5. CASE Close
  BY <1>5, CloseKeeps
<1> QED
  BY <1>1, <1>2, <1>3, <1>4, <1>5 DEF Next

(* The inductive invariant holds in every state of the specification.       *)
THEOREM Invariance == Spec => []IInv
BY InitHolds, NextHolds, PTL DEF Spec

THEOREM ClientTypeCorrect == Spec => []TypeOK
<1>1. IInv => TypeOK
  BY DEF IInv, Types
<1> QED
  BY <1>1, Invariance, PTL

(* The client never has two turns running in the process: whoever runs is   *)
(* the active turn, a failed one until its completion is handled.           *)
THEOREM OneTurnRuns == Spec => []OneTurnInTheProcess
<1>1. IInv => OneTurnInTheProcess
  BY DEF IInv, OneHolds, OneTurnInTheProcess
<1> QED
  BY <1>1, Invariance, PTL

(* Only the active turn's queue is open: nobody reads a queue that nothing  *)
(* will end.                                                                *)
THEOREM OpenQueuesHaveAnOwner == Spec => []OpenQueuesAreActive
<1>1. IInv => OpenQueuesAreActive
  BY DEF IInv, QueuesFit, OpenQueuesAreActive
<1> QED
  BY <1>1, Invariance, PTL

LEMMA OneAfterTheOther ==
  ASSUME NEW a \in Seq(Nat), NEW b \in Seq(Nat),
         \A i \in 1..Len(a) : a[i] = i,
         \A i \in 1..Len(b) : b[i] = Len(a) + i
  PROVE  /\ Len(a \o b) = Len(a) + Len(b)
         /\ \A i \in 1..Len(a \o b) : (a \o b)[i] = i
OBVIOUS

(* A stream receives the deltas of its own turn, in order and without a     *)
(* gap, and all of them when it ends well, in whatever order the answer,    *)
(* the announcement and the deltas came, and whoever else streams.          *)
THEOREM StreamsReceiveTheirTurn == Spec => []StreamsGetTheirTurn
<1>1. ASSUME IInv PROVE StreamsGetTheirTurn
  <2> SUFFICES ASSUME NEW s \in Streams
               PROVE  LET seen == got[s] \o turns[s].queue
                      IN  /\ Len(seen) <= told[s].deltas
                          /\ \A i \in 1..Len(seen) : seen[i] = i
                          /\ turns[s].over = "ended" => Len(seen) = told[s].deltas
    BY DEF StreamsGetTheirTurn
  <2>1. Received(s) /\ got[s] \in Seq(Nat) /\ turns[s].queue \in Seq(Nat)
    BY <1>1, SequencesTyped DEF IInv, DeltasFit
  <2>2. /\ Len(got[s] \o turns[s].queue) = Len(got[s]) + Len(turns[s].queue)
        /\ \A i \in 1..Len(got[s] \o turns[s].queue) : (got[s] \o turns[s].queue)[i] = i
    BY <2>1, OneAfterTheOther DEF Received
  <2> QED
    BY <2>1, <2>2, Zenon DEF Received
<1> QED
  BY <1>1, Invariance, PTL

(***************************************************************************)
(* The render service.  No codex process is lost to everybody, and a       *)
(* sign-out ends the one its subject had.                                  *)
(***************************************************************************)

EntryRecord ==
  [subject: Subjects, queue: Seq(Requests), asked: Reasons \cup {"no"}]
RequestRecord ==
  [subject: Subjects, entry: Entries \cup {NoEntry},
   pc: {"none", "asked", "queued", "running", "done", "failed"}]
LogoutRecord ==
  [subject: Subjects, entry: Entries \cup {NoEntry}, waits: SUBSET {"row", "drop"},
   count: 0..MaxLogouts, before: SUBSET Entries, during: SUBSET Entries]
ClientStates == {"none", "spawn", "handshake", "login", "up", "failing", "failed", "closed"}

ServiceTypes ==
  /\ entryOf \in [Subjects -> Entries \cup {NoEntry}]
  /\ entry \in [Entries -> EntryRecord]
  /\ client \in [Entries -> ClientStates]
  /\ process \in [Entries -> {"none", "alive", "gone"}]
  /\ kill \in [Entries -> {"no", "grace", "killed", "returned"}]
  /\ request \in [Requests -> RequestRecord]
  /\ signedIn \subseteq Subjects
  /\ logout \in LogoutRecord
  /\ shutdown \in {"no", "sessions", "server", "done", "crashed"}

(* The map holds entries of their own subjects. *)
MapFits ==
  \A s \in Subjects : entryOf[s] # NoEntry =>
    client[entryOf[s]] # "none" /\ entry[entryOf[s]].subject = s

(* An entry is in the map, or was asked to close, or never had a client. *)
LeftForAReason ==
  \A e \in Entries : client[e] # "none" =>
    \/ entryOf[entry[e].subject] = e
    \/ entry[e].asked # "no"
    \/ client[e] = "failed"

(* A process belongs to a client on its way up, up, or on its way down; its *)
(* close() has not sent SIGKILL, and is that of a client on its way down.   *)
ProcessFits ==
  \A e \in Entries :
    /\ process[e] = "alive" => client[e] \in {"handshake", "login", "up", "failing", "closed"}
    /\ process[e] = "alive" => kill[e] \in {"no", "grace"}
    /\ kill[e] # "no" => client[e] \in {"failing", "failed", "closed"}

(* Once drop has returned, its entry has no process and will have none. *)
DropFits ==
  (logout.entry # NoEntry /\ "drop" \notin logout.waits) =>
    client[logout.entry] \in {"closed", "failed"} /\ process[logout.entry] # "alive"

(* A queue holds the requests that wait for its entry, each once; only the  *)
(* first runs.                                                              *)
RequestsFit ==
  \A e \in Entries :
    /\ \A i \in 1..Len(entry[e].queue) :
         /\ request[entry[e].queue[i]].entry = e
         /\ request[entry[e].queue[i]].pc \in {"queued", "running"}
         /\ request[entry[e].queue[i]].pc = "running" => i = 1
    /\ \A i, j \in 1..Len(entry[e].queue) : entry[e].queue[i] = entry[e].queue[j] => i = j

(* No request that waits or runs is missing from its queue. *)
NoneIsLost ==
  \A r \in Requests : request[r].pc \in {"queued", "running"} =>
    /\ request[r].entry \in Entries
    /\ \E i \in 1..Len(entry[request[r].entry].queue) : entry[request[r].entry].queue[i] = r

(* Before the shutdown nobody has asked for a close() but the sweeper and  *)
(* drop, and drop waits until the client it asked about is over.            *)
AskedFits ==
  \A e \in Entries :
    /\ shutdown = "no" => entry[e].asked # "close"
    /\ entry[e].asked = "drop" =>
         (logout.entry = e /\ "drop" \in logout.waits) \/ client[e] \in {"closed", "failed"}

(* The entries a logout found have left the map, and not by the shutdown;  *)
(* once the row is deleted, a newer one logs in with a new credential.      *)
LogoutFits ==
  /\ entryOf[logout.subject] \notin logout.before
  /\ \A e \in logout.before :
       entry[e].subject = logout.subject /\ client[e] # "none" /\ entry[e].asked # "close"
  /\ "row" \notin logout.waits =>
       \A e \in Entries \ (logout.before \cup logout.during) :
         (entry[e].subject = logout.subject /\ client[e] \in {"login", "up"}) => logout.subject \in signedIn

Processes == MapFits /\ LeftForAReason /\ ProcessFits /\ DropFits
SignOuts  == AskedFits /\ LogoutFits
Queues    == RequestsFit /\ NoneIsLost
ServiceInv      == ServiceTypes /\ Processes /\ SignOuts /\ Queues

-----------------------------------------------------------------------------
(* What the parts of the actions do.                                        *)

LEMMA Numbers == NoEntry \notin Entries /\ Entries \subseteq Nat
BY RenderAssumption DEF Entries, NoEntry

(* A request that is set anew or moves on. *)
LEMMA RequestMoves ==
  ASSUME ServiceTypes, NEW r \in Requests, NEW next \in RequestRecord,
         request' = [request EXCEPT ![r] = next]
  PROVE  /\ request' \in [Requests -> RequestRecord] /\ request'[r] = next
         /\ \A q \in Requests \ {r} : request'[q] = request[q]
BY DEF ServiceTypes

LEMMA PcMoves ==
  ASSUME ServiceTypes, NEW r \in Requests, NEW outcome \in {"queued", "running", "done", "failed"},
         request' = [request EXCEPT ![r].pc = outcome]
  PROVE  /\ request' \in [Requests -> RequestRecord]
         /\ request'[r].pc = outcome /\ request'[r].entry = request[r].entry
         /\ request'[r].subject = request[r].subject
         /\ \A q \in Requests \ {r} : request'[q] = request[q]
<1>1. request[r] \in RequestRecord
  BY DEF ServiceTypes
<1>2. [request[r] EXCEPT !.pc = outcome] \in RequestRecord
  BY <1>1 DEF RequestRecord
<1>3. request' = [request EXCEPT ![r] = [request[r] EXCEPT !.pc = outcome]]
  OBVIOUS
<1>4. /\ [request[r] EXCEPT !.pc = outcome].pc = outcome
      /\ [request[r] EXCEPT !.pc = outcome].entry = request[r].entry
      /\ [request[r] EXCEPT !.pc = outcome].subject = request[r].subject
  BY <1>1 DEF RequestRecord
<1> QED
  BY <1>2, <1>3, <1>4, RequestMoves

LEMMA EnqueuedDoes ==
  ASSUME ServiceTypes, NEW r \in Requests, NEW e \in Entries, Enqueued(r, e)
  PROVE  /\ entry' \in [Entries -> EntryRecord] /\ request' \in [Requests -> RequestRecord]
         /\ \A d \in Entries \ {e} : entry'[d] = entry[d]
         /\ entry'[e].subject = request[r].subject
         /\ entry'[e].queue = Append(entry[e].queue, r)
         /\ entry'[e].asked = entry[e].asked
         /\ request'[r].entry = e /\ request'[r].pc = "queued"
         /\ \A q \in Requests \ {r} : request'[q] = request[q]
<1>1. request[r] \in RequestRecord /\ entry[e] \in EntryRecord /\ request[r].subject \in Subjects
  BY DEF ServiceTypes, RequestRecord
<1> DEFINE x == [entry[e] EXCEPT !.subject = request[r].subject, !.queue = Append(@, r)]
           y == [request[r] EXCEPT !.entry = e, !.pc = "queued"]
<1>2. entry[e].queue \in Seq(Requests) /\ Append(entry[e].queue, r) \in Seq(Requests)
  BY <1>1 DEF EntryRecord
<1>3. /\ x \in EntryRecord /\ x.subject = request[r].subject
      /\ x.queue = Append(entry[e].queue, r) /\ x.asked = entry[e].asked
  BY <1>1, <1>2 DEF EntryRecord
<1>4. y \in RequestRecord /\ y.entry = e /\ y.pc = "queued"
  BY <1>1 DEF RequestRecord
<1>5. entry' = [entry EXCEPT ![e] = x]
  BY DEF Enqueued
<1>6. request' = [request EXCEPT ![r] = y]
  BY DEF Enqueued
<1> HIDE DEF x, y
<1>7. entry' \in [Entries -> EntryRecord] /\ entry'[e] = x
      /\ \A d \in Entries \ {e} : entry'[d] = entry[d]
  BY <1>3, <1>5 DEF ServiceTypes
<1>8. request' \in [Requests -> RequestRecord] /\ request'[r] = y
      /\ \A q \in Requests \ {r} : request'[q] = request[q]
  BY <1>4, <1>6, RequestMoves
<1> QED
  BY <1>3, <1>4, <1>7, <1>8

LEMMA EndOfTurnDoes ==
  ASSUME ServiceTypes, NEW e \in Entries, entry[e].queue # <<>>,
         NEW outcome \in {"done", "failed"}, TurnIsOver(e, outcome)
  PROVE  /\ entry' \in [Entries -> EntryRecord] /\ request' \in [Requests -> RequestRecord]
         /\ \A d \in Entries \ {e} : entry'[d] = entry[d]
         /\ entry'[e].subject = entry[e].subject /\ entry'[e].asked = entry[e].asked
         /\ entry'[e].queue = Tail(entry[e].queue)
         /\ Turn(e) \in Requests /\ request'[Turn(e)].pc = outcome
         /\ \A q \in Requests \ {Turn(e)} : request'[q] = request[q]
<1>1. entry[e] \in EntryRecord /\ entry[e].queue \in Seq(Requests)
  BY DEF ServiceTypes, EntryRecord
<1>2. Turn(e) \in Requests /\ Tail(entry[e].queue) \in Seq(Requests)
  BY <1>1 DEF Turn
<1> DEFINE x == [entry[e] EXCEPT !.queue = Tail(@)]
<1>3. /\ x \in EntryRecord /\ x.subject = entry[e].subject
      /\ x.queue = Tail(entry[e].queue) /\ x.asked = entry[e].asked
  BY <1>1, <1>2 DEF EntryRecord
<1>4. entry' = [entry EXCEPT ![e] = x]
  BY DEF TurnIsOver
<1> HIDE DEF x
<1>5. entry' \in [Entries -> EntryRecord] /\ entry'[e] = x
      /\ \A d \in Entries \ {e} : entry'[d] = entry[d]
  BY <1>3, <1>4 DEF ServiceTypes
<1>6. request' = [request EXCEPT ![Turn(e)].pc = outcome]
  BY DEF TurnIsOver
<1> QED
  BY <1>2, <1>3, <1>5, <1>6, PcMoves

LEMMA AskedDoes ==
  ASSUME ServiceTypes, NEW e \in Entries, NEW why \in Reasons, Asked(e, why)
  PROVE  /\ entry' \in [Entries -> EntryRecord] /\ entry'[e].asked = why
         /\ \A d \in Entries : /\ d # e => entry'[d].asked = entry[d].asked
                               /\ entry'[d].subject = entry[d].subject
                               /\ entry'[d].queue = entry[d].queue
<1>1. entry[e] \in EntryRecord
  BY DEF ServiceTypes
<1> DEFINE x == [entry[e] EXCEPT !.asked = why]
<1>2. /\ x \in EntryRecord /\ x.asked = why /\ x.subject = entry[e].subject
      /\ x.queue = entry[e].queue
  BY <1>1 DEF EntryRecord
<1>3. entry' = [entry EXCEPT ![e] = x]
  BY DEF Asked
<1> HIDE DEF x
<1> QED
  BY <1>2, <1>3 DEF ServiceTypes

-----------------------------------------------------------------------------
(* Queues.                                                                  *)

LEMMA QueuesStay ==
  ASSUME ServiceTypes, Queues, request' = request,
         \A e \in Entries : entry'[e].queue = entry[e].queue
  PROVE  Queues'
BY DEF ServiceTypes, Queues, RequestsFit, NoneIsLost

(* A request that neither waits nor runs is in no queue. *)
LEMMA OutsideQueues ==
  ASSUME ServiceTypes, Queues, NEW r \in Requests, request[r].pc \notin {"queued", "running"},
         \A e \in Entries : entry'[e].queue = entry[e].queue,
         \A q \in Requests \ {r} : request'[q] = request[q],
         request'[r].pc \notin {"queued", "running"}
  PROVE  Queues'
<1>1. \A e \in Entries : entry[e].queue \in Seq(Requests)
  BY DEF ServiceTypes, EntryRecord
<1>2. \A e \in Entries : \A i \in 1..Len(entry[e].queue) :
        entry[e].queue[i] \in Requests /\ entry[e].queue[i] # r
  BY <1>1 DEF Queues, RequestsFit
<1>3. RequestsFit'
  BY <1>2 DEF Queues, RequestsFit
<1>4. NoneIsLost'
  BY <1>2 DEF Queues, NoneIsLost
<1> QED
  BY <1>3, <1>4 DEF Queues

LEMMA EnqueuedKeepsQueues ==
  ASSUME ServiceTypes, Queues, NEW r \in Requests, request[r].pc = "asked",
         NEW e \in Entries, Enqueued(r, e)
  PROVE  Queues'
<1> DEFINE q == entry[e].queue
<1>1. \A d \in Entries : entry[d].queue \in Seq(Requests)
  BY DEF ServiceTypes, EntryRecord
<1>2. /\ \A d \in Entries \ {e} : entry'[d] = entry[d]
      /\ entry'[e].queue = Append(q, r)
      /\ request'[r].entry = e /\ request'[r].pc = "queued"
      /\ \A p \in Requests \ {r} : request'[p] = request[p]
  BY EnqueuedDoes
<1>3. \A d \in Entries : \A i \in 1..Len(entry[d].queue) :
        entry[d].queue[i] \in Requests /\ entry[d].queue[i] # r
  BY <1>1 DEF Queues, RequestsFit
<1>4. /\ Len(Append(q, r)) = Len(q) + 1 /\ Append(q, r)[Len(q) + 1] = r
      /\ \A i \in 1..Len(q) : Append(q, r)[i] = q[i]
      /\ Len(q) \in Nat
  BY <1>1
<1> HIDE DEF q
<1>5. ASSUME NEW d \in Entries
      PROVE  /\ \A i \in 1..Len(entry'[d].queue) :
                  /\ request'[entry'[d].queue[i]].entry = d
                  /\ request'[entry'[d].queue[i]].pc \in {"queued", "running"}
                  /\ request'[entry'[d].queue[i]].pc = "running" => i = 1
             /\ \A i, j \in 1..Len(entry'[d].queue) : entry'[d].queue[i] = entry'[d].queue[j] => i = j
  <2>1. CASE d # e
    BY <1>2, <1>3, <2>1 DEF Queues, RequestsFit
  <2>2. CASE d = e
    <3>1. \A i \in 1..Len(q) : /\ request'[q[i]].entry = e /\ q[i] # r
                               /\ request'[q[i]].pc \in {"queued", "running"}
                               /\ request'[q[i]].pc = "running" => i = 1
      BY <1>2, <1>3 DEF Queues, RequestsFit, q
    <3>2. \A i, j \in 1..Len(q) : q[i] = q[j] => i = j
      BY DEF Queues, RequestsFit, q
    <3>3. \A i \in 1..(Len(q) + 1) : i \in 1..Len(q) \/ i = Len(q) + 1
      BY <1>4
    <3> QED
      BY <1>2, <1>4, <2>2, <3>1, <3>2, <3>3
  <2> QED
    BY <2>1, <2>2
<1>6. RequestsFit'
  BY <1>5 DEF RequestsFit
<1>7. ASSUME NEW p \in Requests, request'[p].pc \in {"queued", "running"}
      PROVE  /\ request'[p].entry \in Entries
             /\ \E i \in 1..Len(entry'[request'[p].entry].queue) : entry'[request'[p].entry].queue[i] = p
  <2>1. CASE p = r
    <3>1. Len(q) + 1 \in 1..Len(entry'[e].queue)
      BY <1>2, <1>4
    <3> QED
      BY <1>2, <1>4, <2>1, <3>1
  <2>2. CASE p # r
    <3>1. request'[p] = request[p] /\ request[p].entry \in Entries
      BY <1>2, <1>7, <2>2 DEF Queues, NoneIsLost
    <3>2. PICK i \in 1..Len(entry[request[p].entry].queue) : entry[request[p].entry].queue[i] = p
      BY <1>7, <3>1 DEF Queues, NoneIsLost
    <3>3. CASE request[p].entry = e
      BY <1>2, <1>4, <3>1, <3>2, <3>3 DEF q
    <3>4. CASE request[p].entry # e
      BY <1>2, <3>1, <3>2, <3>4
    <3> QED
      BY <3>3, <3>4
  <2> QED
    BY <2>1, <2>2
<1> QED
  BY <1>6, <1>7 DEF Queues, NoneIsLost

(* The first request of a queue starts to run. *)
LEMMA TurnStarts ==
  ASSUME ServiceTypes, Queues, NEW e \in Entries, entry[e].queue # <<>>, entry' = entry,
         NEW r \in Requests, r = Turn(e),
         request'[r].pc = "running", request'[r].entry = request[r].entry,
         \A q \in Requests \ {r} : request'[q] = request[q]
  PROVE  Queues'
<1>1. \A d \in Entries : entry[d].queue \in Seq(Requests)
  BY DEF ServiceTypes, EntryRecord
<1>2. r = entry[e].queue[1] /\ 1 \in 1..Len(entry[e].queue)
  BY <1>1 DEF Turn
<1>3. request[r].entry = e /\ request[r].pc \in {"queued", "running"}
  BY <1>2 DEF Queues, RequestsFit
<1>4. \A d \in Entries : \A i \in 1..Len(entry[d].queue) :
        /\ entry[d].queue[i] \in Requests
        /\ entry[d].queue[i] = r => d = e /\ i = 1
  BY <1>1, <1>2, <1>3 DEF Queues, RequestsFit
<1>5. \A d \in Entries : \A i \in 1..Len(entry[d].queue) :
        /\ request'[entry[d].queue[i]].entry = d
        /\ request'[entry[d].queue[i]].pc \in {"queued", "running"}
        /\ request'[entry[d].queue[i]].pc = "running" => i = 1
  <2> SUFFICES ASSUME NEW d \in Entries, NEW i \in 1..Len(entry[d].queue)
      PROVE  /\ request'[entry[d].queue[i]].entry = d
             /\ request'[entry[d].queue[i]].pc \in {"queued", "running"}
             /\ request'[entry[d].queue[i]].pc = "running" => i = 1
    OBVIOUS
  <2>1. CASE entry[d].queue[i] = r
    BY <1>3, <1>4, <2>1
  <2>2. CASE entry[d].queue[i] # r
    <3>1. request'[entry[d].queue[i]] = request[entry[d].queue[i]]
      BY <1>4, <2>2
    <3> QED
      BY <3>1 DEF Queues, RequestsFit
  <2> QED
    BY <2>1, <2>2
<1>6. RequestsFit'
  BY <1>5 DEF Queues, RequestsFit
<1>7. \A p \in Requests : request'[p].pc \in {"queued", "running"} =>
        /\ request[p].pc \in {"queued", "running"} /\ request'[p].entry = request[p].entry
  BY <1>3
<1>8. NoneIsLost'
  BY <1>7 DEF Queues, NoneIsLost
<1> QED
  BY <1>6, <1>8 DEF Queues

(* The first request of a queue ends, and the others move up. *)
LEMMA TurnEndKeepsQueues ==
  ASSUME ServiceTypes, Queues, NEW e \in Entries, entry[e].queue # <<>>,
         NEW outcome \in {"done", "failed"}, TurnIsOver(e, outcome)
  PROVE  Queues'
<1> DEFINE r == Turn(e)
           q == entry[e].queue
<1>1. \A d \in Entries : entry[d].queue \in Seq(Requests)
  BY DEF ServiceTypes, EntryRecord
<1>2. r \in Requests /\ r = q[1] /\ 1 \in 1..Len(q)
  BY <1>1 DEF Turn
<1>3. /\ \A d \in Entries \ {e} : entry'[d] = entry[d]
      /\ entry'[e].queue = Tail(q)
      /\ request'[r].pc = outcome
      /\ \A p \in Requests \ {r} : request'[p] = request[p]
  BY EndOfTurnDoes
<1>4. request[r].entry = e
  BY <1>2 DEF Queues, RequestsFit
<1>5. /\ Len(Tail(q)) = Len(q) - 1 /\ Len(q) \in Nat
      /\ \A i \in 1..Len(Tail(q)) : Tail(q)[i] = q[i + 1] /\ i + 1 \in 1..Len(q) /\ i + 1 # 1
  BY <1>1
<1> HIDE DEF r, q
<1>6. \A d \in Entries : \A i \in 1..Len(entry[d].queue) :
        /\ entry[d].queue[i] \in Requests
        /\ entry[d].queue[i] = r => d = e /\ i = 1
  BY <1>1, <1>2, <1>4 DEF Queues, RequestsFit, q
<1>7. ASSUME NEW d \in Entries
      PROVE  /\ \A i \in 1..Len(entry'[d].queue) :
                  /\ request'[entry'[d].queue[i]].entry = d
                  /\ request'[entry'[d].queue[i]].pc \in {"queued", "running"}
                  /\ request'[entry'[d].queue[i]].pc = "running" => i = 1
             /\ \A i, j \in 1..Len(entry'[d].queue) : entry'[d].queue[i] = entry'[d].queue[j] => i = j
  <2>1. CASE d # e
    BY <1>3, <1>6, <2>1 DEF Queues, RequestsFit
  <2>2. CASE d = e
    <3>1. \A i \in 1..Len(Tail(q)) : /\ request'[q[i + 1]].entry = e
                                     /\ request'[q[i + 1]].pc \in {"queued", "running"}
                                     /\ request'[q[i + 1]].pc # "running"
      BY <1>3, <1>5, <1>6 DEF Queues, RequestsFit, q
    <3>2. \A i, j \in 1..Len(Tail(q)) : q[i + 1] = q[j + 1] => i = j
      BY <1>5 DEF Queues, RequestsFit, q
    <3>3. \A i \in 1..Len(Tail(q)) : /\ request'[Tail(q)[i]].entry = e
                                     /\ request'[Tail(q)[i]].pc \in {"queued", "running"}
                                     /\ request'[Tail(q)[i]].pc # "running"
      BY <1>5, <3>1
    <3>4. \A i, j \in 1..Len(Tail(q)) : Tail(q)[i] = Tail(q)[j] => i = j
      BY <1>5, <3>2
    <3>5. entry'[d].queue = Tail(q)
      BY <1>3, <2>2
    <3>6. \A i \in 1..Len(entry'[d].queue) :
            /\ request'[entry'[d].queue[i]].entry = d
            /\ request'[entry'[d].queue[i]].pc \in {"queued", "running"}
            /\ request'[entry'[d].queue[i]].pc # "running"
      BY <2>2, <3>3, <3>5
    <3>7. \A i, j \in 1..Len(entry'[d].queue) : entry'[d].queue[i] = entry'[d].queue[j] => i = j
      BY <3>4, <3>5
    <3> QED
      BY <3>6, <3>7
  <2> QED
    BY <2>1, <2>2
<1>8. ASSUME NEW p \in Requests, request'[p].pc \in {"queued", "running"}
      PROVE  /\ request'[p].entry \in Entries
             /\ \E i \in 1..Len(entry'[request'[p].entry].queue) : entry'[request'[p].entry].queue[i] = p
  <2>1. p # r /\ request'[p] = request[p]
    BY <1>3, <1>8
  <2>2. request[p].entry \in Entries
        /\ \E i \in 1..Len(entry[request[p].entry].queue) : entry[request[p].entry].queue[i] = p
    BY <1>8, <2>1 DEF Queues, NoneIsLost
  <2>3. CASE request[p].entry # e
    BY <1>3, <2>1, <2>2, <2>3
  <2>4. CASE request[p].entry = e
    <3>1. PICK i \in 1..Len(q) : q[i] = p
      BY <2>2, <2>4 DEF q
    <3>2. i # 1 /\ i - 1 \in 1..Len(Tail(q)) /\ Tail(q)[i - 1] = p
      BY <1>2, <1>5, <2>1, <3>1
    <3> QED
      BY <1>3, <2>1, <2>4, <3>2
  <2> QED
    BY <2>3, <2>4
<1> QED
  BY <1>7, <1>8 DEF Queues, RequestsFit, NoneIsLost


-----------------------------------------------------------------------------
(* Processes.                                                               *)

LEMMA ServiceInitHolds == ServiceInit => ServiceInv
<1> SUFFICES ASSUME ServiceInit PROVE ServiceInv
  OBVIOUS
<1> USE Numbers, RenderAssumption
<1>1. PICK anyone \in Subjects :
        /\ entry = [e \in Entries |-> [subject |-> anyone, queue |-> <<>>, asked |-> "no"]]
        /\ request = [r \in Requests |-> [subject |-> anyone, entry |-> NoEntry, pc |-> "none"]]
        /\ logout = [subject |-> anyone, entry |-> NoEntry, waits |-> {}, count |-> 0,
                     before |-> {}, during |-> {}]
  BY DEF ServiceInit
<1>2. ServiceTypes
  <2>1. entry \in [Entries -> EntryRecord]
    BY <1>1 DEF EntryRecord
  <2>2. request \in [Requests -> RequestRecord]
    BY <1>1 DEF RequestRecord
  <2>3. logout \in LogoutRecord
    BY <1>1 DEF LogoutRecord
  <2> QED
    BY <2>1, <2>2, <2>3 DEF ServiceInit, ServiceTypes, ClientStates
<1>3. Processes
  BY <1>1 DEF ServiceInit, Processes, MapFits, LeftForAReason, ProcessFits, DropFits
<1>4. Queues
  BY <1>1 DEF Queues, RequestsFit, NoneIsLost
<1>5. SignOuts
  BY <1>1 DEF ServiceInit, SignOuts, AskedFits, LogoutFits
<1> QED
  BY <1>2, <1>3, <1>4, <1>5 DEF ServiceInv

(* The client of an entry that stays in the map, or not, moves on. *)
LEMMA ClientMoves ==
  ASSUME ServiceTypes, Processes, NEW e \in Entries, client[e] \notin {"none", "failed", "closed"},
         NEW state \in ClientStates \ {"none"}, client' = [client EXCEPT ![e] = state],
         process'[e] = "alive" => state \in {"handshake", "login", "up", "failing", "closed"},
         process'[e] = "alive" => kill'[e] \in {"no", "grace"},
         kill'[e] # "no" => state \in {"failing", "failed", "closed"},
         \A d \in Entries \ {e} : process'[d] = process[d] /\ kill'[d] = kill[d],
         UNCHANGED <<entryOf, entry, logout>>
  PROVE  Processes'
<1>1. client'[e] = state /\ \A d \in Entries \ {e} : client'[d] = client[d]
  BY DEF ServiceTypes
<1>2. \A s \in Subjects : entryOf[s] # NoEntry => entryOf[s] \in Entries
  BY DEF ServiceTypes
<1>3. MapFits'
  BY <1>1, <1>2 DEF Processes, MapFits
<1>4. LeftForAReason'
  BY <1>1 DEF Processes, LeftForAReason
<1>5. ProcessFits'
  BY <1>1 DEF Processes, ProcessFits
<1>6. logout.entry # NoEntry => logout.entry \in Entries
  BY DEF ServiceTypes, LogoutRecord
<1>7. DropFits'
  BY <1>1, <1>6 DEF Processes, DropFits
<1> QED
  BY <1>3, <1>4, <1>5, <1>7 DEF Processes

(* An entry that leaves the map was asked to close or has no client.        *)
LEMMA EntriesLeave ==
  ASSUME ServiceTypes, Processes, UNCHANGED <<client, process, kill>>,
         \A s \in Subjects : entryOf'[s] \in {entryOf[s], NoEntry},
         \A e \in Entries : /\ entry'[e].subject = entry[e].subject
                            /\ entry[e].asked # "no" => entry'[e].asked # "no",
         \A s \in Subjects : (entryOf[s] # NoEntry /\ entryOf'[s] = NoEntry) =>
                               entry'[entryOf[s]].asked # "no"
  PROVE  MapFits' /\ LeftForAReason' /\ ProcessFits'
<1>1. \A s \in Subjects : entryOf[s] # NoEntry => entryOf[s] \in Entries
  BY DEF ServiceTypes
<1>2. MapFits'
  BY <1>1 DEF Processes, MapFits
<1>3. \A e \in Entries : entry[e].subject \in Subjects /\ e # NoEntry
  BY Numbers DEF ServiceTypes, EntryRecord
<1>4. LeftForAReason'
  BY <1>1, <1>3 DEF Processes, LeftForAReason
<1>5. ProcessFits'
  BY DEF Processes, ProcessFits
<1> QED
  BY <1>2, <1>4, <1>5

(* Nothing about entries, clients and processes changes. *)
LEMMA ProcessesStay ==
  ASSUME ServiceTypes, Processes, UNCHANGED <<entryOf, client, process, kill, logout>>,
         \A e \in Entries : entry'[e].subject = entry[e].subject /\ entry'[e].asked = entry[e].asked
  PROVE  Processes'
<1>1. MapFits' /\ LeftForAReason' /\ ProcessFits'
  BY EntriesLeave
<1>2. DropFits'
  BY DEF Processes, DropFits
<1> QED
  BY <1>1, <1>2 DEF Processes

(* Steps of no logout, that create no entry: some entries may leave the map,*)
(* and clients may move on, of which a new one takes a stored token.        *)
LEMMA SignOutsStay ==
  ASSUME ServiceTypes, SignOuts, UNCHANGED logout, signedIn \subseteq signedIn',
         shutdown' = "no" => shutdown = "no",
         \A s \in Subjects : entryOf'[s] \in {entryOf[s], NoEntry},
         \A e \in Entries :
           /\ entry'[e].subject = entry[e].subject /\ entry'[e].asked \in {entry[e].asked, "evict"}
           /\ client[e] # "none" => client'[e] # "none"
           /\ client[e] \in {"closed", "failed"} => client'[e] = client[e]
           /\ client'[e] \in {"login", "up"} => (client[e] \in {"login", "up"} \/ entry[e].subject \in signedIn)
  PROVE  SignOuts'
<1>1. logout.subject \in Subjects /\ logout.before \subseteq Entries /\ NoEntry \notin Entries
  BY Numbers DEF ServiceTypes, LogoutRecord
<1>2. AskedFits'
  BY DEF SignOuts, AskedFits
<1>3. LogoutFits'
  BY <1>1 DEF SignOuts, LogoutFits
<1> QED
  BY <1>2, <1>3 DEF SignOuts

-----------------------------------------------------------------------------
(* Every step keeps the invariant.                                          *)

LEMMA RequestsStep ==
  ASSUME ServiceInv, NEW r \in Requests,
         (\E s \in Subjects : Request(r, s)) \/ Refused(r) \/ Run(r)
  PROVE  ServiceInv'
<1>0. ServiceTypes /\ Processes /\ SignOuts /\ Queues
  BY DEF ServiceInv
<1>1. ASSUME NEW s \in Subjects, Request(r, s) PROVE ServiceInv'
  <2> DEFINE next == [subject |-> s, entry |-> NoEntry, pc |-> "asked"]
  <2>1. next \in RequestRecord /\ next.pc = "asked"
    BY DEF RequestRecord
  <2>2. /\ request' = [request EXCEPT ![r] = next] /\ request[r].pc = "none"
        /\ UNCHANGED <<entryOf, entry, client, process, kill, signedIn, logout, shutdown>>
    BY <1>1 DEF Request
  <2> HIDE DEF next
  <2>3. /\ request' \in [Requests -> RequestRecord] /\ request'[r].pc = "asked"
        /\ \A q \in Requests \ {r} : request'[q] = request[q]
    BY <1>0, <2>1, <2>2, RequestMoves
  <2>4. ServiceTypes'
    BY <1>0, <2>2, <2>3 DEF ServiceTypes
  <2>5. Processes'
    BY <1>0, <2>2, ProcessesStay
  <2>6. Queues'
    BY <1>0, <2>2, <2>3, OutsideQueues
  <2>7. SignOuts'
    BY <1>0, <2>2, SignOutsStay
  <2> QED
    BY <2>4, <2>5, <2>6, <2>7 DEF ServiceInv
<1>2. ASSUME request[r].pc = "asked", request' = [request EXCEPT ![r].pc = "failed"],
             UNCHANGED <<entryOf, entry, client, process, kill, signedIn, logout, shutdown>>
      PROVE  ServiceInv'
  <2>1. /\ request' \in [Requests -> RequestRecord] /\ request'[r].pc = "failed"
        /\ \A q \in Requests \ {r} : request'[q] = request[q]
    BY <1>0, <1>2, PcMoves
  <2>2. ServiceTypes'
    BY <1>0, <1>2, <2>1 DEF ServiceTypes
  <2>3. Processes'
    BY <1>0, <1>2, ProcessesStay
  <2>4. Queues'
    BY <1>0, <1>2, <2>1, OutsideQueues
  <2>5. SignOuts'
    BY <1>0, <1>2, SignOutsStay
  <2> QED
    BY <2>2, <2>3, <2>4, <2>5 DEF ServiceInv
<1>3. ASSUME Run(r) PROVE ServiceInv'
  <2> DEFINE s == request[r].subject
  <2>1. /\ request[r].pc = "asked" /\ s \in Subjects
        /\ UNCHANGED <<process, kill, signedIn, logout, shutdown>>
    BY <1>0, <1>3 DEF Run, ServiceTypes, RequestRecord
  <2>2. CASE /\ request' = [request EXCEPT ![r].pc = "failed"]
             /\ UNCHANGED <<entryOf, entry, client>>
    BY <1>2, <2>1, <2>2
  <2>3. CASE entryOf[s] # NoEntry /\ Enqueued(r, entryOf[s]) /\ UNCHANGED <<entryOf, client>>
    <3>1. entryOf[s] \in Entries /\ entry[entryOf[s]].subject = s
      BY <1>0, <2>1, <2>3 DEF ServiceTypes, Processes, MapFits
    <3>2. Queues'
      BY <1>0, <2>1, <2>3, <3>1, EnqueuedKeepsQueues
    <3>3. /\ entry' \in [Entries -> EntryRecord] /\ request' \in [Requests -> RequestRecord]
          /\ \A d \in Entries : entry'[d].subject = entry[d].subject /\ entry'[d].asked = entry[d].asked
      BY <1>0, <2>3, <3>1, EnqueuedDoes
    <3>4. ServiceTypes'
      BY <1>0, <2>1, <2>3, <3>3 DEF ServiceTypes
    <3>5. Processes'
      BY <1>0, <2>1, <2>3, <3>3, ProcessesStay
    <3>6. SignOuts'
      BY <1>0, <2>1, <2>3, <3>3, SignOutsStay
    <3> QED
      BY <3>2, <3>4, <3>5, <3>6 DEF ServiceInv
  <2>4. ASSUME entryOf[s] = NoEntry, NEW e \in Entries \ Created,
               entryOf' = [entryOf EXCEPT ![s] = e], client' = [client EXCEPT ![e] = "spawn"],
               Enqueued(r, e)
        PROVE  ServiceInv'
    <3>1. client[e] = "none" /\ e \in Entries /\ e # NoEntry
      BY <2>4, Numbers DEF Created
    <3>2. Queues'
      BY <1>0, <2>1, <2>4, <3>1, EnqueuedKeepsQueues
    <3>3. /\ entry' \in [Entries -> EntryRecord] /\ request' \in [Requests -> RequestRecord]
          /\ \A d \in Entries \ {e} : entry'[d] = entry[d]
          /\ entry'[e].subject = s /\ entry'[e].asked = entry[e].asked
      BY <1>0, <2>4, <3>1, EnqueuedDoes
    <3>4. ServiceTypes'
      BY <1>0, <2>1, <2>4, <3>1, <3>3 DEF ServiceTypes, ClientStates
    <3>5. /\ entryOf'[s] = e /\ \A x \in Subjects \ {s} : entryOf'[x] = entryOf[x]
          /\ client'[e] = "spawn" /\ \A d \in Entries \ {e} : client'[d] = client[d]
      BY <1>0, <2>1, <2>4, <3>1 DEF ServiceTypes
    <3>6. \A x \in Subjects : entryOf[x] # NoEntry => entryOf[x] \in Entries \ {e}
      BY <1>0, <3>1 DEF ServiceTypes, Processes, MapFits
    <3>7. MapFits'
      BY <1>0, <3>3, <3>5, <3>6 DEF Processes, MapFits
    <3>8. LeftForAReason'
      <4> SUFFICES ASSUME NEW d \in Entries, client'[d] # "none"
          PROVE \/ entryOf'[entry'[d].subject] = d
                \/ entry'[d].asked # "no"
                \/ client'[d] = "failed"
        BY DEF LeftForAReason
      <4>1. CASE d = e
        BY <3>3, <3>5, <4>1
      <4>2. CASE d # e
        <5>1. entry'[d] = entry[d] /\ client'[d] = client[d] /\ entry[d].subject \in Subjects
          BY <1>0, <3>3, <3>5, <4>2 DEF ServiceTypes, EntryRecord
        <5>2. d # NoEntry
          BY Numbers
        <5> QED
          BY <1>0, <2>4, <3>5, <5>1, <5>2 DEF Processes, LeftForAReason
      <4> QED
        BY <4>1, <4>2
    <3>9. process[e] # "alive" /\ kill[e] = "no" /\ (logout.entry # NoEntry /\ "drop" \notin logout.waits => logout.entry # e)
      BY <1>0, <3>1 DEF Processes, ProcessFits, DropFits
    <3>10. ProcessFits'
      BY <1>0, <2>1, <3>5, <3>9 DEF Processes, ProcessFits
    <3>11. DropFits'
      BY <1>0, <2>1, <3>5, <3>9 DEF Processes, DropFits, ServiceTypes, LogoutRecord
    <3>12. AskedFits'
      BY <1>0, <2>1, <3>1, <3>3, <3>5 DEF SignOuts, AskedFits
    <3>13. LogoutFits'
      <4>1. logout.subject \in Subjects /\ logout.before \subseteq Entries \ {e}
        BY <1>0, <3>1 DEF ServiceTypes, LogoutRecord, SignOuts, LogoutFits
      <4> QED
        BY <1>0, <2>1, <3>1, <3>3, <3>5, <4>1 DEF SignOuts, LogoutFits
    <3> QED
      BY <3>2, <3>4, <3>7, <3>8, <3>10, <3>11, <3>12, <3>13 DEF ServiceInv, Processes, SignOuts
  <2> QED
    BY <1>3, <2>2, <2>3, <2>4 DEF Run
<1>4. ASSUME Refused(r) PROVE ServiceInv'
  BY <1>2, <1>4 DEF Refused
<1> QED
  BY <1>1, <1>3, <1>4

LEMMA TurnsStep ==
  ASSUME ServiceInv, NEW e \in Entries, Turns(e)
  PROVE  ServiceInv'
<1>0. ServiceTypes /\ Processes /\ SignOuts /\ Queues
  BY DEF ServiceInv
<1>1. UNCHANGED <<entryOf, client, process, kill, signedIn, logout, shutdown>> /\ entry[e].queue # <<>>
  BY DEF Turns, TurnRuns, TurnEnds, HasTurn
<1>2. ASSUME NEW outcome \in {"done", "failed"}, TurnIsOver(e, outcome) PROVE ServiceInv'
  <2>1. /\ entry' \in [Entries -> EntryRecord] /\ request' \in [Requests -> RequestRecord]
        /\ \A d \in Entries : entry'[d].subject = entry[d].subject /\ entry'[d].asked = entry[d].asked
    BY <1>0, <1>1, <1>2, EndOfTurnDoes
  <2>2. ServiceTypes'
    BY <1>0, <1>1, <2>1 DEF ServiceTypes
  <2>3. Processes'
    BY <1>0, <1>1, <2>1, ProcessesStay
  <2>4. Queues'
    BY <1>0, <1>1, <1>2, TurnEndKeepsQueues
  <2>5. SignOuts'
    BY <1>0, <1>1, <2>1, SignOutsStay
  <2> QED
    BY <2>2, <2>3, <2>4, <2>5 DEF ServiceInv
<1>3. ASSUME request' = [request EXCEPT ![Turn(e)].pc = "running"], UNCHANGED entry PROVE ServiceInv'
  <2>1. Turn(e) \in Requests
    BY <1>0, <1>1 DEF ServiceTypes, EntryRecord, Turn
  <2>2. /\ request' \in [Requests -> RequestRecord]
        /\ request'[Turn(e)].pc = "running" /\ request'[Turn(e)].entry = request[Turn(e)].entry
        /\ \A q \in Requests \ {Turn(e)} : request'[q] = request[q]
    BY <1>0, <1>3, <2>1, PcMoves
  <2>3. ServiceTypes'
    BY <1>0, <1>1, <1>3, <2>2 DEF ServiceTypes
  <2>4. Processes'
    BY <1>0, <1>1, <1>3, ProcessesStay
  <2>5. Queues'
    BY <1>0, <1>1, <1>3, <2>1, <2>2, TurnStarts
  <2>6. SignOuts'
    BY <1>0, <1>1, <1>3, SignOutsStay
  <2> QED
    BY <2>3, <2>4, <2>5, <2>6 DEF ServiceInv
<1> QED
  BY <1>2, <1>3 DEF Turns, TurnRuns, TurnEnds

LEMMA LivesStep ==
  ASSUME ServiceInv, NEW e \in Entries, Lives(e) \/ ProcessDies(e)
  PROVE  ServiceInv'
<1>0. ServiceTypes /\ Processes /\ SignOuts /\ Queues
  BY DEF ServiceInv
<1>1. UNCHANGED <<entry, request, signedIn, logout, shutdown>>
  BY DEF Lives, Spawned, TokenTaken, Initialized, InitializationFails, CreationFails, Closes, GraceOver, CloseReturns,
         ProcessDies
<1>2. Queues'
  BY <1>0, <1>1, QueuesStay
<1>3. \A s \in Subjects : entryOf[s] # NoEntry => entryOf[s] \in Entries
  BY <1>0 DEF ServiceTypes
<1>4. logout.entry # NoEntry => logout.entry \in Entries
  BY <1>0 DEF ServiceTypes, LogoutRecord
<1>5. ASSUME NEW state \in ClientStates \ {"none"}, client[e] \notin {"none", "failed", "closed"},
             client' = [client EXCEPT ![e] = state],
             \A s \in Subjects : entryOf'[s] \in {entryOf[s], NoEntry},
             state \in {"login", "up"} => (client[e] \in {"login", "up"} \/ entry[e].subject \in signedIn)
      PROVE  SignOuts'
  <2>1. client'[e] = state /\ \A d \in Entries \ {e} : client'[d] = client[d]
    BY <1>0, <1>5 DEF ServiceTypes
  <2>2. \A d \in Entries :
          /\ client[d] # "none" => client'[d] # "none"
          /\ client[d] \in {"closed", "failed"} => client'[d] = client[d]
          /\ client'[d] \in {"login", "up"} => (client[d] \in {"login", "up"} \/ entry[d].subject \in signedIn)
    BY <1>5, <2>1
  <2> QED
    BY <1>0, <1>1, <1>5, <2>2, SignOutsStay
<1>6. ASSUME Spawned(e) PROVE ServiceInv'
  <2>1. /\ client[e] = "spawn" /\ client' = [client EXCEPT ![e] = "handshake"] /\ UNCHANGED <<entryOf, kill>>
        /\ process' = [process EXCEPT ![e] = "alive"]
    BY <1>6 DEF Spawned
  <2>2. ServiceTypes'
    BY <1>0, <1>1, <2>1 DEF ServiceTypes, ClientStates
  <2>3. /\ \A d \in Entries \ {e} : process'[d] = process[d] /\ kill'[d] = kill[d]
        /\ kill'[e] = "no"
    BY <1>0, <2>1 DEF ServiceTypes, Processes, ProcessFits
  <2>4. Processes'
    BY <1>0, <1>1, <2>1, <2>3, ClientMoves DEF ClientStates
  <2>5. SignOuts'
    BY <1>5, <2>1 DEF ClientStates
  <2> QED
    BY <1>2, <2>2, <2>4, <2>5 DEF ServiceInv
<1>7. ASSUME TokenTaken(e) \/ Initialized(e) PROVE ServiceInv'
  <2>1. PICK state \in {"login", "up"} :
          /\ client[e] \in {"handshake", "login"} /\ client' = [client EXCEPT ![e] = state]
          /\ client[e] = "login" \/ entry[e].subject \in signedIn
          /\ UNCHANGED <<entryOf, process, kill>>
    BY <1>7 DEF TokenTaken, Initialized
  <2>2. ServiceTypes'
    BY <1>0, <1>1, <2>1 DEF ServiceTypes, ClientStates
  <2>3. kill[e] = "no"
    BY <1>0, <2>1 DEF Processes, ProcessFits
  <2>4. Processes'
    BY <1>0, <1>1, <2>1, <2>3, ClientMoves DEF ClientStates
  <2>5. SignOuts'
    BY <1>5, <2>1 DEF ClientStates
  <2> QED
    BY <1>2, <2>2, <2>4, <2>5 DEF ServiceInv
<1>8. ASSUME InitializationFails(e) \/ Closes(e) PROVE ServiceInv'
  <2>1. PICK state \in {"failing", "closed"} :
          /\ client[e] \in {"handshake", "login", "up"} /\ client' = [client EXCEPT ![e] = state]
          /\ kill' = [kill EXCEPT ![e] = "grace"] /\ UNCHANGED <<entryOf, process>>
    BY <1>8 DEF InitializationFails, Closes, Ends
  <2>2. ServiceTypes'
    BY <1>0, <1>1, <2>1 DEF ServiceTypes, ClientStates
  <2>3. kill'[e] = "grace" /\ \A d \in Entries \ {e} : process'[d] = process[d] /\ kill'[d] = kill[d]
    BY <1>0, <2>1 DEF ServiceTypes
  <2>4. Processes'
    BY <1>0, <1>1, <2>1, <2>3, ClientMoves DEF ClientStates
  <2>5. SignOuts'
    BY <1>5, <2>1 DEF ClientStates
  <2> QED
    BY <1>2, <2>2, <2>4, <2>5 DEF ServiceInv
<1>9. ASSUME CreationFails(e) PROVE ServiceInv'
  <2>1. /\ client[e] \in {"spawn", "failing"} /\ process[e] # "alive"
        /\ client' = [client EXCEPT ![e] = "failed"]
        /\ UNCHANGED <<process, kill>>
        /\ entryOf' = [s \in Subjects |-> IF entryOf[s] = e THEN NoEntry ELSE entryOf[s]]
    BY <1>0, <1>9 DEF CreationFails, Forgets, Processes, ProcessFits
  <2>2. ServiceTypes'
    BY <1>0, <1>1, <2>1 DEF ServiceTypes, ClientStates
  <2>3. client'[e] = "failed" /\ \A d \in Entries \ {e} : client'[d] = client[d]
    BY <1>0, <2>1 DEF ServiceTypes
  <2>4. MapFits'
    BY <1>0, <1>1, <1>3, <2>1, <2>3 DEF Processes, MapFits
  <2>5. \A d \in Entries : entry[d].subject \in Subjects
    BY <1>0 DEF ServiceTypes, EntryRecord
  <2>6. LeftForAReason'
    BY <1>0, <1>1, <2>1, <2>3, <2>5 DEF Processes, LeftForAReason
  <2>7. ProcessFits'
    BY <1>0, <2>1, <2>3 DEF Processes, ProcessFits
  <2>8. DropFits'
    BY <1>0, <1>1, <1>4, <2>1, <2>3 DEF Processes, DropFits
  <2>9. SignOuts'
    BY <1>5, <2>1 DEF ClientStates
  <2> QED
    BY <1>2, <2>2, <2>4, <2>6, <2>7, <2>8, <2>9 DEF ServiceInv, Processes
<1>10. ASSUME GraceOver(e) \/ CloseReturns(e) \/ ProcessDies(e) PROVE ServiceInv'
  <2>1. /\ UNCHANGED <<entryOf, client>>
        /\ process' = process \/ process' = [process EXCEPT ![e] = "gone"]
        /\ \/ UNCHANGED kill
           \/ kill[e] = "grace" /\ kill' = [kill EXCEPT ![e] = "killed"] /\ process' = [process EXCEPT ![e] = "gone"]
           \/ kill[e] = "killed" /\ kill' = [kill EXCEPT ![e] = "returned"]
    BY <1>10 DEF GraceOver, CloseReturns, ProcessDies
  <2>2. ServiceTypes'
    BY <1>0, <1>1, <2>1 DEF ServiceTypes
  <2>3. /\ \A d \in Entries : process'[d] = "alive" => process[d] = "alive"
        /\ \A d \in Entries : kill'[d] # "no" => kill[d] # "no"
        /\ \A d \in Entries : process'[d] = "alive" => kill'[d] \in {"no", "grace"}
    BY <1>0, <2>1 DEF ServiceTypes, Processes, ProcessFits
  <2>4. MapFits' /\ LeftForAReason'
    BY <1>0, <1>1, <2>1 DEF Processes, MapFits, LeftForAReason
  <2>5. ProcessFits'
    BY <1>0, <2>1, <2>3 DEF Processes, ProcessFits
  <2>6. DropFits'
    BY <1>0, <1>1, <1>4, <2>1, <2>3 DEF Processes, DropFits
  <2>7. SignOuts'
    BY <1>0, <1>1, <2>1, SignOutsStay
  <2> QED
    BY <1>2, <2>2, <2>4, <2>5, <2>6, <2>7 DEF ServiceInv, Processes
<1> QED
  BY <1>6, <1>7, <1>8, <1>9, <1>10 DEF Lives

LEMMA LeavesStep ==
  ASSUME ServiceInv,
         \/ \E e \in Entries : Evict(e)
         \/ \E s \in Subjects : Logout(s)
         \/ Terminate
  PROVE  ServiceInv'
<1>0. ServiceTypes /\ Processes /\ SignOuts /\ Queues
  BY DEF ServiceInv
<1>1. \A e \in Entries : e # NoEntry /\ entry[e].subject \in Subjects
  BY <1>0, Numbers DEF ServiceTypes, EntryRecord
<1>3. ASSUME NEW e \in Entries, Evict(e) PROVE ServiceInv'
  <2>1. /\ entryOf[entry[e].subject] = e
        /\ entryOf' = [entryOf EXCEPT ![entry[e].subject] = NoEntry] /\ Asked(e, "evict")
        /\ UNCHANGED <<client, process, kill, request, signedIn, logout, shutdown>>
    BY <1>3 DEF Evict
  <2>2. /\ entry' \in [Entries -> EntryRecord] /\ entry'[e].asked = "evict"
        /\ \A d \in Entries : /\ d # e => entry'[d].asked = entry[d].asked
                              /\ entry'[d].subject = entry[d].subject
                              /\ entry'[d].queue = entry[d].queue
    BY <1>0, <2>1, AskedDoes DEF Reasons
  <2>3. ServiceTypes'
    BY <1>0, <2>1, <2>2 DEF ServiceTypes
  <2>4. Queues'
    BY <1>0, <2>1, <2>2, QueuesStay
  <2>5. MapFits' /\ LeftForAReason' /\ ProcessFits'
    <3>1. \A s \in Subjects : entryOf'[s] = IF s = entry[e].subject THEN NoEntry ELSE entryOf[s]
      BY <1>0, <2>1 DEF ServiceTypes
    <3>2. /\ \A s \in Subjects : entryOf'[s] \in {entryOf[s], NoEntry}
          /\ \A s \in Subjects : (entryOf[s] # NoEntry /\ entryOf'[s] = NoEntry) => entryOf[s] = e
      BY <2>1, <3>1
    <3>3. \A d \in Entries : entry[d].asked # "no" => entry'[d].asked # "no"
      BY <2>2
    <3> QED
      BY <1>0, <2>1, <2>2, <3>2, <3>3, EntriesLeave
  <2>6. DropFits'
    BY <1>0, <2>1 DEF Processes, DropFits
  <2>7. SignOuts'
    <3>1. \A s \in Subjects : entryOf'[s] \in {entryOf[s], NoEntry}
      BY <1>0, <2>1 DEF ServiceTypes
    <3>2. \A d \in Entries : entry'[d].subject = entry[d].subject /\ entry'[d].asked \in {entry[d].asked, "evict"}
      BY <2>2
    <3> QED
      BY <1>0, <2>1, <3>1, <3>2, SignOutsStay
  <2> QED
    BY <2>3, <2>4, <2>5, <2>6, <2>7 DEF ServiceInv, Processes
<1>4. ASSUME NEW s \in Subjects, Logout(s) PROVE ServiceInv'
  <2>1. /\ logout' = [subject |-> s, entry |-> entryOf[s], count |-> logout.count + 1,
                      waits |-> IF entryOf[s] = NoEntry THEN {"row"} ELSE {"row", "drop"},
                      before |-> CreatedFor(s), during |-> {}]
        /\ shutdown = "no" /\ logout.waits = {}
        /\ logout.count < MaxLogouts /\ entryOf' = [entryOf EXCEPT ![s] = NoEntry]
        /\ IF entryOf[s] = NoEntry THEN UNCHANGED entry ELSE Asked(entryOf[s], "drop")
        /\ UNCHANGED <<client, process, kill, request, signedIn, shutdown>>
    BY <1>4 DEF Logout, Serving
  <2>2. entryOf[s] \in Entries \cup {NoEntry}
    BY <1>0 DEF ServiceTypes
  <2>3. /\ entry' \in [Entries -> EntryRecord]
        /\ \A d \in Entries : /\ entry[d].asked # "no" => entry'[d].asked # "no"
                              /\ entry'[d].subject = entry[d].subject
                              /\ entry'[d].queue = entry[d].queue
        /\ entryOf[s] # NoEntry => entry'[entryOf[s]].asked = "drop"
        /\ \A d \in Entries : d # entryOf[s] => entry'[d].asked = entry[d].asked
    <3>1. CASE entryOf[s] = NoEntry
      BY <1>0, <2>1, <3>1 DEF ServiceTypes
    <3>2. CASE entryOf[s] # NoEntry
      BY <1>0, <2>1, <2>2, <3>2, AskedDoes DEF Reasons
    <3> QED
      BY <3>1, <3>2
  <2>4. logout' \in LogoutRecord
    <3>1. CreatedFor(s) \in SUBSET Entries /\ logout.count + 1 \in 0..MaxLogouts
      BY <1>0, <2>1, RenderAssumption DEF CreatedFor, Created, ServiceTypes, LogoutRecord
    <3> QED
      BY <2>1, <2>2, <3>1 DEF LogoutRecord
  <2>5. ServiceTypes'
    BY <1>0, <2>1, <2>3, <2>4 DEF ServiceTypes
  <2>6. Queues'
    BY <1>0, <2>1, <2>3, QueuesStay
  <2>7. MapFits' /\ LeftForAReason' /\ ProcessFits'
    <3>1. \A x \in Subjects : entryOf'[x] = IF x = s THEN NoEntry ELSE entryOf[x]
      BY <1>0, <2>1 DEF ServiceTypes
    <3> QED
      BY <1>0, <2>1, <2>3, <3>1, EntriesLeave
  <2>8. DropFits'
    BY <2>1 DEF DropFits
  <2>9. /\ logout'.subject = s /\ logout'.before = CreatedFor(s) /\ "row" \in logout'.waits
        /\ logout'.entry = entryOf[s]
        /\ entryOf[s] # NoEntry => "drop" \in logout'.waits
    BY <2>1
  <2>10. AskedFits'
    <3>1. \A d \in Entries : /\ entry[d].asked # "close" /\ d # NoEntry
                             /\ entry[d].asked = "drop" => client[d] \in {"closed", "failed"}
      BY <1>0, <1>1, <2>1 DEF SignOuts, AskedFits
    <3>2. ASSUME NEW d \in Entries, d = entryOf[s]
          PROVE  entry'[d].asked = "drop" /\ logout'.entry = d /\ "drop" \in logout'.waits
      BY <1>1, <2>3, <2>9, <3>2
    <3>3. ASSUME NEW d \in Entries
          PROVE  /\ shutdown' = "no" => entry'[d].asked # "close"
                 /\ entry'[d].asked = "drop" =>
                      (logout'.entry = d /\ "drop" \in logout'.waits) \/ client'[d] \in {"closed", "failed"}
      <4>1. CASE d = entryOf[s]
        <5>1. /\ entry'[d].asked = "drop"
              /\ logout'.entry = d /\ "drop" \in logout'.waits
          BY <3>2, <4>1
        <5> QED
          BY <5>1
      <4>2. CASE d # entryOf[s]
        <5>1. entry'[d].asked = entry[d].asked /\ client'[d] = client[d]
          BY <2>1, <2>3, <4>2
        <5>2. entry'[d].asked # "close"
          BY <3>1, <5>1
        <5>3. entry'[d].asked = "drop" => client'[d] \in {"closed", "failed"}
          BY <3>1, <5>1
        <5> QED
          BY <5>2, <5>3
      <4> QED
        BY <4>1, <4>2
    <3> QED
      BY <3>3 DEF AskedFits
  <2>11. LogoutFits'
    <3>1. entryOf'[s] = NoEntry
      BY <1>0, <2>1 DEF ServiceTypes
    <3>2. ASSUME NEW d \in CreatedFor(s)
          PROVE  d \in Entries /\ entry'[d].subject = s /\ client'[d] # "none" /\ entry'[d].asked # "close"
      <4>1. d \in Entries /\ entry[d].subject = s /\ client[d] # "none" /\ entry[d].asked # "close"
        BY <1>0, <2>1, <3>2 DEF CreatedFor, Created, SignOuts, AskedFits
      <4>2. d = entryOf[s] => entry'[d].asked = "drop"
        BY <1>1, <2>3, <4>1
      <4> QED
        BY <2>1, <2>3, <4>1, <4>2
    <3> QED
      BY <1>1, <2>9, <3>1, <3>2 DEF LogoutFits
  <2> QED
    BY <2>5, <2>6, <2>7, <2>8, <2>10, <2>11 DEF ServiceInv, Processes, SignOuts
<1>5. ASSUME Terminate PROVE ServiceInv'
  <2>1. /\ shutdown' = "sessions" /\ entryOf' = [s \in Subjects |-> NoEntry]
        /\ entry' = [e \in Entries |->
             IF \E s \in Subjects : entryOf[s] = e THEN [entry[e] EXCEPT !.asked = "close"] ELSE entry[e]]
        /\ UNCHANGED <<client, process, kill, request, signedIn, logout>>
    BY <1>5 DEF Terminate
  <2>2. ASSUME NEW e \in Entries
        PROVE  /\ [entry[e] EXCEPT !.asked = "close"] \in EntryRecord
               /\ [entry[e] EXCEPT !.asked = "close"].asked = "close"
               /\ [entry[e] EXCEPT !.asked = "close"].subject = entry[e].subject
               /\ [entry[e] EXCEPT !.asked = "close"].queue = entry[e].queue
    BY <1>0 DEF ServiceTypes, EntryRecord, Reasons
  <2>3. /\ entry' \in [Entries -> EntryRecord]
        /\ \A d \in Entries : /\ entry[d].asked # "no" => entry'[d].asked # "no"
                              /\ entry'[d].subject = entry[d].subject
                              /\ entry'[d].queue = entry[d].queue
        /\ \A s \in Subjects : entryOf[s] # NoEntry => entry'[entryOf[s]].asked # "no"
        /\ \A d \in Entries : \/ entry'[d].asked = entry[d].asked
                              \/ entry'[d].asked = "close" /\ \E s \in Subjects : entryOf[s] = d
    <3>1. ASSUME NEW d \in Entries
          PROVE  /\ entry'[d] \in EntryRecord
                 /\ entry[d].asked # "no" => entry'[d].asked # "no"
                 /\ entry'[d].subject = entry[d].subject
                 /\ entry'[d].queue = entry[d].queue
                 /\ (\E s \in Subjects : entryOf[s] = d) => entry'[d].asked # "no"
                 /\ \/ entry'[d].asked = entry[d].asked
                    \/ entry'[d].asked = "close" /\ \E s \in Subjects : entryOf[s] = d
      <4>1. CASE \E s \in Subjects : entryOf[s] = d
        <5>1. entry'[d] = [entry[d] EXCEPT !.asked = "close"]
          BY <2>1, <4>1
        <5> QED
          BY <2>2, <4>1, <5>1
      <4>2. CASE ~\E s \in Subjects : entryOf[s] = d
        <5>1. entry'[d] = entry[d]
          BY <2>1, <4>2
        <5> QED
          BY <1>0, <4>2, <5>1 DEF ServiceTypes
      <4> QED
        BY <4>1, <4>2
    <3>2. entry' \in [Entries -> EntryRecord]
      <4> DEFINE f(e) == IF \E s \in Subjects : entryOf[s] = e
                           THEN [entry[e] EXCEPT !.asked = "close"] ELSE entry[e]
      <4>1. \A e \in Entries : entry'[e] = f(e)
        BY <2>1
      <4>2. \A e \in Entries : f(e) \in EntryRecord
        BY <3>1, <4>1
      <4>3. entry' = [e \in Entries |-> f(e)]
        BY <2>1
      <4> HIDE DEF f
      <4> QED
        BY <4>2, <4>3
    <3>3. \A s \in Subjects : entryOf[s] # NoEntry => entryOf[s] \in Entries
      BY <1>0 DEF ServiceTypes
    <3> QED
      BY <3>1, <3>2, <3>3
  <2>4. ServiceTypes'
    BY <1>0, <2>1, <2>3 DEF ServiceTypes
  <2>5. Queues'
    BY <1>0, <2>1, <2>3, QueuesStay
  <2>6. MapFits' /\ LeftForAReason' /\ ProcessFits'
    BY <1>0, <2>1, <2>3, EntriesLeave
  <2>7. DropFits'
    BY <1>0, <2>1 DEF Processes, DropFits
  <2>8. AskedFits'
    BY <1>0, <2>1, <2>3 DEF SignOuts, AskedFits
  <2>9. LogoutFits'
    <3>1. logout.subject \in Subjects /\ logout.before \subseteq Entries /\ entryOf'[logout.subject] = NoEntry
      BY <1>0, <2>1 DEF ServiceTypes, LogoutRecord
    <3>2. ASSUME NEW d \in logout.before PROVE entry'[d].asked # "close"
      <4>1. d \in Entries /\ entry[d].subject = logout.subject /\ entry[d].asked # "close" /\ entryOf[logout.subject] # d
        BY <1>0, <3>1, <3>2 DEF SignOuts, LogoutFits
      <4>2. \A s \in Subjects : entryOf[s] = d => entry[d].subject = s
        BY <1>0, <1>1, <4>1 DEF Processes, MapFits
      <4> QED
        BY <2>3, <3>1, <4>1, <4>2
    <3>3. /\ entryOf'[logout.subject] \notin logout.before
          /\ \A d \in logout.before :
               entry'[d].subject = logout.subject /\ client[d] # "none" /\ entry'[d].asked # "close"
      BY <1>0, <1>1, <2>3, <3>1, <3>2 DEF SignOuts, LogoutFits
    <3>4. "row" \notin logout.waits =>
            \A d \in Entries \ (logout.before \cup logout.during) :
              (entry'[d].subject = logout.subject /\ client[d] \in {"login", "up"}) => logout.subject \in signedIn
      BY <1>0, <2>3 DEF SignOuts, LogoutFits
    <3> QED
      BY <2>1, <3>3, <3>4 DEF LogoutFits
  <2> QED
    BY <2>4, <2>5, <2>6, <2>7, <2>8, <2>9 DEF ServiceInv, Processes, SignOuts
<1> QED
  BY <1>3, <1>4, <1>5

LEMMA OtherSteps ==
  ASSUME ServiceInv,
         \/ RowDeleted \/ Dropped \/ \E s \in Subjects : SignIn(s)
         \/ SessionsClosed \/ SessionsFail \/ ServerClosed \/ UNCHANGED ServiceVars
  PROVE  ServiceInv'
<1>0. ServiceTypes /\ Processes /\ SignOuts /\ Queues
  BY DEF ServiceInv
<1>1. UNCHANGED <<entryOf, entry, client, process, kill, request>>
  BY DEF RowDeleted, Dropped, SignIn, SessionsClosed, SessionsFail, ServerClosed, ServiceVars
<1>2. Queues'
  BY <1>0, <1>1, QueuesStay
<1>3. ASSUME UNCHANGED logout, signedIn \subseteq signedIn', signedIn' \subseteq Subjects,
             shutdown' \in {"no", "sessions", "server", "done", "crashed"}, shutdown' = "no" => shutdown = "no"
      PROVE  ServiceInv'
  <2>1. ServiceTypes' /\ Processes'
    BY <1>0, <1>1, <1>3, ProcessesStay DEF ServiceTypes
  <2>2. SignOuts'
    BY <1>0, <1>1, <1>3, SignOutsStay
  <2> QED
    BY <1>2, <2>1, <2>2 DEF ServiceInv
<1>4. MapFits' /\ LeftForAReason' /\ ProcessFits'
  BY <1>0, <1>1, EntriesLeave
<1>5. logout \in LogoutRecord
  BY <1>0 DEF ServiceTypes
<1>6. ASSUME RowDeleted PROVE ServiceInv'
  <2>1. /\ logout' = [logout EXCEPT !.waits = @ \ {"row"}, !.during = CreatedFor(logout.subject) \ logout.before]
        /\ signedIn' \subseteq Subjects
        /\ UNCHANGED shutdown
    BY <1>0, <1>6 DEF RowDeleted, ServiceTypes
  <2>2. /\ logout' \in LogoutRecord /\ logout'.entry = logout.entry
        /\ logout'.waits = logout.waits \ {"row"}
        /\ logout'.subject = logout.subject /\ logout'.before = logout.before
        /\ logout'.during = CreatedFor(logout.subject) \ logout.before
    <3>1. CreatedFor(logout.subject) \ logout.before \in SUBSET Entries
      BY DEF CreatedFor, Created
    <3> QED
      BY <1>5, <2>1, <3>1 DEF LogoutRecord
  <2>3. ServiceTypes'
    BY <1>0, <1>1, <2>1, <2>2 DEF ServiceTypes
  <2>4. DropFits'
    BY <1>0, <1>1, <2>2 DEF Processes, DropFits
  <2>5. AskedFits'
    BY <1>0, <1>1, <2>1, <2>2 DEF SignOuts, AskedFits
  <2>6. LogoutFits'
    <3>1. \A e \in Entries \ (logout'.before \cup logout'.during) :
            ~(entry[e].subject = logout.subject /\ client[e] \in {"login", "up"})
      BY <2>2 DEF CreatedFor, Created
    <3> QED
      BY <1>0, <1>1, <2>2, <3>1 DEF SignOuts, LogoutFits
  <2> QED
    BY <1>2, <1>4, <2>3, <2>4, <2>5, <2>6 DEF ServiceInv, Processes, SignOuts
<1>7. ASSUME Dropped PROVE ServiceInv'
  <2>1. /\ logout' = [logout EXCEPT !.waits = @ \ {"drop"}]
        /\ CloseDone(logout.entry) \/ client[logout.entry] = "failed"
        /\ UNCHANGED <<shutdown, signedIn>>
    BY <1>7 DEF Dropped
  <2>2. /\ logout' \in LogoutRecord /\ logout'.entry = logout.entry
        /\ logout'.subject = logout.subject /\ logout'.before = logout.before /\ logout'.during = logout.during
        /\ logout'.waits = logout.waits \ {"drop"}
    BY <1>5, <2>1 DEF LogoutRecord
  <2>3. ServiceTypes'
    BY <1>0, <1>1, <2>1, <2>2 DEF ServiceTypes
  <2>4. logout.entry # NoEntry => client[logout.entry] \in {"closed", "failed"} /\ process[logout.entry] # "alive"
    BY <1>0, <1>5, <2>1 DEF CloseDone, Processes, ProcessFits, LogoutRecord
  <2>5. DropFits'
    BY <1>1, <2>2, <2>4 DEF DropFits
  <2>6. AskedFits'
    <3>1. \A e \in Entries : e = logout.entry => client[e] \in {"closed", "failed"}
      BY <2>4, Numbers
    <3> QED
      BY <1>0, <1>1, <2>1, <3>1 DEF SignOuts, AskedFits
  <2>7. LogoutFits'
    BY <1>0, <1>1, <2>1, <2>2 DEF SignOuts, LogoutFits
  <2> QED
    BY <1>2, <1>4, <2>3, <2>5, <2>6, <2>7 DEF ServiceInv, Processes, SignOuts
<1>8. CASE (\E s \in Subjects : SignIn(s)) \/ SessionsClosed \/ SessionsFail \/ ServerClosed \/ UNCHANGED ServiceVars
  BY <1>0, <1>3, <1>8 DEF SignIn, SessionsClosed, SessionsFail, ServerClosed, ServiceVars, ServiceTypes
<1> QED
  BY <1>6, <1>7, <1>8

LEMMA ServiceNextHolds == ServiceInv /\ [ServiceNext]_ServiceVars => ServiceInv'
BY RequestsStep, TurnsStep, LivesStep, LeavesStep, OtherSteps DEF ServiceNext, Turns, Lives

THEOREM ServiceInvariance == ServiceSpec => []ServiceInv
BY ServiceInitHolds, ServiceNextHolds, PTL DEF ServiceSpec


(* No process is orphaned, however creations that fail late, evictions,     *)
(* sign-outs and the shutdown interleave: whatever is alive is found by its *)
(* subject, or somebody is closing it.                                      *)
THEOREM ProcessesHaveAnOwner == ServiceSpec => []NoProcessIsOrphaned
<1>1. ServiceInv => NoProcessIsOrphaned
  <2> SUFFICES ASSUME ServiceInv, NEW e \in Entries, process[e] = "alive"
      PROVE entryOf[entry[e].subject] = e \/ entry[e].asked # "no"
    BY DEF NoProcessIsOrphaned
  <2>1. client[e] \notin {"none", "failed"}
    BY DEF ServiceInv, Processes, ProcessFits
  <2> QED
    BY <2>1 DEF ServiceInv, Processes, LeftForAReason
<1> QED
  BY ServiceInvariance, <1>1, PTL DEF ServiceSpec

(* Once a logout is answered, however it interleaves with creations,        *)
(* evictions, requests and other sign-ins: the process its subject had was  *)
(* killed, the clients evicted before are closed or about to be, and only   *)
(* one created while the row was being deleted can work with the credential*)
(* that was deleted (index.ts:116).                                         *)
THEOREM LogoutsEndProcesses == ServiceSpec => []LogoutEndsProcess
<1>1. ServiceInv => LogoutEndsProcess
  <2> SUFFICES ASSUME ServiceInv, logout.waits = {}, NEW e \in CreatedFor(logout.subject)
      PROVE /\ e = logout.entry => process[e] # "alive"
            /\ e \in logout.before => (client[e] \in {"closed", "failed"} \/ entry[e].asked = "evict")
            /\ (e \notin logout.before \cup logout.during /\ client[e] \in {"login", "up"})
                 => logout.subject \in signedIn
    BY DEF LogoutEndsProcess
  <2>1. e \in Entries /\ e # NoEntry /\ client[e] # "none" /\ entry[e].subject = logout.subject
    BY Numbers DEF CreatedFor, Created
  <2>2. e = logout.entry => process[e] # "alive"
    BY <2>1 DEF ServiceInv, Processes, DropFits
  <2>3. ASSUME e \in logout.before PROVE client[e] \in {"closed", "failed"} \/ entry[e].asked = "evict"
    <3>1. client[e] = "failed" \/ entry[e].asked # "no"
      BY <2>1, <2>3 DEF ServiceInv, Processes, LeftForAReason, SignOuts, LogoutFits
    <3>2. entry[e].asked = "drop" => client[e] \in {"closed", "failed"}
      BY <2>1 DEF ServiceInv, SignOuts, AskedFits
    <3>3. entry[e].asked # "close" /\ entry[e].asked \in {"drop", "evict", "close", "no"}
      BY <2>1, <2>3 DEF ServiceInv, SignOuts, LogoutFits, ServiceTypes, EntryRecord, Reasons
    <3> QED
      BY <3>1, <3>2, <3>3
  <2>4. (e \notin logout.before \cup logout.during /\ client[e] \in {"login", "up"}) => logout.subject \in signedIn
    BY <2>1 DEF ServiceInv, SignOuts, LogoutFits
  <2> QED
    BY <2>2, <2>3, <2>4
<1> QED
  BY ServiceInvariance, <1>1, PTL DEF ServiceSpec

(* The turns of an entry run one at a time, and each that runs is the head  *)
(* of its queue: run() chains a turn behind the one before it, whichever    *)
(* request brought it, and after turns that failed too.                     *)
TurnsAreSerial ==
  \A r, q \in Requests :
    (request[r].pc = "running" /\ request[q].pc = "running" /\ request[r].entry = request[q].entry) =>
      r = q /\ r = Turn(request[r].entry)

THEOREM TurnsTakeTurns == ServiceSpec => []TurnsAreSerial
<1>1. ServiceInv => TurnsAreSerial
  <2> SUFFICES ASSUME ServiceInv, NEW r \in Requests, NEW q \in Requests,
                      request[r].pc = "running", request[q].pc = "running",
                      request[r].entry = request[q].entry
               PROVE  r = q /\ r = Turn(request[r].entry)
    BY DEF TurnsAreSerial
  <2>1. PICK e \in Entries : e = request[r].entry
    BY DEF ServiceInv, Queues, NoneIsLost
  <2>2. PICK i \in 1..Len(entry[e].queue) : entry[e].queue[i] = r
    BY <2>1 DEF ServiceInv, Queues, NoneIsLost
  <2>3. PICK j \in 1..Len(entry[e].queue) : entry[e].queue[j] = q
    BY <2>1 DEF ServiceInv, Queues, NoneIsLost
  <2>4. i = 1 /\ j = 1
    BY <2>2, <2>3 DEF ServiceInv, Queues, RequestsFit
  <2> QED
    BY <2>1, <2>2, <2>3, <2>4 DEF Turn
<1> QED
  BY ServiceInvariance, <1>1, PTL DEF ServiceSpec

(* A queue holds no more turns than there are requests, since it holds none *)
(* twice.                                                                   *)
LEMMA QueuesAreShort ==
  ASSUME ServiceTypes, RequestsFit, NEW e \in Entries
  PROVE  Len(entry[e].queue) \in 0..MaxRequests
<1> DEFINE q == entry[e].queue
<1>1. q \in Seq(Requests) /\ Len(q) \in Nat
  BY DEF ServiceTypes, EntryRecord
<1>2. q \in [1..Len(q) -> Requests] /\ \A i, j \in 1..Len(q) : q[i] = q[j] => i = j
  BY <1>1 DEF RequestsFit
<1> HIDE DEF q
<1>3. q \in Injection(1..Len(q), Requests)
  BY <1>2 DEF Injection, IsInjective
<1>4. /\ IsFiniteSet(1..MaxRequests) /\ Cardinality(1..MaxRequests) = MaxRequests
      /\ Cardinality(1..Len(q)) = Len(q)
  <2>1. ASSUME NEW n \in Nat PROVE IsFiniteSet(1..n) /\ Cardinality(1..n) = n
    <3>1. IsFiniteSet(1..n) /\ Cardinality(1..n) = IF 1 > n THEN 0 ELSE n - 1 + 1
      BY FS_Interval
    <3> QED
      BY <3>1
  <2> QED
    BY <1>1, <2>1, RenderAssumption
<1>5. Cardinality(1..Len(q)) <= Cardinality(Requests)
  BY <1>3, <1>4, FS_Injection DEF Requests
<1> QED
  BY <1>1, <1>4, <1>5, RenderAssumption DEF Requests, q

(* Every variable keeps its type.                                           *)
THEOREM ServiceTypeCorrect == ServiceSpec => []ServiceTypeOK
<1>1. ServiceInv => ServiceTypeOK
  <2> SUFFICES ASSUME ServiceInv PROVE ServiceTypeOK
    OBVIOUS
  <2>1. ServiceTypes /\ RequestsFit
    BY DEF ServiceInv, Queues
  <2>2. ASSUME NEW e \in Entries
        PROVE  /\ entry[e].queue \in UNION {[1..n -> Requests] : n \in 0..MaxRequests}
               /\ entry[e].asked \in Reasons \cup {"no"}
               /\ entry[e].subject \in Subjects
    <3>1. entry[e] \in EntryRecord
      BY <2>1 DEF ServiceTypes
    <3>2. entry[e].queue \in [1..Len(entry[e].queue) -> Requests]
      BY <3>1 DEF EntryRecord
    <3>3. Len(entry[e].queue) \in 0..MaxRequests
      BY <2>1, QueuesAreShort
    <3>4. entry[e].queue \in UNION {[1..n -> Requests] : n \in 0..MaxRequests}
      BY <3>2, <3>3
    <3> QED
      BY <3>1, <3>4 DEF EntryRecord
  <2>3. ASSUME NEW r \in Requests
        PROVE request[r].pc \in {"none", "asked", "queued", "running", "done", "failed"}
    BY <2>1 DEF ServiceTypes, RequestRecord
  <2>4. /\ logout.waits \subseteq {"row", "drop"} /\ logout.count \in 0..MaxLogouts
        /\ logout.before \subseteq Entries /\ logout.during \subseteq Entries
    BY <2>1 DEF ServiceTypes, LogoutRecord
  <2> QED
    BY <2>1, <2>2, <2>3, <2>4 DEF ServiceTypes, ServiceTypeOK, ClientStates
<1> QED
  BY ServiceInvariance, <1>1, PTL DEF ServiceSpec

=============================================================================
