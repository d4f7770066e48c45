--------------------------- MODULE AuthLifecycle ---------------------------
(***************************************************************************)
(* The credential lifecycle of one application subject                     *)
(* (typescript/src/core/lifecycle.ts): refresh with one flight per process *)
(* and store, compare-and-swap on the record's version, quarantine of a    *)
(* generation the token endpoint rejected for good, fresh logins, logout;  *)
(* with the two ways a login waits for its user: polling the device        *)
(* endpoint (core/oauth.ts) and listening on loopback (node/loopback.ts).  *)
(*                                                                         *)
(* A call is one invocation of the session API; it runs in the process     *)
(* Home[c], and the processes share nothing but the credential store and   *)
(* the token endpoint.  An action is the code a call runs from one await   *)
(* to the next, and takes effect on the store or the endpoint at most      *)
(* once.  Subjects are independent (every map and every row is keyed by    *)
(* the subject), so one is enough.                                         *)
(***************************************************************************)
EXTENDS Naturals, FiniteSets

CONSTANTS
  Procs,      \* processes (replicas) that share the credential store
  Calls,      \* invocations of the session API
  Home,       \* the process each call runs in
  NoCall,     \* "no flight": not a call
  Ops,        \* the operations this instance uses, of AllOps
  Faults      \* the faults this instance allows, of AllFaults

AllOps    == {"get", "force", "login", "device", "loopback", "logout"}
AllFaults == {"crash", "lost", "revoke", "store", "switch"}

ASSUME HomeAssumption   == Home \in [Calls -> Procs]
ASSUME NoCallAssumption == NoCall \notin Calls
ASSUME OpsAssumption    == Ops \subseteq AllOps /\ Faults \subseteq AllFaults

(* A stored TokenSet.  at names the access token, rt the refresh token and  *)
(* q says whether quarantinedAt is set.  A missing row has version 0.       *)
Record   == [at: Nat, rt: Nat, ver: Nat, q: BOOLEAN]
NoRecord == [at |-> 0, rt |-> 0, ver |-> 0, q |-> FALSE]

Present(r) == r.ver > 0

(* What a call, or the flight it leads, ends with; refreshed tells a flight *)
(* that went to the network or adopted a winner from one that found the     *)
(* record fresh.                                                            *)
Outcome == [kind: {"none", "token", "reauth", "failed", "auth", "disabled"},
            tok: Record, refreshed: BOOLEAN]

Pending         == [kind |-> "none", tok |-> NoRecord, refreshed |-> FALSE]
Gets(r, fromNetwork) == [kind |-> "token", tok |-> r, refreshed |-> fromNetwork]
FailsWith(kind) == [kind |-> kind, tok |-> NoRecord, refreshed |-> FALSE]

VARIABLES
  rec,        \* the subject's row in the credential store
  issued,     \* how many tokens the endpoint has issued; their names are 1..issued
  spent,      \* refresh tokens the endpoint rotated away
  revoked,    \* refresh tokens the endpoint revoked for a reason of its own
  stale,      \* is the stored access token within the margin of its expiry?
  flights,    \* per process, the call whose refresh the flights map holds
  pc,         \* where each call is
  op,         \* the operation each call runs
  joined,     \* the flight a waiting call awaits
  cur,        \* the record a flight or a login loaded before it writes
  nxt,        \* the token set it is about to write
  attempt,    \* refresh attempts that already failed
  res,        \* what each call, or the flight it leads, ended with
  kept        \* history: has the row stayed since the call loaded cur?

server == <<issued, spent, revoked>>
locals == <<cur, nxt, attempt, kept>>
vars == <<rec, issued, spent, revoked, stale, flights, pc, op, joined,
          cur, nxt, attempt, res, kept>>

FlightPhases == {"flLoad", "flPost", "flCas", "flQuarantine", "settle"}
DevicePhases == {"devStart", "devSleep", "devPoll"}
LoopbackPhases == {"loopOpen", "loopGot", "loopWait", "abandoned"}
LoginPhases  == DevicePhases \cup LoopbackPhases \cup {"exchange", "freshLoad", "freshCas"}
Phases == FlightPhases \cup LoginPhases \cup
          {"idle", "getLoad", "join", "wait", "delete", "done", "crashed"}

Live(rt) == rt \in 1..issued /\ rt \notin spent /\ rt \notin revoked
Forced(c) == op[c] = "force"

TypeOK ==
  /\ rec \in Record
  /\ issued \in Nat
  /\ spent \subseteq Nat /\ revoked \subseteq Nat
  /\ stale \in BOOLEAN
  /\ flights \in [Procs -> Calls \cup {NoCall}]
  /\ pc \in [Calls -> Phases]
  /\ op \in [Calls -> AllOps]
  /\ joined \in [Calls -> Calls \cup {NoCall}]
  /\ cur \in [Calls -> Record] /\ nxt \in [Calls -> Record]
  /\ attempt \in [Calls -> 0..2]
  /\ res \in [Calls -> Outcome]
  /\ kept \in [Calls -> BOOLEAN]

Init ==
  /\ rec \in {NoRecord, [at |-> 1, rt |-> 1, ver |-> 1, q |-> FALSE]}
  /\ issued = 1
  /\ spent = {} /\ revoked = {}
  /\ stale = FALSE
  /\ flights = [p \in Procs |-> NoCall]
  /\ pc = [c \in Calls |-> "idle"]
  /\ op = [c \in Calls |-> "get"]
  /\ joined = [c \in Calls |-> NoCall]
  /\ cur = [c \in Calls |-> NoRecord]
  /\ nxt = [c \in Calls |-> NoRecord]
  /\ attempt = [c \in Calls |-> 0]
  /\ res = [c \in Calls |-> Pending]
  /\ kept = [c \in Calls |-> FALSE]

Goto(c, phase)     == pc' = [pc EXCEPT ![c] = phase]
Continue(c, phase) == Goto(c, phase) /\ UNCHANGED <<res, locals>>

(* A function returns: its outcome stays, its local variables are gone.     *)
End(c, phase, outcome) ==
  /\ Goto(c, phase)
  /\ res' = [res EXCEPT ![c] = outcome]
  /\ cur' = [cur EXCEPT ![c] = NoRecord] /\ nxt' = [nxt EXCEPT ![c] = NoRecord]
  /\ attempt' = [attempt EXCEPT ![c] = 0]
  /\ kept' = [kept EXCEPT ![c] = FALSE]
Return(c, outcome)     == End(c, "done", outcome)    \* the call's promise settles
Finish(c, outcome)     == End(c, "settle", outcome)  \* refreshOne's promise settles

-----------------------------------------------------------------------------
(* The public operations *)

(* disabled() is a callback of the application: it may answer anything.     *)
SwitchAnswers == IF "switch" \in Faults THEN BOOLEAN ELSE {FALSE}

(* Every operation but logout asks disabled() first; a loopback login does  *)
(* once it has its callback.  A forced refresh goes straight to the flights *)
(* map, the others to the store, an endpoint or the user.                   *)
Start(c, o, disabled) ==
  /\ pc[c] = "idle"
  /\ op' = [op EXCEPT ![c] = o]
  /\ IF disabled /\ o \notin {"logout", "loopback"}
       THEN Return(c, FailsWith("disabled"))
       ELSE Continue(c, CASE o = "get"    -> "getLoad"
                          [] o = "force"  -> "join"
                          [] o = "logout" -> "delete"
                          [] o = "device" -> "devStart"
                          [] o = "loopback" -> "loopOpen"
                          [] OTHER        -> "exchange")
  /\ UNCHANGED <<rec, server, stale, flights, joined>>

(* getTokenSet without force: one load decides between failing, answering   *)
(* with the stored token and asking for a refresh.                          *)
GetLoad(c) ==
  /\ pc[c] = "getLoad"
  /\ CASE ~Present(rec) \/ rec.q -> Return(c, FailsWith("reauth"))
       [] Present(rec) /\ ~rec.q /\ ~stale -> Return(c, Gets(rec, FALSE))
       [] OTHER -> Continue(c, "join")
  /\ UNCHANGED <<rec, server, stale, flights, op, joined>>

(* Mutant: a forced caller that finds an unforced flight starts its own.    *)
JoinForcedAlone(c) ==
  /\ pc[c] = "join"
  /\ LET f == flights[Home[c]]
     IN  IF f # NoCall /\ (Forced(c) => Forced(f))
           THEN /\ joined' = [joined EXCEPT ![c] = f]
                /\ Continue(c, "wait") /\ UNCHANGED flights
           ELSE /\ flights' = [flights EXCEPT ![Home[c]] = c]
                /\ Continue(c, "flLoad") /\ UNCHANGED joined
  /\ UNCHANGED <<rec, server, stale, op>>

(* Mutant: no flights map, every caller refreshes.                          *)
JoinNoMap(c) ==
  /\ pc[c] = "join"
  /\ flights' = [flights EXCEPT ![Home[c]] = c]
  /\ Continue(c, "flLoad")
  /\ UNCHANGED <<rec, server, stale, op, joined>>

(* inFlight: await the flight in the map, or become its leader.  What a      *)
(* forced caller makes of an unforced flight is decided when it settles.    *)
Join(c) ==
  /\ pc[c] = "join"
  /\ IF flights[Home[c]] # NoCall
       THEN /\ joined' = [joined EXCEPT ![c] = flights[Home[c]]]
            /\ Continue(c, "wait")
            /\ UNCHANGED flights
       ELSE /\ flights' = [flights EXCEPT ![Home[c]] = c]
            /\ Continue(c, "flLoad")
            /\ UNCHANGED joined
  /\ UNCHANGED <<rec, server, stale, op>>

Logout(c) ==
  /\ pc[c] = "delete"
  /\ rec' = NoRecord
  /\ kept' = [d \in Calls |-> kept[d] /\ ~Present(rec)]
  /\ Goto(c, "done")
  /\ UNCHANGED <<server, stale, flights, op, joined, cur, nxt, attempt, res>>

-----------------------------------------------------------------------------
(* A flight: refreshOne, run by the call that leads it *)

FlightLoad(c) ==
  /\ pc[c] = "flLoad"
  /\ CASE ~Present(rec) \/ rec.q -> Finish(c, FailsWith("reauth"))
       [] Present(rec) /\ ~rec.q /\ ~Forced(c) /\ ~stale -> Finish(c, Gets(rec, FALSE))
       [] OTHER -> /\ cur' = [cur EXCEPT ![c] = rec]
                   /\ kept' = [kept EXCEPT ![c] = TRUE]
                   /\ Goto(c, "flPost")
                   /\ UNCHANGED <<nxt, attempt, res>>
  /\ UNCHANGED <<rec, server, stale, flights, op, joined>>

(* The endpoint honours the refresh token; it may rotate it or keep it.     *)
RefreshSucceeds(c, rotates) ==
  /\ pc[c] = "flPost"
  /\ Live(cur[c].rt)
  /\ issued' = issued + 1
  /\ spent' = IF rotates THEN spent \cup {cur[c].rt} ELSE spent
  /\ nxt' = [nxt EXCEPT ![c] = [at  |-> issued + 1,
                                rt  |-> IF rotates THEN issued + 1 ELSE cur[c].rt,
                                ver |-> cur[c].ver + 1, q |-> FALSE]]
  /\ Goto(c, "flCas")
  /\ UNCHANGED <<rec, revoked, stale, flights, op, joined, cur, attempt, res, kept>>

(* The attempt ends without an answer the client can use.  Network errors,  *)
(* 5xx and 429 are retried up to three attempts in all; a malformed 2xx and *)
(* a 4xx that is not terminal are not.                                      *)
AttemptFails(c, retriable) ==
  IF retriable /\ attempt[c] < 2
    THEN attempt' = [attempt EXCEPT ![c] = @ + 1] /\ UNCHANGED <<pc, cur, nxt, res, kept>>
    ELSE Finish(c, FailsWith("failed"))

RefreshFails(c, retriable) ==
  /\ pc[c] = "flPost"
  /\ AttemptFails(c, retriable)
  /\ UNCHANGED <<rec, server, stale, flights, op, joined>>

(* The endpoint rotated the token, and the answer is lost or unreadable.    *)
RefreshAnswerLost(c, retriable) ==
  /\ "lost" \in Faults
  /\ pc[c] = "flPost"
  /\ Live(cur[c].rt)
  /\ issued' = issued + 1
  /\ spent' = spent \cup {cur[c].rt}
  /\ AttemptFails(c, retriable)
  /\ UNCHANGED <<rec, revoked, stale, flights, op, joined>>

(* A terminal answer: the token is spent, or the endpoint revoked it.       *)
RefreshRejected(c) ==
  /\ pc[c] = "flPost"
  /\ \/ ~Live(cur[c].rt) /\ UNCHANGED revoked
     \/ "revoke" \in Faults /\ revoked' = revoked \cup {cur[c].rt}
  /\ Continue(c, "flQuarantine")
  /\ UNCHANGED <<rec, issued, spent, stale, flights, op, joined>>

(* Mutants: the store writes without comparing; it stores r under the       *)
(* version it replaces.                                                     *)
SwapBlindly(expected, r) ==
  /\ rec' = [r EXCEPT !.ver = expected + 1]
  /\ stale' = FALSE
SwapKeepsVersion(expected, r) ==
  /\ rec.ver = expected
  /\ rec' = [r EXCEPT !.ver = IF Present(rec) THEN expected ELSE 1]
  /\ stale' = FALSE

(* compareAndSwap(subject, expected, r) succeeds: the store numbers r itself. *)
Swap(expected, r) ==
  /\ rec.ver = expected
  /\ rec' = [r EXCEPT !.ver = expected + 1]
  /\ stale' = FALSE

Adopt == IF Present(rec) /\ ~rec.q THEN Gets(rec, TRUE) ELSE FailsWith("reauth")

(* Mutant: a refresh that lost its CAS hands out its own answer.             *)
RefreshCasKeepsAnswer(c) ==
  /\ pc[c] = "flCas"
  /\ \/ Swap(cur[c].ver, nxt[c])
     \/ rec.ver # cur[c].ver /\ UNCHANGED <<rec, stale>>
  /\ Finish(c, Gets(nxt[c], TRUE))
  /\ UNCHANGED <<server, flights, op, joined>>

(* A CAS that loses discards the response and takes what the store holds.   *)
RefreshCas(c) ==
  /\ pc[c] = "flCas"
  /\ \/ Swap(cur[c].ver, nxt[c]) /\ Finish(c, Gets(nxt[c], TRUE))
     \/ rec.ver # cur[c].ver /\ Finish(c, Adopt) /\ UNCHANGED <<rec, stale>>
  /\ UNCHANGED <<server, flights, op, joined>>

QuarantineCas(c) ==
  /\ pc[c] = "flQuarantine"
  /\ \/ Swap(cur[c].ver, [cur[c] EXCEPT !.q = TRUE]) /\ Finish(c, FailsWith("reauth"))
     \/ rec.ver # cur[c].ver /\ Finish(c, Adopt) /\ UNCHANGED <<rec, stale>>
  /\ UNCHANGED <<server, flights, op, joined>>

(* The leader leaves the map, then every caller of the flight gets its      *)
(* outcome; a forced caller of a flight that skipped the network asks again. *)
Awaits(d, c) == d = c \/ (pc[d] = "wait" /\ joined[d] = c)
NeverAsksAgain(d, c) == FALSE    \* mutant: any flight will do
AsksAgain(d, c) ==
  Forced(d) /\ ~Forced(c) /\ res[c].kind = "token" /\ ~res[c].refreshed

SettleLeavesMap(c) ==    \* mutant: the finally clause is missing
  /\ pc[c] = "settle"
  /\ pc' = [d \in Calls |-> IF ~Awaits(d, c) THEN pc[d]
                            ELSE IF AsksAgain(d, c) THEN "join" ELSE "done"]
  /\ res' = [d \in Calls |-> IF Awaits(d, c) /\ ~AsksAgain(d, c) THEN res[c] ELSE res[d]]
  /\ UNCHANGED <<rec, server, stale, flights, op, joined, locals>>

Settle(c) ==
  /\ pc[c] = "settle"
  /\ flights' = [flights EXCEPT ![Home[c]] = IF @ = c THEN NoCall ELSE @]
  /\ pc' = [d \in Calls |-> IF ~Awaits(d, c) THEN pc[d]
                            ELSE IF AsksAgain(d, c) THEN "join" ELSE "done"]
  /\ res' = [d \in Calls |-> IF Awaits(d, c) /\ ~AsksAgain(d, c) THEN res[c] ELSE res[d]]
  /\ UNCHANGED <<rec, server, stale, op, joined, locals>>

-----------------------------------------------------------------------------
(* A device login: startDeviceLogin, and the wait() its caller goes on to *)

Moves(c, from, to) ==
  /\ pc[c] = from
  /\ Continue(c, to)
  /\ UNCHANGED <<rec, server, stale, flights, op, joined>>

Stops(c, from, outcome) ==
  /\ pc[c] = from
  /\ Return(c, outcome)
  /\ UNCHANGED <<rec, server, stale, flights, op, joined>>

DeviceStarted(c) == Moves(c, "devStart", "devSleep")

(* Each turn of the loop sleeps for the interval, and ends at the deadline; *)
(* a poll that is under way then is still waited for.                       *)
DevicePolls(c)   == Moves(c, "devSleep", "devPoll")
DeviceExpires(c) == Stops(c, "devSleep", FailsWith("auth"))

(* authorization_pending, slow_down, 403 and 404.                           *)
DevicePending(c) == Moves(c, "devPoll", "devSleep")

DeviceAuthorized(c) == Moves(c, "devPoll", "exchange")

(* Everything else ends the login: no network, an error, an answer without  *)
(* what it should have.                                                     *)
DeviceFails(c) ==
  \E from \in {"devStart", "devPoll"}, kind \in {"failed", "auth"} : Stops(c, from, FailsWith(kind))

DeviceStep(c) ==
  \/ DeviceStarted(c) \/ DevicePolls(c) \/ DevicePending(c)
  \/ DeviceAuthorized(c) \/ DeviceExpires(c) \/ DeviceFails(c)

-----------------------------------------------------------------------------
(* A loopback login: the listener runs while open() shows the URL *)

(* A process dies with its calls and its flights map; the store survives.   *)
Dies(p) ==
  /\ pc' = [c \in Calls |-> IF Home[c] = p /\ pc[c] \notin {"idle", "done"}
                              THEN "crashed" ELSE pc[c]]
  /\ flights' = [flights EXCEPT ![p] = NoCall]
  /\ UNCHANGED <<rec, server, stale, op, joined, res, locals>>

(* The callback may come before open() is done.                             *)
CallbackEarly(c) == Moves(c, "loopOpen", "loopGot")
Opened(c)        == Moves(c, "loopOpen", "loopWait")

(* open() throws.  A listener that still waits is left to itself.           *)
OpenFails(c) ==
  \/ Stops(c, "loopGot", FailsWith("failed"))
  \/ /\ pc[c] = "loopOpen"
     /\ End(c, "abandoned", FailsWith("failed"))
     /\ UNCHANGED <<rec, server, stale, flights, op, joined>>

(* completeLogin, with the callback.                                        *)
CallbackTaken(c, disabled) ==
  \E from \in {"loopWait", "loopGot"} :
    IF disabled THEN Stops(c, from, FailsWith("disabled")) ELSE Moves(c, from, "exchange")

(* The user declined, the port is taken, or five minutes have passed.  A    *)
(* rejection nobody awaits, or nobody awaits yet, ends the process.         *)
ListenerFails(c) ==
  \/ \E kind \in {"failed", "auth"} : Stops(c, "loopWait", FailsWith(kind))
  \/ pc[c] \in {"loopOpen", "abandoned"} /\ Dies(Home[c])

CallbackUnwanted(c) == Moves(c, "abandoned", "done")

LoopbackStep(c) ==
  \/ CallbackEarly(c) \/ Opened(c) \/ OpenFails(c)
  \/ \E disabled \in SwitchAnswers : CallbackTaken(c, disabled)
  \/ ListenerFails(c) \/ CallbackUnwanted(c)

-----------------------------------------------------------------------------
(* A login: completeLogin, and the end of a device login, then persistFresh *)

(* The authorization code is exchanged.  A device login has waited for      *)
(* minutes and asks disabled() again before it persists.                    *)
CodeExchanged(c, disabled) ==
  /\ pc[c] = "exchange"
  /\ issued' = issued + 1
  /\ IF op[c] = "device" /\ disabled
       THEN Return(c, FailsWith("disabled"))
       ELSE /\ nxt' = [nxt EXCEPT ![c] = [at |-> issued + 1, rt |-> issued + 1,
                                          ver |-> 1, q |-> FALSE]]
            /\ Goto(c, "freshLoad")
            /\ UNCHANGED <<cur, attempt, res, kept>>
  /\ UNCHANGED <<rec, spent, revoked, stale, flights, op, joined>>

CodeRejected(c) ==
  /\ pc[c] = "exchange"
  /\ Return(c, FailsWith("auth"))
  /\ UNCHANGED <<rec, server, stale, flights, op, joined>>

FreshLoad(c) ==
  /\ pc[c] = "freshLoad"
  /\ cur' = [cur EXCEPT ![c] = rec]
  /\ kept' = [kept EXCEPT ![c] = TRUE]
  /\ nxt' = [nxt EXCEPT ![c].ver = rec.ver + 1]
  /\ Goto(c, "freshCas")
  /\ UNCHANGED <<rec, server, stale, flights, op, joined, attempt, res>>

FreshCas(c) ==
  /\ pc[c] = "freshCas"
  /\ \/ Swap(cur[c].ver, nxt[c]) /\ Return(c, Gets(nxt[c], TRUE))
     \/ /\ rec.ver # cur[c].ver
        /\ Return(c, IF Present(rec) THEN Gets(rec, TRUE) ELSE FailsWith("auth"))
        /\ UNCHANGED <<rec, stale>>
  /\ UNCHANGED <<server, flights, op, joined>>

-----------------------------------------------------------------------------
(* The environment *)

(* A store operation throws before it takes effect.                         *)
StoreFails(c) ==
  /\ "store" \in Faults
  /\ \/ pc[c] \in {"flLoad", "flCas", "flQuarantine"} /\ Finish(c, FailsWith("failed"))
     \/ pc[c] \in {"getLoad", "freshLoad", "freshCas", "delete"} /\ Return(c, FailsWith("failed"))
  /\ UNCHANGED <<rec, server, stale, flights, op, joined>>

Expire ==
  /\ Present(rec) /\ ~stale
  /\ stale' = TRUE
  /\ UNCHANGED <<rec, server, flights, pc, op, joined, res, locals>>

Crash(p) ==
  /\ "crash" \in Faults
  /\ \E c \in Calls : Home[c] = p /\ pc[c] \notin {"idle", "done", "crashed"}
  /\ Dies(p)

-----------------------------------------------------------------------------
Post(c) ==
  \/ \E rotates \in BOOLEAN : RefreshSucceeds(c, rotates)
  \/ \E retriable \in BOOLEAN : RefreshFails(c, retriable) \/ RefreshAnswerLost(c, retriable)
  \/ RefreshRejected(c)

(* A call that was started runs on: the process schedules it, the store and *)
(* the endpoint settle every request.                                       *)
Step(c) ==
  \/ GetLoad(c) \/ Join(c) \/ Logout(c)
  \/ FlightLoad(c) \/ Post(c) \/ RefreshCas(c) \/ QuarantineCas(c) \/ Settle(c)
  \/ DeviceStep(c) \/ LoopbackStep(c)
  \/ \E disabled \in SwitchAnswers : CodeExchanged(c, disabled)
  \/ CodeRejected(c) \/ FreshLoad(c) \/ FreshCas(c)
  \/ StoreFails(c)

Environment ==
  \/ Expire
  \/ \E p \in Procs : Crash(p)

Next ==
  \/ \E c \in Calls : \/ Step(c)
                     \/ \E o \in Ops, disabled \in SwitchAnswers : Start(c, o, disabled)
  \/ Environment

Spec == Init /\ [][Next]_vars

(* A deadline passes, however often the device endpoint says "pending".     *)
FairSpec ==
  /\ Spec
  /\ \A c \in Calls : WF_vars(Step(c))
  /\ SF_vars(\E c \in Calls : DeviceExpires(c))

-----------------------------------------------------------------------------
(* What the lifecycle promises *)

InFlight(c) == pc[c] \in FlightPhases
Quarantined(r) == Present(r) /\ r.q

(* A call holds a loaded record it is about to act on. *)
HoldsLoaded(c) == pc[c] \in {"flPost", "flCas", "flQuarantine", "freshCas"}

(* A process runs at most one refresh at a time, it is the one in its       *)
(* flights map, and every waiting caller waits for that one: no second      *)
(* refresh spends the token and no caller is left behind by a cleared map   *)
(* (inFlight and its finally clause).                                       *)
Singleflight ==
  /\ \A c \in Calls : InFlight(c) => flights[Home[c]] = c
  /\ \A p \in Procs : flights[p] # NoCall => InFlight(flights[p]) /\ Home[flights[p]] = p
  /\ \A c \in Calls : pc[c] = "wait" => flights[Home[c]] = joined[c] /\ joined[c] \in Calls

(* As long as the row is not removed, its version identifies its content:   *)
(* a call whose expected version still matches holds exactly what is        *)
(* stored.  This is what a compare-and-swap on the version relies on.       *)
VersionIdentifiesGeneration ==
  \A c \in Calls : HoldsLoaded(c) /\ kept[c] =>
    /\ cur[c].ver <= rec.ver
    /\ cur[c].ver = rec.ver => cur[c] = rec

(* The refresh or the quarantine marker a flight writes replaces the very   *)
(* generation the flight loaded, unless the row was removed in between.     *)
FlightWrote(c) == pc[c] \in {"flCas", "flQuarantine"} /\ pc'[c] # pc[c] /\ rec' # rec
WritesReplaceLoaded ==
  [][\A c \in Calls : FlightWrote(c) /\ kept[c] => rec = cur[c]]_vars

(* No refresh clears a quarantine: while the row is not removed, only a     *)
(* fresh login replaces a quarantined record.                               *)
QuarantineSticks ==
  [][\A c \in Calls : FlightWrote(c) /\ kept[c] => ~Quarantined(rec)]_vars

(* What a call or a flight ends with is the record the store holds at that  *)
(* moment: the answer of a refresh that lost its compare-and-swap, or that  *)
(* the store did not take, reaches nobody.  Joiners get what their flight   *)
(* ended with.                                                              *)
TokensComeFromStore ==
  [][\A c \in Calls : res'[c] # res[c] /\ res'[c].kind = "token" =>
       res'[c].tok = rec' \/ \E d \in Calls : res[d] = res'[c]]_vars

(* A forced refresh never settles for the token of a flight that skipped    *)
(* the network, whichever flight it joined on the way.                      *)
ForcedWentToNetwork ==
  \A c \in Calls :
    pc[c] = "done" /\ Forced(c) /\ res[c].kind = "token" => res[c].refreshed

(* A user is asked to sign in again only when the endpoint revoked the      *)
(* credential, never because this library spent its own refresh token       *)
(* twice.                                                                   *)
OnlyRevokedQuarantined == Quarantined(rec) => rec.rt \in revoked

(* Every call comes back: the flight it leads or waits for settles, a       *)
(* forced caller that has to ask again gets its turn, and a device login    *)
(* ends by its deadline.                                                    *)
EveryCallReturns ==
  \A c \in Calls : pc[c] # "idle" ~> pc[c] \in {"done", "crashed", "abandoned"}

=============================================================================
