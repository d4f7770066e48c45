------------------------------ MODULE ApiClient ------------------------------
(***************************************************************************)
(* A call of the subscription's HTTP endpoints: the direct client          *)
(* (core/client.ts: stream(), and respond(), a consumer of it that never   *)
(* stops), the provider for the AI SDK (ai-sdk/index.ts: generate and      *)
(* streamText), images (images/generate.ts) and the signalling of a        *)
(* gpt-live call (realtime/call.ts).  All of them retry once on 401 with a *)
(* forced refresh; stream and generate read the body as server-sent events,*)
(* in whatever chunks it comes.                                            *)
(*                                                                         *)
(* A step goes from one await (or yield) to the next.  Token sets are      *)
(* counted as they are stored, by a refresh of this process (the flight of *)
(* core/lifecycle.ts, which all its calls share), by a login or by another *)
(* replica.  (ClientInit, ClientNext...: the proofs extend this module     *)
(* beside that of the live call.)                                          *)
(***************************************************************************)
EXTENDS EventStream, FiniteSets

CONSTANTS
  Completed,    \* the data of "response.completed"
  MaxText,      \* the tokens of a body
  MaxChunk,     \* the tokens of a chunk
  MaxVersions   \* the token sets

ASSUME ClientAssumption ==
  /\ Completed \in Words \ {Done}
  /\ MaxText \in Nat /\ MaxChunk \in Nat \ {0} /\ MaxVersions \in Nat \ {0}

Kinds == {"stream", "generate", "streamText", "image", "edit", "live"}

VARIABLES
  request,   \* the call: kind, where it stands, its outcome
  retry,     \* withAuthRetry: forced or not, its token set, those refused; history: what the flight it is from had loaded
  stream,    \* parseSSE over the body
  flight,    \* the flight of the subject: forced or not, the token set it loaded
  tokens     \* the stored token set, whether it is fresh, and the first one the backend accepts

ClientVars == <<request, retry, stream, flight, tokens>>

Events == stream.events
NoRetry == [forced |-> FALSE, token |-> 0, from |-> 0, refused |-> <<>>]
NoFlight == [pc |-> "none", forced |-> FALSE, loaded |-> 0]
FirstSession == [current |-> 1, fresh |-> TRUE, valid |-> 1]
NoStream == [body |-> <<>>, got |-> 0, final |-> FALSE, buffer |-> <<>>, from |-> 0, events |-> <<>>]

ClientTypeOK ==
  /\ request.kind \in Kinds \cup {"none"}
  /\ request.pc \in {"none", "token", "flight", "request", "body", "reading", "framing", "over"}
  /\ retry.forced \in BOOLEAN /\ Len(retry.refused) <= 2
  /\ retry.token \in 0..MaxVersions /\ retry.from \in 0..MaxVersions
  /\ flight \in [pc: {"none", "load", "post"}, forced: BOOLEAN, loaded: 0..MaxVersions]
  /\ stream.got \in 0..Len(stream.body)
  /\ tokens.current \in 1..MaxVersions /\ tokens.fresh \in BOOLEAN /\ tokens.valid \in 1..(MaxVersions + 1)

ClientInit ==
  /\ request = [kind |-> "none", pc |-> "none", outcome |-> "none"]
  /\ retry = NoRetry
  /\ stream = NoStream
  /\ flight = NoFlight
  /\ tokens = FirstSession

Over(outcome) == [request EXCEPT !.pc = "over", !.outcome = outcome]

------------------------------------------------------------------------------
(* The caller: respond() and stream(); the SDK's fetch, whose request is    *)
(* rewritten to a stream, for generate or streamText; an image; an edit,   *)
(* refused on the spot without an image to edit; the offer of a live call. *)
Starts(kinds) ==
  /\ request.pc = "none"
  /\ \E kind \in kinds : request' = [request EXCEPT !.kind = kind, !.pc = "token"]
  /\ UNCHANGED <<retry, stream, flight, tokens>>

StreamCalled == Starts({"stream"})
SdkCalled == Starts({"generate", "streamText"})
ImageCalled == Starts({"image"})
LiveCalled == Starts({"live"})

EditCalled ==
  \/ Starts({"edit"})
  \/ /\ request.pc = "none"
     /\ request' = [Over("transport") EXCEPT !.kind = "edit"]
     /\ UNCHANGED <<retry, stream, flight, tokens>>

(* getTokenSet, not forced: the row is loaded.  If it is fresh, that is it; *)
(* else the call joins the flight in the map, or creates one (inFlight).   *)
JoinsFlight(forced) ==
  flight' = IF flight.pc = "none" THEN [NoFlight EXCEPT !.pc = "load", !.forced = forced] ELSE flight

Gets(version, loaded) ==
  /\ request' = [request EXCEPT !.pc = "request"]
  /\ retry' = [retry EXCEPT !.token = version, !.from = loaded]

TokenGiven ==
  /\ request.pc = "token" /\ tokens.fresh
  /\ Gets(tokens.current, tokens.current)
  /\ UNCHANGED <<stream, flight, tokens>>

TokenStale ==
  /\ request.pc = "token" /\ ~tokens.fresh
  /\ request' = [request EXCEPT !.pc = "flight"]
  /\ JoinsFlight(FALSE)
  /\ UNCHANGED <<retry, stream, tokens>>

(* No row, a quarantined one, the kill switch.                             *)
SessionThrows ==
  /\ request.pc = "token"
  /\ request' = Over("signed out")
  /\ UNCHANGED <<retry, stream, flight, tokens>>

(* fetch rejects: no network, or the caller's signal.                      *)
RequestFails ==
  /\ request.pc = "request"
  /\ request' = Over("transport")
  /\ UNCHANGED <<retry, stream, flight, tokens>>

(* The retry is forced: it joins whatever flight there is.                 *)
Retries ==
  IF retry.forced
  THEN /\ request' = Over("rejected")
       /\ retry' = [retry EXCEPT !.refused = Append(@, retry.token)]
       /\ UNCHANGED flight
  ELSE \/ /\ request' = [request EXCEPT !.pc = "flight"]
          /\ retry' = [retry EXCEPT !.forced = TRUE, !.refused = <<retry.token>>]
          /\ JoinsFlight(TRUE)
       \/ /\ request' = Over("signed out")          \* the kill switch
          /\ UNCHANGED <<retry, flight>>

(* 401.                                                                    *)
Unauthorized ==
  /\ request.pc = "request"
  /\ retry.token < tokens.valid
  /\ Retries
  /\ UNCHANGED <<stream, tokens>>

------------------------------------------------------------------------------
(* The flight (refreshOne), this call's or another's: it loads the row, and*)
(* posts, unless it is not forced and finds the row fresh by now.          *)
Waits == request.pc = "flight"
Settles(version) ==
  IF Waits THEN Gets(version, flight.loaded) ELSE UNCHANGED <<request, retry>>

FlightLoads ==
  /\ flight.pc = "load"
  /\ flight.forced \/ ~tokens.fresh
  /\ flight' = [flight EXCEPT !.pc = "post", !.loaded = tokens.current]
  /\ UNCHANGED <<request, retry, stream, tokens>>

(* Mutant: a forced caller settles on it.                                  *)
SkipsForAll ==
  /\ flight.pc = "load"
  /\ ~flight.forced /\ tokens.fresh
  /\ flight' = NoFlight
  /\ IF Waits THEN Gets(tokens.current, tokens.current) ELSE UNCHANGED <<request, retry>>
  /\ UNCHANGED <<stream, tokens>>

(* A forced caller does not settle on it and asks again, once it has left  *)
(* the map.                                                                *)
FlightSkips ==
  /\ flight.pc = "load"
  /\ ~flight.forced /\ tokens.fresh
  /\ IF Waits /\ retry.forced
       THEN flight' = [NoFlight EXCEPT !.pc = "load", !.forced = TRUE] /\ UNCHANGED <<request, retry>>
       ELSE /\ flight' = NoFlight
            /\ IF Waits THEN Gets(tokens.current, tokens.current) ELSE UNCHANGED <<request, retry>>
  /\ UNCHANGED <<stream, tokens>>

(* The answer is stored if the row is what was loaded; else the flight     *)
(* adopts the row (so does one that was refused, and lost its quarantine), *)
(* which may be what the backend has just refused.                         *)
FlightStores ==
  /\ flight.pc = "post" /\ flight.loaded = tokens.current
  /\ tokens.current < MaxVersions
  /\ tokens' = [tokens EXCEPT !.current = @ + 1, !.fresh = TRUE]
  /\ Settles(tokens.current + 1)
  /\ flight' = NoFlight
  /\ UNCHANGED stream

FlightAdopts ==
  /\ flight.pc = "post" /\ flight.loaded # tokens.current
  /\ Settles(tokens.current)
  /\ flight' = NoFlight
  /\ UNCHANGED <<stream, tokens>>

(* No row, a quarantine, a token endpoint out of reach.                    *)
FlightFails ==
  /\ flight.pc # "none"
  /\ request' = IF Waits THEN Over("signed out") ELSE request
  /\ flight' = NoFlight
  /\ UNCHANGED <<retry, stream, tokens>>

------------------------------------------------------------------------------
(* Any other answer.  A 429 has its own error.  The locals of withAuthRetry *)
(* are gone; nor does the session matter from here on: it is set back, to  *)
(* bound the states.                                                       *)
AnsweredTo(kinds) ==
  /\ request.pc = "request" /\ request.kind \in kinds
  /\ retry.token >= tokens.valid
  /\ retry' = NoRetry /\ flight' = NoFlight /\ tokens' = FirstSession

Bodies == UNION {[1..n -> Tokens] : n \in 0..MaxText}

Accepted == request' = [request EXCEPT !.pc = "body"] /\ UNCHANGED stream

(* The body that follows.                                                  *)
Reads ==
  /\ request.pc = "body"
  /\ \E body \in Bodies : stream' = [NoStream EXCEPT !.body = body]
  /\ request' = [request EXCEPT !.pc = "reading"]
  /\ UNCHANGED <<retry, flight, tokens>>

(* send().                                                                 *)
StreamRefused ==
  /\ AnsweredTo({"stream"})
  /\ \E outcome \in {"limited", "transport"} : request' = Over(outcome)
  /\ UNCHANGED stream

StreamAccepted == AnsweredTo({"stream"}) /\ Accepted

(* authFetch collapses an answer that is fine and was not to be a stream;  *)
(* the SDK reads the others itself.                                        *)
SdkAnswered ==
  /\ AnsweredTo({"generate", "streamText"})
  /\ \/ request.kind = "generate" /\ Accepted
     \/ request' = Over("passed on") /\ UNCHANGED stream

(* An image is awaited whole, and may not parse.  403 is about the plan.   *)
ImageAnswered ==
  /\ AnsweredTo({"image", "edit"})
  /\ \E outcome \in {"limited", "rejected plan", "transport", "returned", "raw error"} : request' = Over(outcome)
  /\ UNCHANGED stream

(* So is the SDP answer, whose connection may break.  403 is about the     *)
(* shape of the session.                                                   *)
LiveAnswered ==
  /\ AnsweredTo({"live"})
  /\ \E outcome \in {"limited", "rejected shape", "transport", "returned", "raw error"} : request' = Over(outcome)
  /\ UNCHANGED stream

------------------------------------------------------------------------------
(* Mutant: the search starts at the join.                                  *)
JoinedLate(chunk, final) ==
  LET pendingCr == EndsInCR(stream.buffer)
      kept == IF pendingCr THEN Front(stream.buffer) ELSE stream.buffer
      raw == IF pendingCr THEN <<CR>> \o chunk ELSE chunk
  IN [stream EXCEPT !.got = @ + Len(chunk), !.final = final,
                    !.buffer = kept \o Normalized(raw, final),
                    !.from = Len(kept)]

(* parseSSE: a chunk joins the buffer, the CR held back from the last one  *)
(* first; the search for a boundary starts one character before the join.  *)
Joined(chunk, final) ==
  LET pendingCr == EndsInCR(stream.buffer)
      kept == IF pendingCr THEN Front(stream.buffer) ELSE stream.buffer
      raw == IF pendingCr THEN <<CR>> \o chunk ELSE chunk
  IN [stream EXCEPT !.got = @ + Len(chunk), !.final = final,
                    !.buffer = kept \o Normalized(raw, final),
                    !.from = IF kept = <<>> THEN 0 ELSE Len(kept) - 1]

Read(n) ==
  /\ request.pc = "reading"
  /\ stream.got + n <= Len(stream.body)
  /\ stream' = Joined(SubSeq(stream.body, stream.got + 1, stream.got + n), FALSE)
  /\ request' = [request EXCEPT !.pc = "framing"]
  /\ UNCHANGED <<retry, flight, tokens>>

ReadEnd ==
  /\ request.pc = "reading"
  /\ stream.got = Len(stream.body)
  /\ stream' = Joined(<<>>, TRUE)
  /\ request' = [request EXCEPT !.pc = "framing"]
  /\ UNCHANGED <<retry, flight, tokens>>

HasCompleted(events) == \E k \in DOMAIN events : Is(events[k], Completed)

(* Mutant: collapse() returns whatever came, like respond().               *)
EndedAnyhow(events, outcome) == Over(outcome)

(* How the call ends once the events have: respond() returns what came,    *)
(* collapse() wants the completed response.                                *)
Ended(events, outcome) ==
  Over(IF outcome = "returned" /\ request.kind = "generate" /\ ~HasCompleted(events)
       THEN "transport" ELSE outcome)

At == Boundary(stream.buffer, stream.from)
Rest == SubSeq(stream.buffer, At + 2, Len(stream.buffer))

(* Mutant: a block without data stays in the buffer.                       *)
FrameSkips ==
  /\ request.pc = "framing" /\ At # 0
  /\ LET event == ParsedBlock(SubSeq(stream.buffer, 1, At - 1)) IN
       IF Is(event, Done)
       THEN request' = Ended(Events, "returned") /\ stream' = [stream EXCEPT !.buffer = Rest]
       ELSE IF event = <<>> THEN UNCHANGED <<request, stream>>
       ELSE /\ stream' = [stream EXCEPT !.buffer = Rest, !.from = 0, !.events = Append(@, event)]
            /\ UNCHANGED request
  /\ UNCHANGED <<retry, flight, tokens>>

(* One turn of the loop: a block leaves the buffer, and its event, if it is*)
(* one, is yielded to a consumer that may stop there.                      *)
Frame ==
  /\ request.pc = "framing" /\ At # 0
  /\ LET event == ParsedBlock(SubSeq(stream.buffer, 1, At - 1)) IN
       IF Is(event, Done)
       THEN request' = Ended(Events, "returned") /\ stream' = [stream EXCEPT !.buffer = Rest]
       ELSE /\ stream' = [stream EXCEPT !.buffer = Rest, !.from = 0,
                                        !.events = IF event = <<>> THEN @ ELSE Append(@, event)]
            /\ \/ UNCHANGED request
               \/ request.kind = "stream" /\ event # <<>> /\ request' = Ended(Events, "stopped")
  /\ UNCHANGED <<retry, flight, tokens>>

Framed ==
  /\ request.pc = "framing" /\ At = 0
  /\ IF ~stream.final THEN request' = [request EXCEPT !.pc = "reading"] /\ UNCHANGED stream
     ELSE LET final == ParsedBlock(stream.buffer)
              events == IF final = <<>> \/ Is(final, Done) THEN Events ELSE Append(Events, final)
          IN stream' = [stream EXCEPT !.events = events] /\ request' = Ended(events, "returned")
  /\ UNCHANGED <<retry, flight, tokens>>

(* The body breaks off.  collapse() has no catch: what it throws is fetch's*)
(* own error.                                                              *)
StreamFails ==
  /\ request.pc = "reading"
  /\ request' = Ended(Events, IF request.kind = "generate" THEN "raw error" ELSE "transport")
  /\ UNCHANGED <<retry, stream, flight, tokens>>

------------------------------------------------------------------------------
(* Elsewhere: other calls of the process want a flight, a login or another *)
(* replica stores a token set, time passes, the backend ceases to accept   *)
(* token sets; until the call has its answer.                              *)
Asking == request.pc \in {"none", "token", "flight", "request"}

OthersAsk ==
  /\ Asking
  /\ flight.pc = "none"
  /\ \E forced \in BOOLEAN : (forced \/ ~tokens.fresh) /\ JoinsFlight(forced)
  /\ UNCHANGED <<request, retry, stream, tokens>>

StoredElsewhere ==
  /\ Asking
  /\ tokens.current < MaxVersions
  /\ tokens' = [tokens EXCEPT !.current = @ + 1, !.fresh = TRUE]
  /\ UNCHANGED <<request, retry, stream, flight>>

GoesStale ==
  /\ Asking
  /\ tokens.fresh
  /\ tokens' = [tokens EXCEPT !.fresh = FALSE]
  /\ UNCHANGED <<request, retry, stream, flight>>

Expires ==
  /\ Asking
  /\ tokens.valid <= tokens.current
  /\ tokens' = [tokens EXCEPT !.valid = @ + 1]
  /\ UNCHANGED <<request, retry, stream, flight>>

Delivers == (\E n \in 1..MaxChunk : Read(n)) \/ ReadEnd \/ StreamFails

Work ==
  \/ TokenGiven \/ TokenStale \/ SessionThrows
  \/ RequestFails \/ Unauthorized
  \/ StreamRefused \/ StreamAccepted \/ SdkAnswered \/ ImageAnswered \/ LiveAnswered
  \/ Reads \/ Delivers \/ Frame \/ Framed

Flight == FlightLoads \/ FlightSkips \/ FlightStores \/ FlightAdopts \/ FlightFails

ClientNext ==
  \/ StreamCalled \/ SdkCalled \/ ImageCalled \/ EditCalled \/ LiveCalled
  \/ Work
  \/ Flight
  \/ Read(0)
  \/ OthersAsk \/ StoredElsewhere \/ GoesStale \/ Expires

(* Rows are loaded, refreshes and requests are answered or fail; a body    *)
(* delivers, ends or breaks off, if after some empty chunks.               *)
ClientSpec ==
  /\ ClientInit /\ [][ClientNext]_ClientVars
  /\ WF_ClientVars(Work) /\ WF_ClientVars(Flight) /\ SF_ClientVars(Delivers)

------------------------------------------------------------------------------
(* The events do not depend on how the body was cut into chunks: while the *)
(* stream is read they are those a blank line has ended in the text so far *)
(* (a CR at its end awaits its LF); at the end, those of the whole body.   *)
FramingIgnoresChunks ==
  LET text == SubSeq(stream.body, 1, stream.got)
      known == IF EndsInCR(text) THEN Front(text) ELSE text
  IN /\ request.pc = "reading" => Events = EventsOf(known, TRUE)
     /\ \/ request.kind = "stream" /\ request.outcome = "returned"
        \/ request.kind = "generate" /\ request.outcome \in {"returned", "transport"}
        => Events = EventsOf(stream.body, FALSE)

(* The SDK is given a response only if the body completed one: a body that *)
(* ends early, breaks off or stops at [DONE] before it is an error.        *)
OnlyCompletedIsReturned ==
  request.kind = "generate" /\ request.outcome = "returned" => HasCompleted(EventsOf(stream.body, FALSE))

(* The caller is told its sign-in was rejected only when the backend has   *)
(* refused two requests, the second with what a refresh of an older token  *)
(* set came to: a newer token set than the one refused first; or that very *)
(* one, if it was stored (by a login, by another replica) while the refresh*)
(* was under way, which the call then joined and which adopted it.  It is  *)
(* never sent away because the retry settled on the row as it was, on a    *)
(* flight that stayed off the network, or on something older.              *)
RejectedTwice ==
  request.outcome = "rejected" =>
    /\ Len(retry.refused) = 2
    /\ retry.refused[1] <= retry.refused[2]
    /\ retry.from < retry.refused[2]

(* Every call ends.                                                        *)
EveryCallEnds == request.pc \notin {"none", "over"} ~> request.pc = "over"

==============================================================================
