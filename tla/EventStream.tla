----------------------------- MODULE EventStream -----------------------------
(***************************************************************************)
(* Server-sent events as typescript/src/core/sse.ts frames them, on texts  *)
(* that are sequences of tokens: the two line-end characters, and words,   *)
(* each the content of one "data:" line.  The first half translates the    *)
(* code; the second says what the events of a whole text are, reading it   *)
(* once, one token after the other.                                        *)
(***************************************************************************)
EXTENDS Naturals, Sequences, SequencesExt

CONSTANTS
  Words,   \* the data lines
  Done     \* "data: [DONE]", one of them

ASSUME WordsAssumption == Done \in Words /\ Words \cap {"CR", "LF"} = {}

CR == "CR"
LF == "LF"
Tokens == Words \cup {CR, LF}
EndsInCR(text) == text # <<>> /\ Last(text) = CR

------------------------------------------------------------------------------
(* The two replaceAlls: CRLF and CR become LF,                             *)
AllNormal[raw \in Seq(Tokens)] ==
  IF raw = <<>> THEN <<>>
  ELSE LET before == Front(raw) IN
         IF Last(raw) = LF /\ EndsInCR(before) THEN AllNormal[before]
         ELSE Append(AllNormal[before], IF Last(raw) = CR THEN LF ELSE Last(raw))

(* but for a CR that is the last character so far, whose LF may be still to *)
(* come.                                                                   *)
Normalized(raw, final) ==
  IF EndsInCR(raw) /\ ~final THEN Append(AllNormal[Front(raw)], CR) ELSE AllNormal[raw]

(* buffer.indexOf("\n\n", from), counting from 1; 0 if there is none.      *)
Boundary(buffer, from) ==
  LET at == {i \in DOMAIN buffer :
               i > from /\ i < Len(buffer) /\ buffer[i] = LF /\ buffer[i + 1] = LF}
  IN IF at = {} THEN 0 ELSE CHOOSE i \in at : \A j \in at : i <= j

(* parseBlock: the lines of a block, and those with data; <<>> is its null.*)
Pushed(lines) ==
  [line |-> <<>>, data |-> IF lines.line = <<>> THEN lines.data ELSE Append(lines.data, lines.line)]

LinesOf[block \in Seq(Tokens)] ==
  IF block = <<>> THEN [line |-> <<>>, data |-> <<>>]
  ELSE LET before == LinesOf[Front(block)] IN
         IF Last(block) = LF THEN Pushed(before)
         ELSE [before EXCEPT !.line = Append(@, Last(block))]

ParsedBlock(block) == Pushed(LinesOf[block]).data

Is(event, word) == event = <<<<word>>>>

------------------------------------------------------------------------------
(* The events of a text: lines end at CRLF, CR or LF, a blank line ends an *)
(* event, and nothing counts after [DONE].                                 *)
NothingRead == [cr |-> FALSE, line |-> <<>>, data |-> <<>>, events |-> <<>>, over |-> FALSE]

EndOfLine(seen) ==
  IF seen.line # <<>> THEN [seen EXCEPT !.line = <<>>, !.data = Append(@, seen.line)]
  ELSE IF Is(seen.data, Done) THEN [seen EXCEPT !.data = <<>>, !.over = TRUE]
  ELSE IF seen.over \/ seen.data = <<>> THEN [seen EXCEPT !.data = <<>>]
  ELSE [seen EXCEPT !.data = <<>>, !.events = Append(@, seen.data)]

Taken(seen, token) ==
  IF token \notin {CR, LF} THEN [seen EXCEPT !.line = Append(@, token), !.cr = FALSE]
  ELSE IF token = LF /\ seen.cr THEN [seen EXCEPT !.cr = FALSE]
  ELSE [EndOfLine(seen) EXCEPT !.cr = (token = CR)]

Seen[text \in Seq(Tokens)] ==
  IF text = <<>> THEN NothingRead ELSE Taken(Seen[Front(text)], Last(text))

(* Closed: those a blank line has ended.                                   *)
EventsOf(text, closed) ==
  IF closed THEN Seen[text].events ELSE EndOfLine(EndOfLine(Seen[text])).events

==============================================================================
