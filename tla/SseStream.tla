----------------------------- MODULE SseStream -----------------------------
(***************************************************************************)
(* One run of the agent as its caller reads it: `run` (client/agent.py)    *)
(* opens a streaming POST and yields what iter_sse_events                  *)
(* (streaming/sse.py) makes of its lines.                                  *)
(*                                                                         *)
(* The server may send any line at any time, end the body at any line, or  *)
(* lose the connection; the caller may stop reading.  A line is a record   *)
(* of its field and value; the value of a data line is one of the pieces   *)
(* of JSON the parser tells apart.                                         *)
(***************************************************************************)
EXTENDS Integers, SequencesExt

CONSTANTS
  Pieces,     \* values of data lines
  MaxLines    \* bound of the lines of a body

ASSUME LineAssumption == MaxLines \in Nat

VARIABLES
  phase,      \* the HTTP exchange: opening, streaming or how it ended
  received,   \* ghost: the lines read so far
  eventType, eventId, retryMs, dataBuf,    \* locals of iter_sse_events
  yielded     \* the events the caller got

block == <<eventType, eventId, retryMs, dataBuf>>
vars == <<phase, received, eventType, eventId, retryMs, dataBuf, yielded>>

\* The empty value, and what the parser's locals are when no line has set them.
NoText == ""
NoRetry == "none"

Line(field, value) == [field |-> field, value |-> value]
Blank == Line("blank", NoText)

Lines ==
  {Blank, Line("comment", NoText), Line("event", "CUSTOM"), Line("event", NoText),
   Line("id", "evt"), Line("retry", "3000"), Line("retry", "soon")}
  \cup {Line("data", p) : p \in Pieces}

-----------------------------------------------------------------------------
(* What the parser makes of a block *)

\* The pieces a data value can be: a JSON object with an event and a dictionary of
\* data, also in two halves, one whose event is empty and whose data is no
\* dictionary, one without an event, an array, brackets that do not parse, text.
AllPieces == {"done", "done-1st-half", "done-2nd-half", "untyped", "object", "array",
              "{malformed", "text", NoText}

OpensJson(p) == p \in AllPieces \ {"done-2nd-half", "text", NoText}

IsText(p) == p # NoText

\* What json.loads reads in data lines that open with a bracket: the line breaks
\* of empty lines are white space to it.
Parsed(buf) ==
  LET pieces == SelectSeq(buf, IsText)
  IN  CASE buf = <<>> \/ ~OpensJson(buf[1]) -> "none"
        [] OTHER ->
             CASE pieces \in {<<"done">>, <<"done-1st-half", "done-2nd-half">>} -> "event"
               [] pieces = <<"untyped">> -> "untyped"
               [] pieces = <<"object">> -> "object"
               [] pieces = <<"array">> -> "array"
               [] OTHER -> "error"

Data(form, buf) == [form |-> form, of |-> buf]

PayloadData(buf) ==
  CASE buf \in {<<>>, <<NoText>>} -> Data("empty", <<>>)
    [] Parsed(buf) = "event"  -> Data("inner", <<>>)
    [] Parsed(buf) = "object" -> Data("object", <<>>)
    [] Parsed(buf) \in {"untyped", "array"} -> Data("value", <<>>)
    [] OTHER -> Data("raw", buf)

\* The event's type: the payload's own, also an empty one, else that of the framing;
\* for an empty one "message".
PayloadType(framing, buf) ==
  CASE Parsed(buf) = "event" -> "DONE"
    [] Parsed(buf) # "event" /\ (Parsed(buf) = "untyped" \/ framing = NoText) -> "message"
    [] OTHER -> framing

BuildEvent(framing, id, retry, buf) ==
  [type |-> PayloadType(framing, buf), data |-> PayloadData(buf), id |-> id, retry |-> retry]

-----------------------------------------------------------------------------
(* The stream *)

Init ==
  /\ phase = "opening"
  /\ received = <<>> /\ yielded = <<>>
  /\ eventType = NoText /\ eventId = NoText /\ retryMs = NoRetry /\ dataBuf = <<>>

\* The answer's headers arrive: a 2xx opens the stream, anything else is raised.
Open ==
  /\ phase = "opening"
  /\ phase' \in {"streaming", "refused"}
  /\ UNCHANGED <<received, block, yielded>>

Receive(l) ==
  /\ phase = "streaming"
  /\ Len(received) < MaxLines
  /\ received' = Append(received, l)
  /\ UNCHANGED phase

ReadComment ==
  /\ Receive(Line("comment", NoText))
  /\ UNCHANGED <<block, yielded>>

ReadEvent ==
  \E l \in Lines :
    /\ l.field = "event" /\ Receive(l)
    /\ eventType' = l.value
    /\ UNCHANGED <<eventId, retryMs, dataBuf, yielded>>

ReadId ==
  \E l \in Lines :
    /\ l.field = "id" /\ Receive(l)
    /\ eventId' = l.value
    /\ UNCHANGED <<eventType, retryMs, dataBuf, yielded>>

\* Mutant: the value is not checked.
ReadRetry_Unchecked ==
  \E l \in Lines :
    /\ l.field = "retry" /\ Receive(l)
    /\ retryMs' = l.value
    /\ UNCHANGED <<eventType, eventId, dataBuf, yielded>>

\* A value int() rejects is passed over.
ReadRetry ==
  \E l \in Lines :
    /\ l.field = "retry" /\ Receive(l)
    /\ retryMs' = IF l.value = "soon" THEN retryMs ELSE l.value
    /\ UNCHANGED <<eventType, eventId, dataBuf, yielded>>

ReadData ==
  \E l \in Lines :
    /\ l.field = "data" /\ Receive(l)
    /\ dataBuf' = Append(dataBuf, l.value)
    /\ UNCHANGED <<eventType, eventId, retryMs, yielded>>

HasEvent == eventType # NoText \/ dataBuf # <<>>

Yield == yielded' = Append(yielded, BuildEvent(eventType, eventId, retryMs, dataBuf))

ReadBlank ==
  /\ Receive(Blank)
  /\ IF HasEvent
       THEN /\ Yield
            /\ eventType' = NoText /\ eventId' = NoText /\ retryMs' = NoRetry /\ dataBuf' = <<>>
       ELSE UNCHANGED <<block, yielded>>

\* The body ends: what is left is an event too.
EndOfBody ==
  /\ phase = "streaming"
  /\ phase' = "ended"
  /\ IF HasEvent THEN Yield ELSE UNCHANGED yielded
  /\ UNCHANGED <<received, block>>

\* Mutant: the rest of a broken stream is yielded as at the end of the body.
Broken_Flushes ==
  /\ phase \in {"opening", "streaming"}
  /\ phase' = "broken"
  /\ IF HasEvent THEN Yield ELSE UNCHANGED yielded
  /\ UNCHANGED <<received, block>>

\* The connection fails or times out, and the exception reaches the caller.
Broken ==
  /\ phase \in {"opening", "streaming"}
  /\ phase' = "broken"
  /\ UNCHANGED <<received, block, yielded>>

\* The caller closes the generator; leaving `async with` closes the response.
Closed ==
  /\ phase = "streaming"
  /\ phase' = "closed"
  /\ UNCHANGED <<received, block, yielded>>

Next ==
  \/ Open \/ ReadComment \/ ReadEvent \/ ReadId \/ ReadRetry \/ ReadData \/ ReadBlank
  \/ EndOfBody \/ Broken \/ Closed

Spec == Init /\ [][Next]_vars

-----------------------------------------------------------------------------
(* Properties *)

Event == [type : {"DONE", "CUSTOM", "message"},
          data : [form : {"empty", "raw", "inner", "object", "value"}, of : Seq(Pieces)],
          id : {NoText, "evt"}, retry : {NoRetry, "3000"}]

TypeOK ==
  /\ phase \in {"opening", "streaming", "refused", "ended", "broken", "closed"}
  /\ received \in Seq(Lines) /\ Len(received) <= MaxLines
  /\ eventType \in {NoText, "CUSTOM"} /\ eventId \in {NoText, "evt"} /\ retryMs \in {NoRetry, "3000"}
  /\ dataBuf \in Seq(Pieces) /\ yielded \in Seq(Event)

\* A definition of the events of a body that reads it as a whole.  A block is
\* what lies between two blank lines; it is an event if it has data or its last
\* event line names a type.  Lines go by their numbers.
Places(body, field) == {i \in DOMAIN body : body[i].field = field}

\* The elements of a set of numbers in ascending order: SetToSortSeq(S, <), said in
\* a form that can be reasoned about.
Ranked(S, k) == {n \in S : Cardinality({m \in S : m <= n}) = k}
Ascending(S) == [k \in 1..Cardinality(S) |-> CHOOSE n \in Ranked(S, k) : TRUE]

\* The lines between the last of the places before an end and that end.
Between(places, end) == Max({0} \cup {i \in places : i < end}) + 1 .. end - 1
Block(body, end) == Between(Places(body, "blank"), end)

LastIn(body, lines, field, none) ==
  LET places == {i \in Places(body, field) \cap lines : body[i].value # "soon"}
  IN  IF places = {} THEN none ELSE body[Max(places)].value
DataIn(body, lines) ==
  LET places == Ascending(Places(body, "data") \cap lines)
  IN  [k \in DOMAIN places |-> body[places[k]].value]

IsEvent(body, end) ==
  \/ Places(body, "data") \cap Block(body, end) # {}
  \/ LastIn(body, Block(body, end), "event", NoText) # NoText
EventEnds(body) == {end \in Places(body, "blank") : IsEvent(body, end)}
\* id and retry reach back to the previous event, over blocks that are none.
Since(body, end) == Between(EventEnds(body), end)

EventAt(body, end) ==
  BuildEvent(LastIn(body, Block(body, end), "event", NoText),
             LastIn(body, Since(body, end), "id", NoText),
             LastIn(body, Since(body, end), "retry", NoRetry),
             DataIn(body, Block(body, end)))
Events(body) ==
  LET ends == Ascending(EventEnds(body))
  IN  [k \in DOMAIN ends |-> EventAt(body, ends[k])]

\* The end of the body ends a block as a blank line does.
Body == IF phase = "ended" THEN Append(received, Blank) ELSE received

\* The incremental parser yields exactly the events of the body read so far:
\* one per block, in order, whatever fields repeat or are missing, heartbeats
\* anywhere change nothing, and a body that breaks off yields no part of a block.
YieldsTheEvents == yielded = Events(Body)

\* tests/test_streaming.py: "id: field should reset between event blocks", so
\* an event's id is on a line of its own block.
IdOfOwnBlock ==
  LET ends == Ascending(EventEnds(Body))
  IN  \A k \in DOMAIN ends :
        yielded[k].id = LastIn(Body, Block(Body, ends[k]), "id", NoText)
=============================================================================
