--------------------------------- MODULE Frames ---------------------------------
(***************************************************************************)
(* The event stream's transport (api/sse.rs): the handshake that proves a   *)
(* response to be a stream, the parser that turns text into events one byte *)
(* at a time, and the queue a reader takes them from.                       *)
(*                                                                         *)
(* A field line ("data: x", a comment, an unknown field) is one symbol, a    *)
(* terminator is CR, LF or both; the text may stop anywhere.  A server sends *)
(* at most one event field to a frame.                                      *)
(***************************************************************************)
EXTENDS Naturals, FiniteSets, SequencesExt, Sift

CONSTANTS
    Fields,     \* the field lines a server may send, records of a name and a value
    MaxText     \* bound: symbols of one connection

ASSUME FramesAssumption ==
    /\ \A f \in Fields : f.name \in {"data", "event", "id", "retry", "comment", "unknown"}
    /\ MaxText \in Nat

VARIABLES
    link,       \* "closed", "open", or why the last handshake failed
    text,       \* history: what this connection has received
    parser,     \* see Parser
    ready,      \* events parsed and not taken
    taken       \* history: events of this connection the reader has taken

fvars == <<link, text, parser, ready, taken>>

Unset == "none"
CR == [name |-> "cr", value |-> Unset]
LF == [name |-> "lf", value |-> Unset]
Ends == {CR, LF}
NoLine == [name |-> "none", value |-> Unset]
Symbol == Ends \cup Fields
Value == {f.value : f \in Fields} \cup {Unset}
Event == [kind : Seq(Value \cup {"message"}), data : Seq(Value), id : Value, retry : Value]

-------------------------------------------------------------------------------
(* The parser                                                                *)

\* line is the field read since the last terminator, if any.
Parser ==
    [line : Fields \cup {NoLine}, sawCr : BOOLEAN, kind : Seq(Value), data : Seq(Value),
     id : Value, retry : Value]

NewParser ==
    [line |-> NoLine, sawCr |-> FALSE, kind |-> <<>>, data |-> <<>>, id |-> Unset,
     retry |-> Unset]

\* A blank line: an event when there is data, and the frame's own parts go.
Dispatch(p) ==
    [parser |-> [p EXCEPT !.kind = <<>>, !.data = <<>>, !.retry = Unset],
     events |-> IF p.data = <<>> THEN <<>>
                ELSE <<[kind  |-> IF p.kind = <<>> THEN <<"message">> ELSE p.kind,
                        data  |-> p.data,
                        id    |-> p.id,
                        retry |-> p.retry]>>]

\* consume_line: the event field's value is appended, id and retry are replaced.
ConsumeLine(p) ==
    LET f == p.line
        q == [p EXCEPT !.line = NoLine]
    IN  IF f = NoLine THEN Dispatch(q)
        ELSE [events |-> <<>>,
              parser |-> CASE f.name = "event" -> [q EXCEPT !.kind = Append(@, f.value)]
                           [] f.name = "data" -> [q EXCEPT !.data = Append(@, f.value)]
                           [] f.name = "id" -> [q EXCEPT !.id = f.value]
                           [] f.name = "retry" -> [q EXCEPT !.retry = f.value]
                           [] OTHER -> q]

\* FAULT: the LF of a CRLF ends a line of its own.
PushEveryEnd(p, symbol) ==
    IF symbol \in Ends THEN ConsumeLine([p EXCEPT !.sawCr = FALSE])
    ELSE [parser |-> [p EXCEPT !.line = symbol], events |-> <<>>]

\* push, of one symbol: an LF behind a CR belongs to it, whenever it comes.
Push(p, symbol) ==
    CASE symbol = LF /\ p.sawCr -> [parser |-> [p EXCEPT !.sawCr = FALSE], events |-> <<>>]
      [] symbol = LF /\ ~p.sawCr -> ConsumeLine(p)
      [] symbol = CR -> LET read == ConsumeLine(p)
                        IN  [read EXCEPT !.parser.sawCr = TRUE]
      [] OTHER -> [parser |-> [p EXCEPT !.line = symbol, !.sawCr = FALSE], events |-> <<>>]

-------------------------------------------------------------------------------
(* The stream                                                                *)

FramesTypeOK ==
    /\ link \in {"closed", "open", "authentication", "server", "compatibility"}
    /\ text \in Seq(Symbol) /\ Len(text) <= MaxText
    /\ parser \in Parser
    /\ ready \in Seq(Event) /\ taken \in Seq(Event)

FramesInit ==
    /\ link = "closed"
    /\ text = <<>>
    /\ parser = NewParser
    /\ ready = <<>>
    /\ taken = <<>>

\* connect: only a 200 that is an event stream opens it.
Verdict(status, isStream) ==
    CASE status \in {401, 403} -> "authentication"
      [] status = 200 /\ isStream -> "open"
      [] status = 200 /\ ~isStream -> "compatibility"
      [] OTHER -> "server"

Connect ==
    /\ link # "open"
    /\ \E status \in {200, 401, 403, 500}, isStream \in BOOLEAN :
          link' = Verdict(status, isStream)
    /\ text' = <<>> /\ parser' = NewParser /\ ready' = <<>> /\ taken' = <<>>

\* More text, cut anywhere; a field begins a line.
Arrive ==
    /\ link = "open"
    /\ Len(text) < MaxText
    /\ \E symbol \in IF parser.line = NoLine THEN Symbol ELSE Ends :
          /\ text' = Append(text, symbol)
          /\ LET read == Push(parser, symbol)
             IN  parser' = read.parser /\ ready' = ready \o read.events
    /\ UNCHANGED <<link, taken>>

\* next_event
TakeEvent ==
    /\ ready # <<>>
    /\ taken' = Append(taken, Head(ready))
    /\ ready' = Tail(ready)
    /\ UNCHANGED <<link, text, parser>>

\* The server closes or the link breaks, with half a frame perhaps still held;
\* what was parsed is still to be taken.
Cut ==
    /\ link = "open"
    /\ link' = "closed"
    /\ UNCHANGED <<text, parser, ready, taken>>

FramesNext == Connect \/ Arrive \/ TakeEvent \/ Cut

FramesSpec == FramesInit /\ [][FramesNext]_fvars

-------------------------------------------------------------------------------
(* What a text means                                                         *)

\* What a sequence has at the places chosen, in order.
At(t, chosen) ==
    LET at == Sift([i \in DOMAIN t |-> i], chosen)
    IN  [k \in DOMAIN at |-> t[at[k]]]

\* The text with each CRLF as a single end.
Plain == At(text, {i \in DOMAIN text : ~(text[i] = LF /\ i > 1 /\ text[i - 1] = CR)})

\* Ends of frames: blank lines.
Blanks(t) == {i \in DOMAIN t : t[i] \in Ends /\ (i = 1 \/ t[i - 1] \in Ends)}

\* The frame that ends at a place: what is behind the blank line before it.
Frame(t, end) == {i \in 1 .. end : \A b \in Blanks(t) : b < i \/ end <= b}

\* Values of one field among the lines at some places, in order.
Values(t, name, places) ==
    LET lines == At(t, {i \in places \cap DOMAIN t : t[i].name = name})
    IN  [k \in DOMAIN lines |-> lines[k].value]

LatestOf(values) == IF values = <<>> THEN Unset ELSE Last(values)

\* The event of the frame that ends at a blank line.
EventAt(t, end) ==
    LET kinds == Values(t, "event", Frame(t, end))
    IN  [kind  |-> IF kinds = <<>> THEN <<"message">> ELSE <<Last(kinds)>>,
         data  |-> Values(t, "data", Frame(t, end)),
         id    |-> LatestOf(Values(t, "id", 1 .. end)),
         retry |-> LatestOf(Values(t, "retry", Frame(t, end)))]

Meaning(t) ==
    At([i \in DOMAIN t |-> EventAt(t, i)], {i \in Blanks(t) : EventAt(t, i).data # <<>>})

\* No frame has two event fields.
OneKindEach ==
    \A i, j \in DOMAIN Plain :
       (i < j /\ \A k \in {i, j} : Plain[k] \notin Ends /\ Plain[k].name = "event")
          => \E b \in Blanks(Plain) : i < b /\ b < j

\* However the text is cut and terminated, exactly its whole frames with data
\* are events, each with the last id seen and its own retry; the rest of a
\* stream that was cut is never dispatched.
EventsAreWholeFrames == OneKindEach => taken \o ready = Meaning(Plain)

\* The same of every text: an event field replaces the one before it.
EventsAreStandard == taken \o ready = Meaning(Plain)
=============================================================================
