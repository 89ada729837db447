------------------------------ MODULE SseWire ------------------------------
(***************************************************************************)
(* Server-sent events on the wire: how an event is written, how the two    *)
(* clients put it together again from chunks, and how the line reader cuts *)
(* messages out of what they forward                                       *)
(* (crates/rust-mcp-transport/src: utils/sse_event.rs, utils/sse_parser.rs,*)
(* utils/sse_stream.rs, mcp_stream.rs).                                    *)
(*                                                                         *)
(* Text is a sequence of symbols.  A line has two of them, so that a chunk *)
(* can end inside it: the first holds the field name, the second the       *)
(* newline.  Values are numbers.                                           *)
(***************************************************************************)
EXTENDS Naturals, Sequences, SequencesExt

Symbol(key, val, end) == [key |-> key, val |-> val, end |-> end]

Line(key, val) == <<Symbol(key, val, FALSE), Symbol(key, val, TRUE)>>

\* An empty line.
Blank == Symbol("blank", 0, TRUE)

\* The text is a line as it was written, not one with a piece of another.
Whole(line) == line # <<>> /\ line = Line(line[1].key, line[1].val)

Key(line) == line[1].key

\* Empty data, as in an event that only carries an id.
EmptyData == Line("data", 0)

\* The event name of the endpoint event.
EndpointEvent == Line("event", 1)

\* The Display of an SseEvent: retry, id, event name and data, if it has them.
Display(retry, id, event, data) == retry \o id \o event \o data \o <<Blank>>

-----------------------------------------------------------------------------

\* The complete lines of a buffer, and what is left of it.
SplitLines(buffer) ==
    FoldLeft(LAMBDA a, s :
               IF s.end THEN [lines |-> Append(a.lines, Append(a.rest, s)), rest |-> <<>>]
               ELSE [a EXCEPT !.rest = Append(@, s)],
             [lines |-> <<>>, rest |-> <<>>], buffer)

\* parse_sse_message: the last line of a field counts, data lines are joined,
\* a retry that is no number is none.  No event, if there is no field.
ParseSseMessage(lines) ==
    LET Of(key) == SelectSeq(lines, LAMBDA l : Key(l) = key)
        Field(key) == IF Of(key) = <<>> THEN <<>> ELSE Last(Of(key))
        retry == IF Whole(Field("retry")) THEN Field("retry") ELSE <<>>
    IN  IF Of("data") \o Of("id") \o Of("event") \o retry = <<>> THEN <<>>
        ELSE <<[event |-> Field("event"), id |-> Field("id"), retry |-> retry,
                data |-> SelectSeq(Of("data"), LAMBDA l : l # EmptyData)]>>

\* The events that a sequence of lines completes, and the lines of the last
\* one.  The empty line that ends an event stays before the next one.
Group(lines) ==
    LET Add(a, line) ==
            LET current == Append(a.current, line)
            IN  IF Len(current) >= 2 /\ line = <<Blank>>
                THEN [events |-> a.events \o ParseSseMessage(
                                    SelectSeq(Front(current), LAMBDA l : l # <<Blank>>)),
                      current |-> <<line>>]
                ELSE [a EXCEPT !.current = current]
    IN  FoldLeft(Add, [events |-> <<>>, current |-> <<>>], lines)

\* SseParser::process_new_chunk: what is unfinished goes back to the buffer.
ProcessNewChunk(buffer, chunk) ==
    LET split == SplitLines(buffer \o chunk)
        group == Group(split.lines)
    IN  [events |-> group.events, buffer |-> FlattenSeq(group.current) \o split.rest]

\* What SseStream::run keeps in its buffer.
Unfinished(split) == split.rest

\* The data that follows is the endpoint the start waits for.
NamesEndpoint(a) == a.waiting /\ a.event = EndpointEvent

\* The lines of a chunk in SseStream::run: the name of the event is forgotten
\* at the end of the chunk, the endpoint is taken once, other data and
\* comments go to the reader.  "named" says that the chunk ended between the
\* name and the data of the endpoint event.
ProcessLines(buffer, chunk, waiting) ==
    LET split == SplitLines(buffer \o chunk)
        Add(a, line) ==
            CASE Key(line) = "event" -> [a EXCEPT !.event = line]
              [] Key(line) = "data" /\ NamesEndpoint(a) ->
                   [a EXCEPT !.waiting = FALSE, !.endpoint = line]
              [] Key(line) \in {"data", "comment"} /\ ~ (Key(line) = "data" /\ NamesEndpoint(a))
                 /\ line # EmptyData -> [a EXCEPT !.items = Append(@, line)]
              [] OTHER -> a
        done == FoldLeft(Add, [event |-> <<>>, endpoint |-> <<>>, items |-> <<>>,
                               waiting |-> waiting],
                         split.lines)
    IN  [endpoint |-> done.endpoint, items |-> done.items, buffer |-> Unfinished(split),
         named |-> NamesEndpoint(done)]

-----------------------------------------------------------------------------
(* The line reader.  It has read len bytes of a line, or discards the rest   *)
(* of one that is too long.                                                  *)

\* read_capped_line with a chunk of n bytes that has no newline; a line that
\* is too long is discarded from here.
Buffered(r, n, max) ==
    IF r.over \/ r.len + n > max THEN [len |-> 0, over |-> TRUE] ELSE [r EXCEPT !.len = @ + n]

\* read_capped_line, and discard_to_newline, with a chunk whose n-th byte is
\* the last one before the newline: LineRead::Line, or TooLong.
Fits(r, n, max) == ~ r.over /\ r.len + n <= max

=============================================================================
