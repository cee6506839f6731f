------------------------------- MODULE Framing -------------------------------
(***************************************************************************)
(* How the messages of a language server cross its standard output: the    *)
(* frames (src/framing.ts), the chunks they arrive in, and the dispatch of *)
(* what they carry (src/connection.ts).  The server writes some frames,    *)
(* the last of them perhaps broken; the pipe delivers any number of bytes  *)
(* at a time; each chunk is decoded and dispatched in one go.              *)
(*                                                                         *)
(* A byte stands for as many as share a fate: the digits of a length, half *)
(* of the \r\n\r\n after a header, a part of a body.  A message is known   *)
(* by the number of its frame in the stream.                               *)
(***************************************************************************)
EXTENDS Naturals, Sequences, SequencesExt, FiniteSetsExt

CONSTANTS
  MaxFrames,  \* frames the server writes; bounds the model
  MaxHeader,  \* MAX_HEADER_BYTES: bytes kept while no header has ended
  MaxMessage  \* maxMessageBytes: the longest body

ASSUME FramingAssumption == MaxFrames \in Nat /\ MaxHeader \in Nat \ {0} /\ MaxMessage \in Nat \ {0}

\* What a sound frame carries.  A server asks for its configuration or to have
\* edits applied; one message is the response the client waits for.
Messages == {"response", "notification", "configuration", "applyEdit"}
Requests == {"configuration", "applyEdit"}
\* What else may be in the stream: a body that is not JSON, a header without
\* Content-Length, one with too high a length, one that does not end.
Faults == {"junk", "unsized", "oversize", "endless"}

Byte(is, n) == [is |-> is, n |-> n]
Terminator == <<Byte("crlf", 0), Byte("crlf", 0)>>
Header(length) == <<Byte("length", length)>> \o Terminator

\* Message i; a response is written with an empty line between its tokens.
Body(i, message) ==
  IF message = "response" THEN <<Byte("json", i)>> \o Terminator
  ELSE <<Byte("json", i), Byte("json", i)>>

encodeMessage(i, message) == Header(Len(Body(i, message))) \o Body(i, message)

Frame(i, what) ==
  CASE what \in Messages  -> encodeMessage(i, what)
    [] what = "junk"     -> Header(1) \o <<Byte("junk", i)>>
    [] what = "unsized"  -> <<Byte("line", i)>> \o Terminator
    [] what = "oversize" -> Header(MaxMessage + 1) \o <<Byte("json", i)>>
    [] what = "endless"  -> [k \in 1..(MaxHeader + 1) |-> Byte("line", i)]

VARIABLES
  stream,    \* what the server writes
  received,  \* how many bytes of it have arrived
  buffer,    \* the decoder's
  delivered, \* history: the messages dispatched, in order
  replies,   \* the server's requests answered, and how
  closed     \* the connection has failed

frameVars == <<stream, received, buffer, delivered, replies, closed>>

(* The bytes of a stream *)

FrameAt(s, i) == Frame(i, s[i])

\* Where frame i ends: after as many bytes as the frames up to it have.
BytesTo(s, i) == UNION {{k} \X (1..Len(FrameAt(s, k))) : k \in 1..i}
FrameEnd(s, i) == Cardinality(BytesTo(s, i))

\* The frames, one after the other.
FrameOf(s, p) == CHOOSE i \in DOMAIN s : FrameEnd(s, i - 1) < p /\ p <= FrameEnd(s, i)
Written(s) ==
  [p \in 1..FrameEnd(s, Len(s)) |-> FrameAt(s, FrameOf(s, p))[p - FrameEnd(s, FrameOf(s, p) - 1)]]

(* MessageDecoder *)

HeaderEnds(bytes) ==
  {i \in 1..(Len(bytes) - 1) : bytes[i].is = "crlf" /\ bytes[i + 1].is = "crlf"}
Lengths(bytes, headerEnd) == {i \in 1..(headerEnd - 1) : bytes[i].is = "length"}

Parses(body) == body # <<>> /\ body[1].is = "json"

\* Mutant: a body that has wholly arrived waits for another byte.
needsOneMore(bytes, start, length) == Len(bytes) <= start + length

incomplete(bytes, start, length) == Len(bytes) < start + length

\* One turn of the loop in push: the first length before the first \r\n\r\n counts.
drain(d) ==
  LET headerEnd == Min(HeaderEnds(d.bytes))
      lengths   == Lengths(d.bytes, headerEnd)
      length    == d.bytes[Min(lengths)].n
      start     == headerEnd + 1
      body      == SubSeq(d.bytes, start + 1, start + length)
      remaining == SubSeq(d.bytes, start + length + 1, Len(d.bytes))
  IN  IF d.state # "draining" THEN d
      ELSE IF HeaderEnds(d.bytes) = {} THEN
        [d EXCEPT !.state = IF Len(d.bytes) > MaxHeader THEN "thrown" ELSE "waiting"]
      ELSE IF lengths = {} \/ length > MaxMessage THEN [d EXCEPT !.state = "thrown"]
      ELSE IF incomplete(d.bytes, start, length) THEN [d EXCEPT !.state = "waiting"]
      ELSE IF Parses(body) THEN
        [d EXCEPT !.bytes = remaining, !.messages = Append(@, body[1].n)]
      ELSE [d EXCEPT !.bytes = remaining, !.state = "thrown"]

\* The bytes kept, the messages found, and whether an error was thrown: then
\* the messages found before it in this call are gone with it.  A turn that is
\* not the last one takes a byte at least.
drained(bytes) ==
  LET turns[n \in 0..(Len(bytes) + 1)] ==
        IF n = 0 THEN [bytes |-> bytes, messages |-> <<>>, state |-> "draining"]
        ELSE drain(turns[n - 1])
  IN  turns[Len(bytes) + 1]

push(chunk) == drained(buffer \o chunk)

(* LspConnection *)

\* Among the frames is the response, and at most one fault.
Streams ==
  {s \in BoundedSeq(Messages \cup Faults, MaxFrames) :
     Cardinality({i \in DOMAIN s : s[i] \in Faults}) <= 1
     /\ Cardinality({i \in DOMAIN s : s[i] = "response"}) = 1}

FrameInit ==
  /\ stream \in Streams
  /\ received = 0 /\ buffer = <<>>
  /\ delivered = <<>> /\ replies = <<>> /\ closed = FALSE

\* The response is all the client waited for: what follows is another matter.
Hangup ==
  /\ stream' = <<>> /\ received' = 0 /\ buffer' = <<>>
  /\ delivered' = <<>> /\ replies' = <<>>
  /\ UNCHANGED closed

\* answerServerRequest: a configuration is handed out, edits are never applied.
answerServerRequest(method) == method = "configuration"

handleServerRequest(i) == [request |-> i, ok |-> answerServerRequest(stream[i])]

\* dispatch, for one message after the other: what is written in reply.
dispatched(messages) ==
  LET replied[n \in 0..Len(messages)] ==
        IF n = 0 THEN replies
        ELSE IF stream[messages[n]] \in Requests
               THEN Append(replied[n - 1], handleServerRequest(messages[n]))
               ELSE replied[n - 1]
  IN  replied[Len(messages)]

\* onStdout: a chunk is decoded, and all it completes is dispatched; an error
\* fails the connection and dispatches nothing.  A failed connection still
\* reads, but writes no replies.
onStdout ==
  \E n \in 1..(Len(Written(stream)) - received) :
    LET d == push(SubSeq(Written(stream), received + 1, received + n))
    IN  /\ received' = received + n
        /\ buffer' = d.bytes
        /\ closed' = (closed \/ d.state = "thrown")
        /\ delivered' = IF d.state = "thrown" THEN delivered ELSE delivered \o d.messages
        /\ replies' = IF closed' THEN replies ELSE dispatched(d.messages)
        /\ UNCHANGED stream

HasResponse == \E i \in DOMAIN delivered : stream[delivered[i]] = "response"

\* The messages whose frames have wholly arrived.
Arrived == {i \in DOMAIN stream : stream[i] \in Messages /\ FrameEnd(stream, i) <= received}

Ascending(s) == \A j, k \in DOMAIN s : j < k => s[j] < s[k]

\* Whatever the chunks, and whatever the bodies look like, the client acts on
\* each message as soon as its last byte is there, once, in order and never on
\* half of one, until a broken frame fails the connection; after that it still
\* makes up nothing.  Until then it has answered, once and in order, every
\* request of the server it acted on.
FramesAreExact ==
  /\ Ascending(delivered) /\ Range(delivered) \subseteq Arrived
  /\ ~closed => /\ Range(delivered) = Arrived
                /\ Ascending([k \in DOMAIN replies |-> replies[k].request])
                /\ {replies[k].request : k \in DOMAIN replies}
                     = {i \in Range(delivered) : stream[i] \in Requests}
=============================================================================
