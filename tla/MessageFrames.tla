------------------------------ MODULE MessageFrames ------------------------------
(* The frames that read a request or a response from a connection: the start line,   *)
(* the headers, and a body of one of three framings (Http.RequestFrame.cpp,          *)
(* Http.ResponseFrame.cpp, Http.HeadersFrame.cpp, Http.BodyFrame.cpp and the three   *)
(* body frames), down to the content stream, with gzip (module Gzip) in between.     *)
(*                                                                                   *)
(* A message is a sequence of units: a word or a number is one unit, a byte that     *)
(* separates them is one, the body is in the units of Gzip or in bytes. Lengths      *)
(* count units. The message comes one unit at a time, so that the end of the         *)
(* connection can fall anywhere; once in a message a unit may be another than it     *)
(* should be.                                                                        *)
EXTENDS Gzip

CONSTANTS
    Messages,           \* what peers send, each with what its sender meant by it
    Uint32,             \* the lengths that 32 bits can tell apart, from 0
    Uint8               \* the numbers of digits that 8 bits can

ASSUME WidthsAssumption == Uint32 \in Nat \ {0} /\ Uint8 \in Nat \ {0, 1}

ASSUME MessagesAssumption ==
    \A m \in Messages :
        /\ m.kind \in {"request", "response"}
        /\ m.framing \in {"none", "length", "chunked", "close"}
        /\ m.units # <<>> /\ DOMAIN m.units = 1 .. Len(m.units)
        /\ \A i \in DOMAIN m.units : m.units[i].kind = "size" => m.units[i].v[1] \in Nat
        /\ m.content \in Seq(Nat)

VARIABLES
    message,            \* the message that is coming
    position,           \* how many of its units have come
    ended,              \* whether the connection has ended
    garbled,            \* whether one of its units was another
    frame               \* the RequestFrame or ResponseFrame with the frames inside it

vars == <<message, position, ended, garbled, frame>>

Start(m) ==
    [state |-> IF m.kind = "request" THEN "receiving_method_state"
               ELSE "receiving_protocol_state",
     code |-> 0, headers_frame |-> "expecting_name_state", name |-> <<>>, value |-> <<>>,
     headers |-> <<>>, body |-> "none", body_frame |-> "start", size |-> 0, digits |-> 0,
     bytes_expected |-> 0, gzip |-> FALSE, file |-> NewFile,
     content |-> <<>>, eofs |-> 0, late |-> FALSE]

Go(f, state) == [f EXCEPT !.state = state]

Expect(f, u, kind, state) == Go(f, IF u.kind = kind THEN state ELSE "failed")

IsToken(u) == u.kind \in {"word", "number"}

-----------------------------------------------------------------------------
(* The headers *)

In(f, state) == [f EXCEPT !.headers_frame = state]

InsertedOver(f) ==
    [f EXCEPT !.headers = Append(SelectSeq(@, LAMBDA h : h.name # f.name),
                                 [name |-> f.name, value |-> f.value])]

\* The header read last goes behind the others of its name.
Inserted(f) == [f EXCEPT !.headers = Append(@, [name |-> f.name, value |-> f.value])]

expecting_name_state(f, u) ==
    CASE u.kind = "CR" -> In(f, "expecting_LF_after_headers_state")
      [] IsToken(u)    -> [In(f, "receiving_name_state") EXCEPT !.name = u.v]
      [] OTHER         -> In(f, "failed")

receiving_name_state(f, u) ==
    CASE u.kind = ":" -> [In(f, "expecting_value_state") EXCEPT !.value = <<>>]
      [] u.kind = "SP" -> [In(f, "expecting_colon_state") EXCEPT !.value = <<>>]
      [] IsToken(u)    -> [f EXCEPT !.name = @ \o u.v]
      [] OTHER         -> In(f, "failed")

expecting_colon_state(f, u) ==
    CASE u.kind = ":"  -> In(f, "expecting_value_state")
      [] u.kind = "SP" -> f
      [] OTHER         -> In(f, "failed")

\* A value takes whatever is not the end of the line.
receiving_value_state(f, u) ==
    IF u.kind = "CR" THEN In(f, "expecting_LF_after_value_state")
    ELSE [In(f, "receiving_value_state") EXCEPT !.value = Append(@, u)]

expecting_value_state(f, u) == IF u.kind = "SP" THEN f ELSE receiving_value_state(f, u)

\* Only the next line tells whether the value goes on.
expecting_next_header_state(f, u) ==
    CASE u.kind = "CR" -> In(Inserted(f), "expecting_LF_after_headers_state")
      [] u.kind = "SP" -> [In(f, "expecting_value_state") EXCEPT !.value = Append(@, u)]
      [] IsToken(u)    -> [In(Inserted(f), "receiving_name_state") EXCEPT !.name = u.v]
      [] OTHER         -> In(f, "failed")

HeadersFrame(f, u) ==
    CASE f.headers_frame = "expecting_name_state"  -> expecting_name_state(f, u)
      [] f.headers_frame = "receiving_name_state"  -> receiving_name_state(f, u)
      [] f.headers_frame = "expecting_colon_state" -> expecting_colon_state(f, u)
      [] f.headers_frame = "expecting_value_state" -> expecting_value_state(f, u)
      [] f.headers_frame = "receiving_value_state" -> receiving_value_state(f, u)
      [] f.headers_frame = "expecting_LF_after_value_state" ->
            In(f, IF u.kind = "LF" THEN "expecting_next_header_state" ELSE "failed")
      [] f.headers_frame = "expecting_next_header_state" -> expecting_next_header_state(f, u)
      [] f.headers_frame = "expecting_LF_after_headers_state" ->
            In(f, IF u.kind = "LF" THEN "done_state" ELSE "failed")

\* The first header of a name, when there is one.
Values(f, name) == {h \in ToSet(f.headers) : h.name = <<name>>}
get_string(f, name) ==
    f.headers[SelectInSeq(f.headers, LAMBDA h : h.name = <<name>>)].value

Has(f, name) == Values(f, name) # {}

Says(f, name, word) ==
    Has(f, name) /\ get_string(f, name) = <<Unit("word", <<word>>)>>

\* A value that is not a number and nothing else counts as none.
HasNumber(f, name) ==
    /\ Has(f, name)
    /\ Len(get_string(f, name)) = 1
    /\ get_string(f, name)[1].kind = "number"

get_base_10(f, name) == get_string(f, name)[1].v[1] % Uint32

-----------------------------------------------------------------------------
(* The body *)

Unpacked(f, file) == [f EXCEPT !.file = file, !.content = file.out]

\* What the frames write goes to the content stream, through the gzip frames or not.
Written(f, u) ==
    IF f.gzip THEN Unpacked(f, write_element(f.file, u))
    ELSE [f EXCEPT !.content = @ \o u.v, !.late = @ \/ f.eofs > 0]

\* The gzip frames hand on no end.
EndWritten(f) ==
    IF f.gzip THEN [f EXCEPT !.file = write_eof(@)]
    ELSE [f EXCEPT !.late = @ \/ f.eofs > 0, !.eofs = @ + 1]

LengthBodyFrame(f, u) ==
    IF f.bytes_expected = 1
    THEN [EndWritten(Written(f, u)) EXCEPT !.bytes_expected = 0, !.body_frame = "done_state"]
    ELSE [Written(f, u) EXCEPT !.bytes_expected = @ - 1]

\* The first digit begins the size anew.
WriteDigit(f, digit) ==
    [f EXCEPT !.size = (digit + IF f.digits = 0 THEN 0 ELSE 16 * @) % Uint32,
              !.digits = (@ + 1) % Uint8]

start_chunk_state(f, u) ==
    CASE u.kind = "CR"   -> [f EXCEPT !.body_frame = "expecting_LF_after_size_state"]
      [] u.kind = "size" -> WriteDigit(f, u.v[1])
      [] OTHER           -> [f EXCEPT !.body_frame = "failed"]

expecting_LF_after_size_state(f, u) ==
    CASE u.kind # "LF" -> [f EXCEPT !.body_frame = "failed"]
      [] u.kind = "LF" /\ f.size = 0 ->
            [f EXCEPT !.body_frame = "headers_frame_pending",
                      !.headers_frame = "expecting_name_state"]
      [] u.kind = "LF" /\ f.size > 0 ->
            [f EXCEPT !.body_frame = "chunk_frame_pending_state", !.bytes_expected = f.size]

AfterChunk(f) ==
    IF f.body_frame = "done_state"
    THEN [f EXCEPT !.body_frame = "expecting_CR_after_chunk_state"] ELSE f

\* Every chunk is read by a frame for a body of its length.
chunk_frame_pending_state(f, u) == AfterChunk(LengthBodyFrame(f, u))

expecting_LF_after_chunk_unread(f, u) ==
    [f EXCEPT !.body_frame = "start_chunk_state", !.digits = 0]

expecting_LF_after_chunk_state(f, u) ==
    IF u.kind = "LF" THEN [f EXCEPT !.body_frame = "start_chunk_state", !.digits = 0]
    ELSE [f EXCEPT !.body_frame = "failed"]

AfterTrailers(f) ==
    CASE f.headers_frame = "done_state" -> [EndWritten(f) EXCEPT !.body_frame = "done_state"]
      [] f.headers_frame = "failed"     -> [f EXCEPT !.body_frame = "failed"]
      [] OTHER -> f

\* The headers behind the last chunk join those of the message.
trailers(f, u) == AfterTrailers(HeadersFrame(f, u))

BodyChunksFrame(f, u) ==
    CASE f.body_frame = "start_chunk_state"             -> start_chunk_state(f, u)
      [] f.body_frame = "expecting_LF_after_size_state" -> expecting_LF_after_size_state(f, u)
      [] f.body_frame = "chunk_frame_pending_state"     -> chunk_frame_pending_state(f, u)
      [] f.body_frame = "expecting_CR_after_chunk_state" ->
            [f EXCEPT !.body_frame = IF u.kind = "CR" THEN "expecting_LF_after_chunk_state"
                                     ELSE "failed"]
      [] f.body_frame = "expecting_LF_after_chunk_state" -> expecting_LF_after_chunk_state(f, u)
      [] f.body_frame = "headers_frame_pending"         -> trailers(f, u)

BodyFrame(f, u) ==
    CASE f.body = "length"  -> LengthBodyFrame(f, u)
      [] f.body = "chunked" -> BodyChunksFrame(f, u)
      [] f.body = "close"   -> Written(f, u)

LengthName(f) == IF HasNumber(f, "Transfer-Length") THEN "Transfer-Length" ELSE "Content-Length"

BodyFraming(f) ==
    IF \/ ~Has(f, "Content-Type")
       \/ Has(f, "Content-Encoding") /\ ~Says(f, "Content-Encoding", "gzip")
            /\ ~Says(f, "Content-Encoding", "identity")
       \/ Has(f, "Transfer-Encoding") /\ ~Says(f, "Transfer-Encoding", "identity")
            /\ ~Says(f, "Transfer-Encoding", "chunked")
    THEN "none"
    ELSE IF Says(f, "Transfer-Encoding", "chunked") THEN "chunked"
    ELSE IF ~HasNumber(f, LengthName(f)) THEN "close"
    ELSE IF get_base_10(f, LengthName(f)) = 0 THEN "none"
    ELSE "length"

\* The body the headers ask for, or the end of the message.
make_body_frame(f) ==
    LET framing == BodyFraming(f)
        begun == [Go(f, "body_pending_state") EXCEPT !.body = framing,
                     !.gzip = Says(f, "Content-Encoding", "gzip")]
    IN  CASE framing = "none"    -> Go(f, "done_state")
          [] framing = "length"  -> [begun EXCEPT !.bytes_expected = get_base_10(f, LengthName(f))]
          [] framing = "chunked" -> [begun EXCEPT !.body_frame = "start_chunk_state"]
          [] framing = "close"   -> begun

body_always_expected(f, m) == TRUE

\* Some responses have no body whatever their headers say.
body_expected(f, m) ==
    \/ m.kind = "request"
    \/ ~(f.code \div 100 = 1 \/ f.code \in {204, 205, 304} \/ m.method = "HEAD")

-----------------------------------------------------------------------------
(* The message *)

AfterHeaders(f, m) ==
    CASE f.headers_frame = "failed"     -> Go(f, "failed")
      [] f.headers_frame = "done_state" ->
            IF body_expected(f, m) THEN make_body_frame(f) ELSE Go(f, "done_state")
      [] OTHER -> f

headers_frame_pending_state(f, u, m) == AfterHeaders(HeadersFrame(f, u), m)

AfterBody(f) == IF f.body_frame \in {"done_state", "failed"} THEN Go(f, f.body_frame) ELSE f

body_pending_state(f, u) == AfterBody(BodyFrame(f, u))

RequestFrame(f, u) ==
    CASE f.state = "receiving_method_state" ->
            Go(f, CASE u.kind = "SP" -> "receiving_resource_state"
                    [] IsToken(u)    -> "receiving_method_state"
                    [] OTHER         -> "failed")
      [] f.state = "receiving_resource_state" ->
            IF u.kind = "SP" THEN Go(f, "receiving_protocol_state") ELSE f
      [] f.state = "receiving_protocol_state" ->
            IF u.kind = "CR" THEN Go(f, "expecting_LF_after_protocol_state") ELSE f
      [] f.state = "expecting_LF_after_protocol_state" ->
            Expect(f, u, "LF", "headers_frame_pending_state")

\* The range of the code is looked at when a reason follows, and only then.
receiving_code_state(f, u) ==
    CASE u.kind = "SP" -> Go(f, IF f.code \in 100 .. 599 THEN "receiving_reason_state"
                                ELSE "failed")
      [] u.kind = "CR" -> Go(f, "expecting_LF_after_reason_state")
      [] u.kind = "number" -> [f EXCEPT !.code = u.v[1]]
      [] OTHER         -> Go(f, "failed")

ResponseFrame(f, u) ==
    CASE f.state = "receiving_protocol_state" ->
            IF u.kind = "SP" THEN Go(f, "receiving_code_state") ELSE f
      [] f.state = "receiving_code_state" -> receiving_code_state(f, u)
      [] f.state = "receiving_reason_state" ->
            Go(f, CASE u.kind = "CR" -> "expecting_LF_after_reason_state"
                    [] u.kind \in {"LF", "ctl"} -> "failed"
                    [] OTHER -> "receiving_reason_state")
      [] f.state = "expecting_LF_after_reason_state" ->
            Expect(f, u, "LF", "headers_frame_pending_state")

Read(f, u, m) ==
    CASE f.state = "headers_frame_pending_state" -> headers_frame_pending_state(f, u, m)
      [] f.state = "body_pending_state" -> body_pending_state(f, u)
      [] OTHER -> IF m.kind = "request" THEN RequestFrame(f, u) ELSE ResponseFrame(f, u)

-----------------------------------------------------------------------------

Init ==
    /\ message \in Messages
    /\ position = 0
    /\ ended = FALSE
    /\ garbled = FALSE
    /\ frame = Start(message)

Reading == frame.state \notin {"done_state", "failed"} /\ ~Broken(frame.file)

Coming ==
    /\ ~ended /\ Reading
    /\ position < Len(message.units)
    /\ position' = position + 1
    /\ UNCHANGED <<message, ended>>

Receive ==
    /\ Coming
    /\ frame' = Read(frame, message.units[position + 1], message)
    /\ UNCHANGED garbled

\* Where the grammar leaves the sender no choice: the end of a line after its CR, the
\* colon, the digits of a size, the CR of an empty line and those around a chunk.
IsFraming(units, i) ==
    \/ units[i].kind \in {"LF", ":", "size"}
    \/ units[i].kind = "CR" /\ units[i - 1].kind \notin {"word", "number", "SP", ":"}

Garble ==
    /\ Coming
    /\ ~garbled /\ IsFraming(message.units, position + 1)
    /\ garbled' = TRUE
    /\ frame' = Read(frame, Unit("ctl", <<0>>), message)

DisconnectBodyFrameSilent(f) ==
    IF f.state = "body_pending_state" /\ f.body = "close"
    THEN [f EXCEPT !.body_frame = "done_state", !.state = "done_state"]
    ELSE f

\* Only the body that ends with the connection hears of its end.
DisconnectBodyFrame(f) ==
    IF f.state = "body_pending_state" /\ f.body = "close"
    THEN [EndWritten(f) EXCEPT !.body_frame = "done_state", !.state = "done_state"]
    ELSE f

Ending ==
    /\ ~ended /\ Reading
    /\ ended' = TRUE
    /\ frame' = DisconnectBodyFrame(frame)
    /\ UNCHANGED <<message, position, garbled>>

Next == Receive \/ Garble \/ Ending

Spec == Init /\ [][Next]_vars

-----------------------------------------------------------------------------

All == position = Len(message.units)

\* The frame and the sender agree on where a message ends, whatever its framing: reading
\* neither stops before its last unit nor goes on after it, and a message without a
\* mistake is never refused (ResponseFrame::process_event, BodyFrame::make_body_frame).
Framed ==
    ~garbled =>
        /\ frame.state # "failed" /\ ~Broken(frame.file)
        /\ (frame.state = "done_state") <=>
               (IF message.framing = "close" THEN ended /\ frame.body = "close" ELSE All)

\* The content stream gets the content and nothing else, however it is chunked, packed
\* and cut: all of it when all of the message was read (LengthBodyFrame::process_event,
\* BodyChunksFrame::process_event, Deflate::process_event).
Delivered ==
    ~garbled =>
        /\ IsPrefix(frame.content, message.content)
        /\ frame.state = "done_state" /\ All => frame.content = message.content

\* A body that is not chunked ends its stream once, when it is done, and writes nothing
\* after that (LengthBodyFrame::process_event, DisconnectBodyFrame::process_event).
EndsLast ==
    frame.body \in {"length", "close"} /\ ~frame.gzip =>
        /\ frame.eofs = IF frame.state = "done_state" THEN 1 ELSE 0
        /\ ~frame.late

\* The headers behind the last chunk, and those that come twice, do not change what the
\* message was framed by (HeadersFrame::process_event, NameValueCollection::get_string).
HeadersKept ==
    [][\A h \in ToSet(frame.headers) : Has(frame, h.name[1]) =>
          get_string(frame, h.name[1]) = get_string(frame', h.name[1])]_vars

\* A mistake in the framing is never read over (the *_error states of the frames).
Refused == garbled => frame.state = "failed"

=============================================================================
