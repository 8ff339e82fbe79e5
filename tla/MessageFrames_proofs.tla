-------------------------- MODULE MessageFrames_proofs --------------------------
(* What is proved about MessageFrames, for every message a peer may send: a body that *)
(* is not chunked ends its stream once and last, and no header that comes later       *)
(* changes what the message was framed by. And for every message that is well made    *)
(* (HttpMessages): it is read to its end and no further, its content arrives, and a   *)
(* mistake in it is refused.                                                          *)
EXTENDS HttpMessages, SequenceTheorems, FiniteSetTheorems, WellFoundedInduction,
    TLAPS

-------------------------------------------------------------------------------
(* The inductive invariant.                                                    *)

FrameFields == {"state", "code", "headers_frame", "name", "value", "headers", "body",
    "body_frame", "size", "digits", "bytes_expected", "gzip", "file", "content", "eofs", "late"}

StartLine == [request  |-> {"receiving_method_state", "receiving_resource_state",
                            "receiving_protocol_state", "expecting_LF_after_protocol_state"},
              response |-> {"receiving_protocol_state", "receiving_code_state",
                            "receiving_reason_state", "expecting_LF_after_reason_state"}]

HeadersRead == {"expecting_name_state", "receiving_name_state", "expecting_colon_state",
    "expecting_value_state", "receiving_value_state", "expecting_LF_after_value_state",
    "expecting_next_header_state", "expecting_LF_after_headers_state"}

ChunksRead == {"start_chunk_state", "expecting_LF_after_size_state",
    "chunk_frame_pending_state", "expecting_CR_after_chunk_state",
    "expecting_LF_after_chunk_state", "headers_frame_pending"}

\* The body frame is made when the headers are done, and not before.
Shaped(f, m) ==
    /\ DOMAIN f = FrameFields
    /\ f.size \in Nat
    /\ f.body \in {"none", "length", "chunked", "close"}
    /\ \/ /\ f.state \in StartLine[m.kind]
          /\ f.headers_frame = "expecting_name_state" /\ f.body = "none"
       \/ /\ f.state = "headers_frame_pending_state"
          /\ f.headers_frame \in HeadersRead /\ f.body = "none"
       \/ /\ f.state = "body_pending_state" /\ f.body \in {"length", "close"}
       \/ /\ f.state = "body_pending_state" /\ f.body = "chunked"
          /\ f.body_frame \in ChunksRead
          /\ f.body_frame = "headers_frame_pending" => f.headers_frame \in HeadersRead
       \/ f.state \in {"done_state", "failed"}

\* Until the body is done nothing has been ended.
Ends(f) ==
    f.body \in {"none", "length", "close"} =>
        /\ f.body = "none" \/ f.state = "body_pending_state" => f.body_frame = "start"
        /\ f.body = "none" => f.eofs = 0 /\ ~ f.late
        /\ ~ f.gzip => /\ f.eofs = IF f.body # "none" /\ f.state = "done_state" THEN 1 ELSE 0
                       /\ ~ f.late

MInv == message \in Messages /\ position \in Nat /\ Shaped(frame, message) /\ Ends(frame)

LEMMA MInvStart == Init => MInv
<1> SUFFICES ASSUME Init PROVE MInv
  OBVIOUS
<1>1. message \in Messages /\ message.kind \in {"request", "response"} /\ position = 0
  BY MessagesAssumption DEF Init
<1>2. frame = Start(message)
  BY DEF Init
<1>3. /\ DOMAIN frame = FrameFields /\ frame.size = 0 /\ frame.body = "none"
      /\ frame.state = IF message.kind = "request" THEN "receiving_method_state"
                       ELSE "receiving_protocol_state"
      /\ frame.headers_frame = "expecting_name_state" /\ frame.body_frame = "start"
      /\ frame.eofs = 0 /\ frame.late = FALSE
  BY <1>2 DEF Start, FrameFields
<1> QED BY <1>1, <1>3 DEF MInv, Shaped, Ends, StartLine

-------------------------------------------------------------------------------
(* The frames.                                                                 *)

\* Reading a header leaves the rest of the message alone.
LEMMA HeadersRest ==
    ASSUME NEW f, DOMAIN f = FrameFields, NEW u, f.headers_frame \in HeadersRead
    PROVE  LET g == HeadersFrame(f, u)
           IN  /\ DOMAIN g = FrameFields
               /\ g.headers_frame \in HeadersRead \cup {"done_state", "failed"}
               /\ \A x \in FrameFields \ {"headers_frame", "name", "value", "headers"} :
                      g[x] = f[x]
<1> DEFINE P(g) == /\ DOMAIN g = FrameFields
                   /\ g.headers_frame \in HeadersRead \cup {"done_state", "failed"}
                   /\ \A x \in FrameFields \ {"headers_frame", "name", "value", "headers"} :
                          g[x] = f[x]
<1>1. CASE f.headers_frame = "expecting_name_state"
  BY <1>1 DEF HeadersFrame, expecting_name_state, In, HeadersRead, FrameFields
<1>2. CASE f.headers_frame = "receiving_name_state"
  BY <1>2 DEF HeadersFrame, receiving_name_state, In, HeadersRead, FrameFields
<1>3. CASE f.headers_frame = "expecting_colon_state"
  BY <1>3 DEF HeadersFrame, expecting_colon_state, In, HeadersRead, FrameFields
<1>4. CASE f.headers_frame = "expecting_value_state"
  BY <1>4 DEF HeadersFrame, expecting_value_state, receiving_value_state, In, HeadersRead,
              FrameFields
<1>5. CASE f.headers_frame = "receiving_value_state"
  BY <1>5 DEF HeadersFrame, receiving_value_state, In, HeadersRead, FrameFields
<1>6. CASE f.headers_frame = "expecting_LF_after_value_state"
  BY <1>6 DEF HeadersFrame, In, HeadersRead, FrameFields
<1>7. CASE f.headers_frame = "expecting_next_header_state"
  BY <1>7 DEF HeadersFrame, expecting_next_header_state, Inserted, In, HeadersRead, FrameFields
<1>8. CASE f.headers_frame = "expecting_LF_after_headers_state"
  BY <1>8 DEF HeadersFrame, In, HeadersRead, FrameFields
<1> QED BY <1>1, <1>2, <1>3, <1>4, <1>5, <1>6, <1>7, <1>8 DEF HeadersRead

\* Writing to the content stream changes nothing else, and ending it only counts.
LEMMA WrittenRest ==
    ASSUME NEW f, DOMAIN f = FrameFields, NEW u
    PROVE  LET g == Written(f, u)
           IN  /\ DOMAIN g = FrameFields
               /\ \A x \in FrameFields \ {"file", "content", "late"} : g[x] = f[x]
               /\ ~ f.gzip => (g.late <=> f.late \/ f.eofs > 0)
<1>1. CASE f.gzip
  BY <1>1 DEF Written, Unpacked, FrameFields
<1>2. CASE ~ f.gzip
  BY <1>2 DEF Written, FrameFields
<1> QED BY <1>1, <1>2

LEMMA EndWrittenRest ==
    ASSUME NEW f, DOMAIN f = FrameFields
    PROVE  LET g == EndWritten(f)
           IN  /\ DOMAIN g = FrameFields
               /\ \A x \in FrameFields \ {"file", "eofs", "late"} : g[x] = f[x]
               /\ ~ f.gzip => g.eofs = f.eofs + 1 /\ (g.late <=> f.late \/ f.eofs > 0)
<1>1. CASE f.gzip
  BY <1>1 DEF EndWritten, FrameFields
<1>2. CASE ~ f.gzip
  BY <1>2 DEF EndWritten, FrameFields
<1> QED BY <1>1, <1>2

LEMMA LengthRest ==
    ASSUME NEW f, DOMAIN f = FrameFields, NEW u
    PROVE  LET g == LengthBodyFrame(f, u)
           IN  /\ DOMAIN g = FrameFields
               /\ \A x \in FrameFields \ {"file", "content", "eofs", "late", "bytes_expected",
                                          "body_frame"} : g[x] = f[x]
               /\ g.body_frame \in {f.body_frame, "done_state"}
               /\ ~ f.gzip /\ f.eofs = 0 /\ ~ f.late =>
                    /\ ~ g.late
                    /\ f.body_frame = "start" =>
                         g.eofs = IF g.body_frame = "done_state" THEN 1 ELSE 0
<1> DEFINE w == Written(f, u)
           e == EndWritten(w)
<1>1. /\ DOMAIN w = FrameFields
      /\ \A x \in FrameFields \ {"file", "content", "late"} : w[x] = f[x]
      /\ ~ f.gzip => (w.late <=> f.late \/ f.eofs > 0)
  BY WrittenRest
<1>2. w.gzip = f.gzip /\ w.eofs = f.eofs
  BY <1>1 DEF FrameFields
<1> HIDE DEF w
<1>3. /\ DOMAIN e = FrameFields
      /\ \A x \in FrameFields \ {"file", "eofs", "late"} : e[x] = w[x]
      /\ ~ w.gzip => e.eofs = w.eofs + 1 /\ (e.late <=> w.late \/ w.eofs > 0)
  BY <1>1, EndWrittenRest
<1> HIDE DEF e
<1>4. CASE f.bytes_expected = 1
  <2>1. LengthBodyFrame(f, u) = [e EXCEPT !.bytes_expected = 0, !.body_frame = "done_state"]
    BY <1>4 DEF LengthBodyFrame, e, w
  <2> DEFINE g == LengthBodyFrame(f, u)
  <2>2. /\ DOMAIN g = FrameFields /\ g.body_frame = "done_state"
        /\ \A x \in FrameFields \ {"bytes_expected", "body_frame"} : g[x] = e[x]
    BY <1>3, <2>1 DEF FrameFields
  <2> HIDE DEF g
  <2>3. \A x \in FrameFields \ {"file", "content", "eofs", "late", "bytes_expected",
                                 "body_frame"} : g[x] = f[x]
    BY <1>1, <1>3, <2>2
  <2>4. g.late = e.late /\ g.eofs = e.eofs
    BY <2>2 DEF FrameFields
  <2>5. ASSUME ~ f.gzip, f.eofs = 0, ~ f.late PROVE ~ g.late /\ g.eofs = 1
    <3>1. ~ w.late /\ w.eofs = 0 /\ ~ w.gzip
      BY <1>1, <1>2, <2>5
    <3>2. ~ e.late /\ e.eofs = 1
      BY <1>3, <3>1
    <3> QED BY <2>4, <3>2
  <2> QED BY <2>2, <2>3, <2>5 DEF g
<1>5. CASE f.bytes_expected # 1
  <2>1. LengthBodyFrame(f, u) = [w EXCEPT !.bytes_expected = @ - 1]
    BY <1>5 DEF LengthBodyFrame, w
  <2> DEFINE g == LengthBodyFrame(f, u)
  <2>2. DOMAIN g = FrameFields /\ \A x \in FrameFields \ {"bytes_expected"} : g[x] = w[x]
    BY <1>1, <2>1 DEF FrameFields
  <2> HIDE DEF g
  <2>3. \A x \in FrameFields \ {"file", "content", "eofs", "late", "bytes_expected",
                                 "body_frame"} : g[x] = f[x]
    BY <1>1, <2>2
  <2>4. g.late = w.late /\ g.eofs = w.eofs /\ g.body_frame = f.body_frame
    BY <1>1, <2>2 DEF FrameFields
  <2>5. ASSUME ~ f.gzip, f.eofs = 0, ~ f.late PROVE ~ g.late /\ g.eofs = 0
    BY <1>1, <1>2, <2>4, <2>5
  <2> QED BY <2>2, <2>3, <2>4, <2>5 DEF g
<1> QED BY <1>4, <1>5

\* A chunked body goes from chunk to chunk, and through the headers behind the last.
LEMMA ChunksRest ==
    ASSUME NEW f, DOMAIN f = FrameFields, f.size \in Nat, f.body_frame \in ChunksRead,
           f.body_frame = "headers_frame_pending" => f.headers_frame \in HeadersRead,
           NEW u, u.kind = "size" => u.v[1] \in Nat
    PROVE  LET g == BodyChunksFrame(f, u)
           IN  /\ DOMAIN g = FrameFields /\ g.size \in Nat
               /\ g.body = f.body /\ g.state = f.state
               /\ g.body_frame \in ChunksRead \cup {"done_state", "failed"}
               /\ g.body_frame = "headers_frame_pending" => g.headers_frame \in HeadersRead
               /\ \/ g.headers = f.headers
                  \/ f.headers_frame \in HeadersRead /\ g.headers = HeadersFrame(f, u).headers
<1>1. CASE f.body_frame = "start_chunk_state"
  <2>1. CASE u.kind = "size"
    <3>1. BodyChunksFrame(f, u) = WriteDigit(f, u.v[1])
      BY <1>1, <2>1 DEF BodyChunksFrame, start_chunk_state
    <3>2. \A n \in Nat : n % Uint32 \in Nat
      BY WidthsAssumption
    <3> DEFINE size == (u.v[1] + IF f.digits = 0 THEN 0 ELSE 16 * f.size) % Uint32
    <3>3. size \in Nat
      BY <2>1, <3>2
    <3> HIDE DEF size
    <3>4. BodyChunksFrame(f, u) = [f EXCEPT !.size = size, !.digits = (@ + 1) % Uint8]
      BY <3>1 DEF WriteDigit, size, FrameFields
    <3> QED BY <1>1, <2>1, <3>3, <3>4 DEF ChunksRead, FrameFields
  <2>2. CASE u.kind # "size"
    BY <1>1, <2>2 DEF BodyChunksFrame, start_chunk_state, ChunksRead, FrameFields
  <2> QED BY <2>1, <2>2
<1>2. CASE f.body_frame = "expecting_LF_after_size_state"
  BY <1>2 DEF BodyChunksFrame, expecting_LF_after_size_state, ChunksRead, FrameFields,
              HeadersRead
<1>3. CASE f.body_frame = "chunk_frame_pending_state"
  <2> DEFINE l == LengthBodyFrame(f, u)
  <2>1. /\ DOMAIN l = FrameFields
        /\ \A x \in FrameFields \ {"file", "content", "eofs", "late", "bytes_expected",
                                   "body_frame"} : l[x] = f[x]
        /\ l.body_frame \in {f.body_frame, "done_state"}
    BY LengthRest
  <2>2. BodyChunksFrame(f, u) = AfterChunk(l)
    BY <1>3 DEF BodyChunksFrame, chunk_frame_pending_state
  <2> HIDE DEF l
  <2> QED BY <1>3, <2>1, <2>2 DEF AfterChunk, ChunksRead, FrameFields
<1>4. CASE f.body_frame = "expecting_CR_after_chunk_state"
  BY <1>4 DEF BodyChunksFrame, ChunksRead, FrameFields
<1>5. CASE f.body_frame = "expecting_LF_after_chunk_state"
  BY <1>5 DEF BodyChunksFrame, expecting_LF_after_chunk_state, ChunksRead, FrameFields
<1>6. CASE f.body_frame = "headers_frame_pending"
  <2> DEFINE h == HeadersFrame(f, u)
             e == EndWritten(h)
  <2>1. /\ DOMAIN h = FrameFields
        /\ h.headers_frame \in HeadersRead \cup {"done_state", "failed"}
        /\ \A x \in FrameFields \ {"headers_frame", "name", "value", "headers"} : h[x] = f[x]
    BY <1>6, HeadersRest
  <2>2. BodyChunksFrame(f, u) = AfterTrailers(h)
    BY <1>6 DEF BodyChunksFrame, trailers
  <2>7. h.headers = HeadersFrame(f, u).headers
    OBVIOUS
  <2> HIDE DEF h
  <2>3. /\ DOMAIN e = FrameFields
        /\ \A x \in FrameFields \ {"file", "eofs", "late"} : e[x] = h[x]
    BY <2>1, EndWrittenRest
  <2> HIDE DEF e
  <2>4. CASE h.headers_frame = "done_state"
    <3>1. BodyChunksFrame(f, u) = [e EXCEPT !.body_frame = "done_state"]
      BY <2>2, <2>4 DEF AfterTrailers, e
    <3> QED BY <1>6, <2>1, <2>3, <2>7, <3>1 DEF FrameFields
  <2>5. CASE h.headers_frame = "failed"
    <3>1. BodyChunksFrame(f, u) = [h EXCEPT !.body_frame = "failed"]
      BY <2>2, <2>5 DEF AfterTrailers
    <3> QED BY <1>6, <2>1, <2>7, <3>1 DEF FrameFields
  <2>6. CASE h.headers_frame \in HeadersRead
    <3>1. BodyChunksFrame(f, u) = h
      BY <2>2, <2>6 DEF AfterTrailers, HeadersRead
    <3> QED BY <1>6, <2>1, <2>6, <2>7, <3>1 DEF FrameFields, ChunksRead
  <2> QED BY <2>1, <2>4, <2>5, <2>6
<1> QED BY <1>1, <1>2, <1>3, <1>4, <1>5, <1>6 DEF ChunksRead

\* The body that is made is of one of the framings, and nothing is written to it yet.
LEMMA MadeBody ==
    ASSUME NEW f, DOMAIN f = FrameFields, f.body = "none"
    PROVE  LET g == make_body_frame(f)
           IN  /\ DOMAIN g = FrameFields
               /\ \A x \in {"size", "eofs", "late", "headers"} : g[x] = f[x]
               /\ \/ g.state = "done_state" /\ g.body = "none" /\ g.gzip = f.gzip
                     /\ g.body_frame = f.body_frame
                  \/ /\ g.state = "body_pending_state"
                     /\ \/ g.body \in {"length", "close"} /\ g.body_frame = f.body_frame
                        \/ g.body = "chunked" /\ g.body_frame = "start_chunk_state"
<1> DEFINE framing == BodyFraming(f)
           packed == Says(f, "Content-Encoding", "gzip")
           begun == [Go(f, "body_pending_state") EXCEPT !.body = framing, !.gzip = packed]
           expected == get_base_10(f, LengthName(f))
<1>1. framing \in {"none", "length", "chunked", "close"}
  BY DEF BodyFraming
<1>2. /\ framing = "none" => make_body_frame(f) = Go(f, "done_state")
      /\ framing = "length" => make_body_frame(f) = [begun EXCEPT !.bytes_expected = expected]
      /\ framing = "chunked" =>
             make_body_frame(f) = [begun EXCEPT !.body_frame = "start_chunk_state"]
      /\ framing = "close" => make_body_frame(f) = begun
  BY DEF make_body_frame
<1> HIDE DEF framing, packed, expected
<1>3. /\ DOMAIN begun = FrameFields /\ begun.state = "body_pending_state"
      /\ begun.body = framing /\ begun.body_frame = f.body_frame
      /\ \A x \in {"size", "eofs", "late", "headers"} : begun[x] = f[x]
  BY DEF Go, FrameFields
<1> HIDE DEF begun
<1>4. CASE framing = "none"
  BY <1>2, <1>4 DEF Go, FrameFields
<1>5. CASE framing = "length"
  BY <1>2, <1>3, <1>5 DEF FrameFields
<1>6. CASE framing = "chunked"
  BY <1>2, <1>3, <1>6 DEF FrameFields
<1>7. CASE framing = "close"
  BY <1>2, <1>3, <1>7
<1> QED BY <1>1, <1>4, <1>5, <1>6, <1>7

-------------------------------------------------------------------------------
(* One unit of the message.                                                    *)

\* The start line, and what follows it: only the state of the frame is of interest.
LEMMA StartLineRead ==
    ASSUME NEW m \in Messages, NEW f, Shaped(f, m), f.state \in StartLine[m.kind], NEW u
    PROVE  LET g == Read(f, u, m)
           IN  /\ DOMAIN g = FrameFields
               /\ \A x \in FrameFields \ {"state", "code"} : g[x] = f[x]
               /\ g.state \in StartLine[m.kind] \cup {"headers_frame_pending_state", "failed"}
<1>1. m.kind \in {"request", "response"}
  BY MessagesAssumption
<1>2. DOMAIN f = FrameFields
  BY DEF Shaped
<1>3. CASE m.kind = "request"
  <2>1. f.state \in StartLine["request"] /\ Read(f, u, m) = RequestFrame(f, u)
    BY <1>3 DEF Read, StartLine
  <2> QED BY <1>2, <1>3, <2>1 DEF RequestFrame, Go, Expect, StartLine, FrameFields
<1>4. CASE m.kind = "response"
  <2>1. f.state \in StartLine["response"] /\ Read(f, u, m) = ResponseFrame(f, u)
    BY <1>4 DEF Read, StartLine
  <2>2. CASE f.state = "receiving_code_state"
    <3>1. Read(f, u, m) = receiving_code_state(f, u)
      BY <2>1, <2>2 DEF ResponseFrame
    <3> QED BY <1>2, <1>4, <3>1 DEF receiving_code_state, Go, StartLine, FrameFields
  <2>3. CASE f.state # "receiving_code_state"
    BY <1>2, <1>4, <2>1, <2>3 DEF ResponseFrame, Go, Expect, StartLine, FrameFields
  <2> QED BY <2>2, <2>3
<1> QED BY <1>1, <1>3, <1>4

LEMMA StartLineKeeps ==
    ASSUME NEW m \in Messages, NEW f, Shaped(f, m), Ends(f), f.state \in StartLine[m.kind], NEW u
    PROVE  Shaped(Read(f, u, m), m) /\ Ends(Read(f, u, m))
<1> DEFINE g == Read(f, u, m)
<1>1. /\ DOMAIN g = FrameFields
      /\ \A x \in FrameFields \ {"state", "code"} : g[x] = f[x]
      /\ g.state \in StartLine[m.kind] \cup {"headers_frame_pending_state", "failed"}
  BY StartLineRead
<1>2. /\ f.state \notin {"headers_frame_pending_state", "body_pending_state", "done_state", "failed"}
      /\ m.kind \in {"request", "response"}
  BY MessagesAssumption DEF StartLine
<1>3. /\ f.body = "none" /\ f.headers_frame = "expecting_name_state" /\ f.size \in Nat
      /\ f.body_frame = "start" /\ f.eofs = 0 /\ ~ f.late
  BY <1>2 DEF Shaped, Ends
<1> HIDE DEF g
<1>4. /\ g.body = f.body /\ g.headers_frame = f.headers_frame /\ g.size = f.size
      /\ g.body_frame = f.body_frame /\ g.eofs = f.eofs /\ g.late = f.late /\ g.gzip = f.gzip
  BY <1>1 DEF FrameFields
<1>5. Shaped(g, m)
  BY <1>1, <1>3, <1>4 DEF Shaped, HeadersRead
<1>6. Ends(g)
  BY <1>3, <1>4 DEF Ends
<1> QED BY <1>5, <1>6 DEF g

\* When the headers are done a body is begun, or the message is at its end.
LEMMA HeadersKeep ==
    ASSUME NEW m \in Messages, NEW f, Shaped(f, m), Ends(f),
           f.state = "headers_frame_pending_state", NEW u
    PROVE  Shaped(Read(f, u, m), m) /\ Ends(Read(f, u, m))
<1> DEFINE g == Read(f, u, m)
           h == HeadersFrame(f, u)
           b == make_body_frame(h)
<1>1. f.state \notin StartLine[m.kind]
  BY MessagesAssumption DEF StartLine
<1>2. /\ DOMAIN f = FrameFields /\ f.body = "none" /\ f.headers_frame \in HeadersRead
      /\ f.size \in Nat /\ f.body_frame = "start" /\ f.eofs = 0 /\ ~ f.late
  BY <1>1 DEF Shaped, Ends
<1>3. /\ DOMAIN h = FrameFields
      /\ h.headers_frame \in HeadersRead \cup {"done_state", "failed"}
      /\ \A x \in FrameFields \ {"headers_frame", "name", "value", "headers"} : h[x] = f[x]
  BY <1>2, HeadersRest
<1>4. g = AfterHeaders(h, m)
  BY DEF Read, headers_frame_pending_state
<1> HIDE DEF g, h
<1>5. /\ h.state = "headers_frame_pending_state" /\ h.body = "none" /\ h.size \in Nat
      /\ h.body_frame = "start" /\ h.eofs = 0 /\ ~ h.late /\ h.gzip = f.gzip
  BY <1>2, <1>3 DEF FrameFields
<1>6. ASSUME NEW state \in {"done_state", "failed"}, g = Go(h, state)
      PROVE  Shaped(g, m) /\ Ends(g)
  <2>1. /\ DOMAIN g = FrameFields /\ g.state = state /\ g.body = "none" /\ g.size \in Nat
        /\ g.body_frame = "start" /\ g.eofs = 0 /\ g.late = h.late
    BY <1>3, <1>5, <1>6 DEF Go, FrameFields
  <2> QED BY <1>5, <1>6, <2>1 DEF Shaped, Ends, g
<1>7. CASE g = h /\ h.headers_frame \in HeadersRead
  BY <1>3, <1>5, <1>7 DEF Shaped, Ends, g
<1>8. CASE g = b
  <2>1. /\ DOMAIN b = FrameFields
        /\ \A x \in {"size", "eofs", "late", "headers"} : b[x] = h[x]
        /\ \/ /\ b.state = "done_state" /\ b.body = "none" /\ b.gzip = h.gzip
              /\ b.body_frame = h.body_frame
           \/ /\ b.state = "body_pending_state"
              /\ \/ b.body \in {"length", "close"} /\ b.body_frame = h.body_frame
                 \/ b.body = "chunked" /\ b.body_frame = "start_chunk_state"
    BY <1>3, <1>5, MadeBody
  <2> HIDE DEF b
  <2>2. b.size \in Nat /\ b.eofs = 0 /\ b.late = h.late
    BY <1>5, <2>1
  <2> QED BY <1>5, <1>8, <2>1, <2>2 DEF Shaped, Ends, ChunksRead, g
<1>9. \/ g = h /\ h.headers_frame \in HeadersRead
      \/ g = b
      \/ \E state \in {"done_state", "failed"} : g = Go(h, state)
  BY <1>3, <1>4 DEF AfterHeaders, HeadersRead
<1> QED BY <1>6, <1>7, <1>8, <1>9 DEF g

\* The body is read to its end, and ended once.
LEMMA BodyKeeps ==
    ASSUME NEW m \in Messages, NEW f, Shaped(f, m), Ends(f), f.state = "body_pending_state",
           NEW u, u.kind = "size" => u.v[1] \in Nat
    PROVE  Shaped(Read(f, u, m), m) /\ Ends(Read(f, u, m))
<1> DEFINE g == Read(f, u, m)
           b == BodyFrame(f, u)
<1>1. f.state \notin StartLine[m.kind]
  BY MessagesAssumption DEF StartLine
<1>2. /\ DOMAIN f = FrameFields /\ f.size \in Nat /\ f.body \in {"length", "chunked", "close"}
      /\ f.body = "chunked" => /\ f.body_frame \in ChunksRead
                               /\ f.body_frame = "headers_frame_pending" =>
                                      f.headers_frame \in HeadersRead
      /\ f.body # "chunked" => f.body_frame = "start" /\ (~ f.gzip => f.eofs = 0 /\ ~ f.late)
  BY <1>1 DEF Shaped, Ends
<1>3. g = AfterBody(b)
  BY DEF Read, body_pending_state
<1> HIDE DEF g, b
<1>4. CASE f.body = "length"
  <2>1. b = LengthBodyFrame(f, u)
    BY <1>4 DEF b, BodyFrame
  <2>2. /\ DOMAIN b = FrameFields
        /\ \A x \in FrameFields \ {"file", "content", "eofs", "late", "bytes_expected",
                                   "body_frame"} : b[x] = f[x]
        /\ b.body_frame \in {f.body_frame, "done_state"}
        /\ ~ f.gzip /\ f.eofs = 0 /\ ~ f.late =>
             /\ ~ b.late
             /\ f.body_frame = "start" => b.eofs = IF b.body_frame = "done_state" THEN 1 ELSE 0
    BY <1>2, <2>1, LengthRest
  <2>3. /\ b.state = "body_pending_state" /\ b.body = "length" /\ b.size \in Nat
        /\ b.gzip = f.gzip /\ b.body_frame \in {"start", "done_state"}
        /\ ~ b.gzip => /\ ~ b.late
                       /\ b.eofs = IF b.body_frame = "done_state" THEN 1 ELSE 0
    BY <1>2, <1>4, <2>2 DEF FrameFields
  <2>4. CASE b.body_frame = "done_state"
    <3>1. g = Go(b, "done_state")
      BY <1>3, <2>4 DEF AfterBody
    <3>2. /\ DOMAIN g = FrameFields /\ g.state = "done_state" /\ g.body = "length"
          /\ g.size = b.size /\ g.gzip = b.gzip /\ g.eofs = b.eofs /\ g.late = b.late
      BY <2>2, <2>3, <3>1 DEF Go, FrameFields
    <3> QED BY <2>3, <2>4, <3>2 DEF Shaped, Ends, g
  <2>5. CASE b.body_frame = "start"
    <3>1. g = b
      BY <1>3, <2>5 DEF AfterBody
    <3> QED BY <2>2, <2>3, <2>5, <3>1 DEF Shaped, Ends, g
  <2> QED BY <2>3, <2>4, <2>5
<1>5. CASE f.body = "chunked"
  <2>1. b = BodyChunksFrame(f, u)
    BY <1>5 DEF b, BodyFrame
  <2>2. /\ DOMAIN b = FrameFields /\ b.size \in Nat
        /\ b.body = f.body /\ b.state = f.state
        /\ b.body_frame \in ChunksRead \cup {"done_state", "failed"}
        /\ b.body_frame = "headers_frame_pending" => b.headers_frame \in HeadersRead
    BY <1>2, <1>5, <2>1, ChunksRest
  <2>3. CASE b.body_frame \in {"done_state", "failed"}
    <3>1. g = Go(b, b.body_frame)
      BY <1>3, <2>3 DEF AfterBody
    <3>2. /\ DOMAIN g = FrameFields /\ g.state \in {"done_state", "failed"}
          /\ g.body = "chunked" /\ g.size = b.size
      BY <1>5, <2>2, <2>3, <3>1 DEF Go, FrameFields
    <3> QED BY <2>2, <3>2 DEF Shaped, Ends, g
  <2>4. CASE b.body_frame \in ChunksRead
    <3>1. g = b
      BY <1>3, <2>4 DEF AfterBody, ChunksRead
    <3> QED BY <1>5, <2>2, <2>4, <3>1 DEF Shaped, Ends, g
  <2> QED BY <2>2, <2>3, <2>4
<1>6. CASE f.body = "close"
  <2>1. b = Written(f, u)
    BY <1>6 DEF b, BodyFrame
  <2>2. /\ DOMAIN b = FrameFields
        /\ \A x \in FrameFields \ {"file", "content", "late"} : b[x] = f[x]
        /\ ~ f.gzip => (b.late <=> f.late \/ f.eofs > 0)
    BY <1>2, <2>1, WrittenRest
  <2>3. /\ b.state = "body_pending_state" /\ b.body = "close" /\ b.size \in Nat
        /\ b.gzip = f.gzip /\ b.body_frame = "start" /\ b.eofs = f.eofs
    BY <1>2, <1>6, <2>2 DEF FrameFields
  <2>4. ~ b.gzip => b.eofs = 0 /\ ~ b.late
    BY <1>2, <1>6, <2>2, <2>3
  <2>5. g = b
    BY <1>3, <2>3 DEF AfterBody
  <2> QED BY <2>2, <2>3, <2>4, <2>5 DEF Shaped, Ends, g
<1> QED BY <1>2, <1>4, <1>5, <1>6

LEMMA ReadKeeps ==
    ASSUME MInv, Reading, NEW u, u.kind = "size" => u.v[1] \in Nat
    PROVE  LET g == Read(frame, u, message) IN Shaped(g, message) /\ Ends(g)
<1>1. \/ frame.state \in StartLine[message.kind]
      \/ frame.state \in {"headers_frame_pending_state", "body_pending_state"}
  BY DEF MInv, Shaped, Reading
<1> QED BY <1>1, StartLineKeeps, HeadersKeep, BodyKeeps DEF MInv

\* The connection ends the body that has no other end.
LEMMA EndingKeeps ==
    ASSUME MInv
    PROVE  LET g == DisconnectBodyFrame(frame) IN Shaped(g, message) /\ Ends(g)
<1> DEFINE f == frame
           g == DisconnectBodyFrame(f)
           e == EndWritten(f)
<1>1. DOMAIN f = FrameFields /\ Shaped(f, message) /\ Ends(f) /\ f.size \in Nat
  BY DEF MInv, Shaped
<1>2. CASE f.state = "body_pending_state" /\ f.body = "close"
  <2>1. f.body_frame = "start" /\ (~ f.gzip => f.eofs = 0 /\ ~ f.late)
    BY <1>1, <1>2 DEF Ends
  <2>2. /\ DOMAIN e = FrameFields
        /\ \A x \in FrameFields \ {"file", "eofs", "late"} : e[x] = f[x]
        /\ ~ f.gzip => e.eofs = f.eofs + 1 /\ (e.late <=> f.late \/ f.eofs > 0)
    BY <1>1, EndWrittenRest
  <2>3. g = [e EXCEPT !.body_frame = "done_state", !.state = "done_state"]
    BY <1>2 DEF DisconnectBodyFrame
  <2> HIDE DEF e, g
  <2>4. /\ DOMAIN g = FrameFields /\ g.state = "done_state" /\ g.body = "close"
        /\ g.size \in Nat /\ g.gzip = f.gzip /\ g.eofs = e.eofs /\ g.late = e.late
    BY <1>1, <1>2, <2>2, <2>3 DEF FrameFields
  <2>5. ~ g.gzip => g.eofs = 1 /\ ~ g.late
    BY <2>1, <2>2, <2>4
  <2> QED BY <2>4, <2>5 DEF Shaped, Ends, g
<1>3. CASE ~ (f.state = "body_pending_state" /\ f.body = "close")
  BY <1>1, <1>3 DEF DisconnectBodyFrame
<1> QED BY <1>2, <1>3

\* Both the unit that the sender meant and the one that comes instead of it are read.
LEMMA Units ==
    ASSUME MInv, Coming
    PROVE  LET u == message.units[position + 1] IN u.kind = "size" => u.v[1] \in Nat
<1>1. position + 1 \in DOMAIN message.units
  BY MessagesAssumption DEF MInv, Coming
<1> QED BY <1>1, MessagesAssumption DEF MInv

LEMMA MInvStep == MInv /\ [Next]_vars => MInv'
<1> SUFFICES ASSUME MInv, [Next]_vars PROVE MInv'
  OBVIOUS
<1>1. CASE UNCHANGED vars
  BY <1>1 DEF vars, MInv
<1>2. CASE Receive
  <2>1. Coming /\ frame' = Read(frame, message.units[position + 1], message)
    BY <1>2 DEF Receive
  <2>2. Shaped(frame', message) /\ Ends(frame')
    BY <2>1, Units, ReadKeeps DEF Coming
  <2> QED BY <2>1, <2>2 DEF MInv, Coming
<1>3. CASE Garble
  <2>1. Coming /\ frame' = Read(frame, Unit("ctl", <<0>>), message)
    BY <1>3 DEF Garble
  <2>2. Shaped(frame', message) /\ Ends(frame')
    BY <2>1, ReadKeeps DEF Coming, Unit
  <2> QED BY <2>1, <2>2 DEF MInv, Coming
<1>4. CASE Ending
  <2>1. frame' = DisconnectBodyFrame(frame) /\ UNCHANGED <<message, position>>
    BY <1>4 DEF Ending
  <2> QED BY <2>1, EndingKeeps DEF MInv
<1> QED BY <1>1, <1>2, <1>3, <1>4 DEF Next

\* Whatever has come of a message, the frames are in states that fit together, and their
\* bodies have ended no more than they should (RequestFrame, ResponseFrame, BodyFrame).
THEOREM FramesInvariance == Spec => []MInv
BY MInvStart, MInvStep, PTL DEF Spec

\* A body of a given length and one that ends with the connection end their stream when
\* they are done and only then, and nothing is written behind the end, wherever in the
\* message the connection is lost (LengthBodyFrame, DisconnectBodyFrame).
THEOREM BodiesEndLast == Spec => []EndsLast
<1>1. MInv => EndsLast
  BY DEF MInv, Ends, EndsLast
<1> QED BY <1>1, FramesInvariance, PTL

-------------------------------------------------------------------------------
(* The headers, which only grow.                                               *)

\* Of the intervals that end in the set, one is within all the others.
LEMMA Least ==
    ASSUME NEW I \in SUBSET Nat, I # {}
    PROVE  Min(I) \in I /\ \A i \in I : Min(I) <= i
<1> DEFINE T == {0 .. i : i \in I}
<1>1. T \subseteq FiniteSubsetsOf(Nat) /\ T # {}
  <2>1. \A i \in I : 0 .. i \in FiniteSubsetsOf(Nat)
    BY FS_Interval DEF FiniteSubsetsOf
  <2> QED BY <2>1
<1>2. PICK X \in T : \A Y \in T : <<Y, X>> \notin StrictSubsetOrdering(Nat)
  BY <1>1, FS_StrictSubsetOrderingWellFounded, WFMin
<1>3. PICK x \in I : X = 0 .. x
  OBVIOUS
<1>4. ASSUME NEW y \in I PROVE x <= y
  <2>1. CASE y < x
    <3>1. 0 .. y \in T /\ 0 .. y \subseteq 0 .. x /\ x \notin 0 .. y /\ x \in 0 .. x
      BY <2>1
    <3>2. <<0 .. y, X>> \in StrictSubsetOrdering(Nat)
      BY <1>3, <3>1 DEF StrictSubsetOrdering
    <3> QED BY <1>2, <3>1, <3>2
  <2> QED BY <2>1
<1> QED BY <1>4 DEF Min

\* The header that is found is the first of its name.
LEMMA FirstOfName ==
    ASSUME NEW S, NEW f, f.headers \in Seq(S), NEW name,
           NEW n \in 1 .. Len(f.headers), f.headers[n].name = <<name>>
    PROVE  \E k \in 1 .. Len(f.headers) :
             /\ f.headers[k].name = <<name>> /\ get_string(f, name) = f.headers[k].value
             /\ \A i \in 1 .. Len(f.headers) : f.headers[i].name = <<name>> => k <= i
<1> DEFINE I == {i \in 1 .. Len(f.headers) : f.headers[i].name = <<name>>}
<1>1. I \in SUBSET Nat /\ I # {}
  OBVIOUS
<1>2. SelectInSeq(f.headers, LAMBDA h : h.name = <<name>>) = Min(I)
  BY <1>1 DEF SelectInSeq
<1> HIDE DEF I
<1>3. Min(I) \in I /\ \A i \in I : Min(I) <= i
  BY <1>1, Least
<1> QED BY <1>2, <1>3 DEF I, get_string

LEMMA SameValue ==
    ASSUME NEW f, NEW g, f.headers \in Seq(ToSet(f.headers)), NEW h,
           g.headers = f.headers \/ g.headers = Append(f.headers, h)
    PROVE  /\ g.headers \in Seq(ToSet(g.headers))
           /\ \A name : Has(f, name) => get_string(f, name) = get_string(g, name)
<1> DEFINE a == f.headers
           b == g.headers
           S == ToSet(a) \cup {h}
<1>1. /\ a \in Seq(S) /\ b \in Seq(S)
      /\ DOMAIN a = 1 .. Len(a) /\ Len(a) <= Len(b) /\ \A i \in 1 .. Len(a) : a[i] = b[i]
      /\ Len(a) \in Nat /\ Len(b) \in Nat /\ Len(b) <= Len(a) + 1 /\ DOMAIN b = 1 .. Len(b)
  <2>1. a \in Seq(S) /\ Len(a) \in Nat /\ DOMAIN a = 1 .. Len(a)
    BY DEF ToSet
  <2>2. CASE b = a
    BY <2>1, <2>2
  <2>3. CASE b = Append(a, h)
    <3>1. h \in S
      OBVIOUS
    <3> HIDE DEF S
    <3> QED BY <2>1, <2>3, <3>1
  <2> QED BY <2>1, <2>2, <2>3
<1>2. b \in Seq(ToSet(b))
  <2>1. \A i \in 1 .. Len(b) : b[i] \in ToSet(b)
    BY <1>1 DEF ToSet
  <2>2. b \in [1 .. Len(b) -> ToSet(b)]
    BY <1>1, <2>1
  <2> QED BY <1>1, <2>2 
<1>3. ASSUME NEW name, Has(f, name) PROVE get_string(f, name) = get_string(g, name)
  <2>1. PICK n \in 1 .. Len(a) : a[n].name = <<name>>
    BY <1>1, <1>3 DEF Has, Values, ToSet
  <2>2. n \in 1 .. Len(b) /\ b[n].name = <<name>>
    BY <1>1, <2>1
  <2>3. PICK k \in 1 .. Len(a) :
             /\ a[k].name = <<name>> /\ get_string(f, name) = a[k].value
             /\ \A i \in 1 .. Len(a) : a[i].name = <<name>> => k <= i
    BY <1>1, <2>1, FirstOfName
  <2>4. PICK l \in 1 .. Len(b) :
             /\ b[l].name = <<name>> /\ get_string(g, name) = b[l].value
             /\ \A i \in 1 .. Len(b) : b[i].name = <<name>> => l <= i
    BY <1>1, <2>2, FirstOfName
  <2>5. k = l
    <3>1. k \in 1 .. Len(b) /\ b[k].name = <<name>>
      BY <1>1, <2>3
    <3>2. l <= k
      BY <2>4, <3>1
    <3>3. l \in 1 .. Len(a)
      BY <1>1, <2>3, <2>4, <3>2
    <3>4. k <= l
      BY <1>1, <2>3, <2>4, <3>3
    <3> HIDE DEF a, b
    <3> QED BY <1>1, <3>1, <3>2, <3>3, <3>4
  <2> QED BY <1>1, <2>3, <2>4, <2>5
<1> QED BY <1>2, <1>3

\* A header that has been read goes behind the others.
LEMMA HeadersGrow ==
    ASSUME NEW f, DOMAIN f = FrameFields, NEW u, f.headers_frame \in HeadersRead
    PROVE  \E h : HeadersFrame(f, u).headers \in {f.headers, Append(f.headers, h)}
<1> DEFINE h == [name |-> f.name, value |-> f.value]
<1>1. CASE f.headers_frame = "expecting_next_header_state"
  <2>1. HeadersFrame(f, u) = expecting_next_header_state(f, u)
    BY <1>1 DEF HeadersFrame
  <2>2. HeadersFrame(f, u).headers \in {f.headers, Append(f.headers, h)}
    BY <2>1 DEF expecting_next_header_state, Inserted, In, FrameFields
  <2> QED BY <2>2
<1>2. CASE f.headers_frame # "expecting_next_header_state"
  <2>1. HeadersFrame(f, u).headers = f.headers
    BY <1>2 DEF HeadersFrame, expecting_name_state, receiving_name_state,
       expecting_colon_state, expecting_value_state, receiving_value_state, In, HeadersRead,
       FrameFields
  <2> QED BY <2>1
<1> QED BY <1>1, <1>2

LEMMA ReadGrows ==
    ASSUME MInv, Reading, NEW u, u.kind = "size" => u.v[1] \in Nat
    PROVE  \E h : Read(frame, u, message).headers \in {frame.headers, Append(frame.headers, h)}
<1> DEFINE f == frame
           m == message
           g == Read(f, u, m)
<1>1. m \in Messages /\ Shaped(f, m) /\ DOMAIN f = FrameFields
  BY DEF MInv, Shaped
<1>2. CASE f.state \in StartLine[m.kind]
  <2>1. g.headers = f.headers
    BY <1>1, <1>2, StartLineRead DEF FrameFields
  <2> QED BY <2>1
<1>3. CASE f.state = "headers_frame_pending_state"
  <2> DEFINE h == HeadersFrame(f, u)
  <2>1. f.headers_frame \in HeadersRead /\ f.body = "none"
    <3>1. f.state \notin StartLine[m.kind]
      BY <1>1, <1>3, MessagesAssumption DEF StartLine
    <3> QED BY <1>1, <1>3, <3>1 DEF Shaped
  <2>2. /\ DOMAIN h = FrameFields
        /\ \A x \in FrameFields \ {"headers_frame", "name", "value", "headers"} : h[x] = f[x]
    BY <1>1, <2>1, HeadersRest
  <2>3. g = AfterHeaders(h, m)
    BY <1>3 DEF Read, headers_frame_pending_state
  <2>4. \E x : h.headers \in {f.headers, Append(f.headers, x)}
    BY <1>1, <2>1, HeadersGrow
  <2>5. h.headers_frame \in HeadersRead \cup {"done_state", "failed"}
    BY <1>1, <2>1, HeadersRest
  <2> HIDE DEF g, h
  <2>6. h.body = "none"
    BY <2>1, <2>2 DEF FrameFields
  <2>7. make_body_frame(h).headers = h.headers
    BY <2>2, <2>6, MadeBody
  <2>8. \A state : Go(h, state).headers = h.headers
    BY <2>2 DEF Go, FrameFields
  <2>9. g.headers = h.headers
    BY <2>3, <2>5, <2>7, <2>8 DEF AfterHeaders
  <2> QED BY <2>4, <2>9 DEF g
<1>4. CASE f.state = "body_pending_state"
  <2> DEFINE b == BodyFrame(f, u)
  <2>1. /\ f.body \in {"length", "chunked", "close"} /\ f.size \in Nat
        /\ f.body = "chunked" => /\ f.body_frame \in ChunksRead
                                 /\ f.body_frame = "headers_frame_pending" =>
                                        f.headers_frame \in HeadersRead
    BY <1>1, <1>4, MessagesAssumption DEF Shaped, StartLine
  <2>2. g = AfterBody(b)
    BY <1>4 DEF Read, body_pending_state
  <2>3. DOMAIN b = FrameFields /\ \E x : b.headers \in {f.headers, Append(f.headers, x)}
    <3>1. CASE f.body = "length"
      <4>1. b = LengthBodyFrame(f, u)
        BY <3>1 DEF BodyFrame
      <4> HIDE DEF b
      <4>2. DOMAIN b = FrameFields /\ b.headers = f.headers
        BY <1>1, <4>1, LengthRest DEF FrameFields
      <4> QED BY <4>2
    <3>2. CASE f.body = "chunked"
      <4>1. b = BodyChunksFrame(f, u)
        BY <3>2 DEF BodyFrame
      <4> HIDE DEF b
      <4>2. /\ DOMAIN b = FrameFields
            /\ \/ b.headers = f.headers
               \/ f.headers_frame \in HeadersRead /\ b.headers = HeadersFrame(f, u).headers
        BY <1>1, <2>1, <3>2, <4>1, ChunksRest
      <4> QED BY <1>1, <4>2, HeadersGrow
    <3>3. CASE f.body = "close"
      <4>1. b = Written(f, u)
        BY <3>3 DEF BodyFrame
      <4> HIDE DEF b
      <4>2. DOMAIN b = FrameFields /\ b.headers = f.headers
        BY <1>1, <4>1, WrittenRest DEF FrameFields
      <4> QED BY <4>2
    <3> QED BY <2>1, <3>1, <3>2, <3>3
  <2> HIDE DEF b, g
  <2>4. g.headers = b.headers
    BY <2>2, <2>3 DEF AfterBody, Go, FrameFields
  <2> QED BY <2>3, <2>4 DEF g
<1>5. f.state \in StartLine[m.kind] \cup {"headers_frame_pending_state", "body_pending_state"}
  BY <1>1 DEF Shaped, Reading
<1> QED BY <1>2, <1>3, <1>4, <1>5

LEMMA EndingGrows ==
    ASSUME MInv
    PROVE  DisconnectBodyFrame(frame).headers = frame.headers
<1>1. DOMAIN frame = FrameFields
  BY DEF MInv, Shaped
<1> DEFINE e == EndWritten(frame)
<1>2. DOMAIN e = FrameFields /\ e.headers = frame.headers
  BY <1>1, EndWrittenRest DEF FrameFields
<1>3. DisconnectBodyFrame(frame) \in
        {[e EXCEPT !.body_frame = "done_state", !.state = "done_state"], frame}
  BY DEF DisconnectBodyFrame
<1> HIDE DEF e
<1> QED BY <1>2, <1>3 DEF FrameFields

\* Every header that a step adds goes behind those there are.
LEMMA HeadersStep ==
    ASSUME MInv, [Next]_vars
    PROVE  \E h : frame'.headers \in {frame.headers, Append(frame.headers, h)}
<1>1. CASE UNCHANGED vars
  BY <1>1 DEF vars
<1>2. CASE Receive
  BY <1>2, Units, ReadGrows DEF Receive, Coming
<1>3. CASE Garble
  <2>1. Unit("ctl", <<0>>).kind # "size"
    BY DEF Unit
  <2> QED BY <1>3, <2>1, ReadGrows DEF Garble, Coming
<1>4. CASE Ending
  BY <1>4, EndingGrows DEF Ending
<1> QED BY <1>1, <1>2, <1>3, <1>4 DEF Next

Listed == frame.headers \in Seq(ToSet(frame.headers))

LEMMA ListedStep ==
    MInv /\ Listed /\ [Next]_vars =>
        /\ Listed'
        /\ \A h \in ToSet(frame.headers) : Has(frame, h.name[1]) =>
               get_string(frame, h.name[1]) = get_string(frame', h.name[1])
<1> SUFFICES ASSUME MInv, Listed, [Next]_vars
             PROVE  /\ Listed'
                    /\ \A name : Has(frame, name) =>
                           get_string(frame, name) = get_string(frame', name)
  OBVIOUS
<1>1. PICK h : frame'.headers \in {frame.headers, Append(frame.headers, h)}
  BY HeadersStep
<1> QED BY <1>1, SameValue DEF Listed

LEMMA ListedStart == Init => Listed
<1> SUFFICES ASSUME Init PROVE Listed
  OBVIOUS
<1>1. frame.headers = <<>>
  BY DEF Init, Start
<1> QED BY <1>1 DEF Listed

\* What a header said when the message was framed by it, it says to the end: the
\* headers behind the last chunk, and those that come twice, only add to the list
\* (HeadersFrame::process_event, NameValueCollection::get_string).
THEOREM HeadersStay == Spec => HeadersKept
<1>1. Spec => [](MInv /\ Listed)
  <2>1. MInv /\ Listed /\ [Next]_vars => MInv' /\ Listed'
    BY MInvStep, ListedStep
  <2> QED BY <2>1, MInvStart, ListedStart, PTL DEF Spec
<1>2. MInv /\ Listed /\ [Next]_vars =>
        [\A h \in ToSet(frame.headers) : Has(frame, h.name[1]) =>
            get_string(frame, h.name[1]) = get_string(frame', h.name[1])]_vars
  BY ListedStep
<1> QED BY <1>1, <1>2, PTL DEF Spec, HeadersKept

-------------------------------------------------------------------------------
(* Messages that are well made. The frame agrees with the sender on where in the     *)
(* message they are, on the headers and on the content that has been sent.           *)

PointFields == {"at", "code", "headers", "name", "value", "trailing", "size", "digits",
                "left", "sent"}

RequestAt == {<<"method", "receiving_method_state">>, <<"target", "receiving_resource_state">>,
    <<"protocol", "receiving_protocol_state">>,
    <<"end of start line", "expecting_LF_after_protocol_state">>}

StatusAt == {<<"version", "receiving_protocol_state">>, <<"code", "receiving_code_state">>,
    <<"coded", "receiving_code_state">>, <<"reason", "receiving_reason_state">>,
    <<"end of start line", "expecting_LF_after_reason_state">>}

HeadersAt == {<<"header", "expecting_name_state">>, <<"named", "receiving_name_state">>,
    <<"spaced", "expecting_colon_state">>, <<"value", "expecting_value_state">>,
    <<"valued", "receiving_value_state">>, <<"end of line", "expecting_LF_after_value_state">>,
    <<"next", "expecting_next_header_state">>,
    <<"end of headers", "expecting_LF_after_headers_state">>}

Unbegun(f) == f.body = "none" /\ f.body_frame = "start" /\ f.digits = 0

AtStartLine(f, p, m) ==
    /\ <<p.at, f.state>> \in IF m.kind = "request" THEN RequestAt ELSE StatusAt
    /\ p.at = "coded" => f.code \in 100 .. 599
    /\ f.headers_frame = "expecting_name_state" /\ Unbegun(f) /\ p.trailing = FALSE

\* The header that is being read is the one that is being sent.
HeaderAgrees(f, p) ==
    /\ <<p.at, f.headers_frame>> \in HeadersAt
    /\ p.at \notin {"header", "end of headers"} => f.name = p.name
    /\ p.at = "spaced" => f.value = <<>>
    /\ p.at \in {"value", "valued", "end of line", "next"} => f.value = p.value

AtHeaders(f, p, m) ==
    /\ HeaderAgrees(f, p)
    /\ \/ p.trailing = FALSE /\ f.state = "headers_frame_pending_state" /\ Unbegun(f)
       \/ /\ p.trailing = TRUE /\ m.framing = "chunked"
          /\ f.state = "body_pending_state" /\ f.body = "chunked"
          /\ f.body_frame = "headers_frame_pending"

InChunks(f, p) ==
    \/ p.at = "size" /\ f.body_frame = "start_chunk_state" /\ f.digits = 0
    \/ /\ p.at = "sized" /\ f.body_frame = "start_chunk_state"
       /\ p.digits \in Nat \ {0} /\ f.digits = p.digits /\ p.size \in Nat /\ f.size = p.size
    \/ /\ p.at = "end of size" /\ f.body_frame = "expecting_LF_after_size_state"
       /\ p.size \in Nat /\ f.size = p.size
    \/ /\ p.at = "chunk" /\ f.body_frame = "chunk_frame_pending_state"
       /\ p.left \in Nat \ {0} /\ f.bytes_expected = p.left
    \/ p.at = "after chunk" /\ f.body_frame = "expecting_CR_after_chunk_state"
    \/ p.at = "end of chunk" /\ f.body_frame = "expecting_LF_after_chunk_state"

AtBody(f, p, m) ==
    /\ f.state = "body_pending_state" /\ f.body = m.framing /\ p.trailing = FALSE
    /\ \/ /\ p.at = "body" /\ f.body = "length" /\ f.body_frame = "start"
          /\ p.left \in Nat \ {0} /\ f.bytes_expected = p.left
       \/ p.at = "open body" /\ f.body = "close" /\ f.body_frame = "start"
       \/ f.body = "chunked" /\ InChunks(f, p)

AtEnd(f, p, m) == p.at = "end" /\ f.state = "done_state" /\ m.framing # "close"

\* The content that has been sent is written, to no gzip frames.
SameContent(f, p, m) ==
    /\ f.file = NewFile /\ f.gzip = FALSE
    /\ p.sent \in 0 .. Len(m.content) /\ f.content = SubSeq(m.content, 1, p.sent)

Agrees(f, p, m) ==
    /\ DOMAIN f = FrameFields /\ DOMAIN p = PointFields
    /\ f.code = p.code /\ f.headers = p.headers
    /\ SameContent(f, p, m)
    /\ AtStartLine(f, p, m) \/ AtHeaders(f, p, m) \/ AtBody(f, p, m) \/ AtEnd(f, p, m)

\* Nothing has been sent, and nothing has been read.
LEMMA AgreesAtFirst ==
    ASSUME NEW m \in Messages
    PROVE  Agrees(Start(m), First(m), m)
<1> DEFINE f == Start(m)
           p == First(m)
<1>1. m.kind \in {"request", "response"} /\ m.content \in Seq(Nat)
  BY MessagesAssumption
<1>2. /\ DOMAIN f = FrameFields /\ DOMAIN p = PointFields
      /\ f.code = p.code /\ f.headers = p.headers
      /\ f.file = NewFile /\ f.gzip = FALSE /\ p.sent = 0 /\ f.content = <<>>
      /\ f.headers_frame = "expecting_name_state" /\ Unbegun(f) /\ p.trailing = FALSE
      /\ f.state = (IF m.kind = "request" THEN "receiving_method_state"
                    ELSE "receiving_protocol_state")
      /\ p.at = IF m.kind = "request" THEN "method" ELSE "version"
  BY DEF Start, First, Unbegun, FrameFields, PointFields
<1> HIDE DEF f, p
<1>3. SubSeq(m.content, 1, 0) = <<>> /\ 0 \in 0 .. Len(m.content)
  BY <1>1
<1>4. AtStartLine(f, p, m)
  BY <1>1, <1>2 DEF AtStartLine, RequestAt, StatusAt
<1> QED BY <1>2, <1>3, <1>4 DEF Agrees, SameContent, f, p

\* The lines and the bodies share no points.
LEMMA SentBy ==
    ASSUME NEW p, NEW u, NEW m
    PROVE  LET q == Sent(p, u, m)
           IN  /\ p.at \in RequestPoints => q = RequestLine(p, u)
               /\ p.at \in StatusPoints => q = StatusLine(p, u)
               /\ p.at = "end of start line" => q = IF u.kind = "LF" THEN At(p, "header")
                                                  ELSE Wrong(p)
               /\ p.at \in HeaderPoints => q = HeaderLine(p, u)
               /\ p.at = "end of headers" =>
                      q = IF u.kind # "LF" THEN Wrong(p)
                          ELSE IF p.trailing THEN At(p, "end") ELSE Body(p, m)
               /\ p.at \in PlainPoints => q = PlainBody(p, u, m)
               /\ p.at \in ChunkPoints => q = ChunkedBody(p, u, m)
               /\ p.at = "end" => q = Wrong(p)
<1> QED BY DEF Sent, RequestPoints, StatusPoints, HeaderPoints, PlainPoints, ChunkPoints

\* The start line.
LEMMA StartLineAgrees ==
    ASSUME NEW m \in Messages, NEW f, NEW p, Agrees(f, p, m), AtStartLine(f, p, m), NEW u,
           Sent(p, u, m).at # "wrong"
    PROVE  Agrees(Read(f, u, m), Sent(p, u, m), m)
<1> DEFINE g == Read(f, u, m)
           q == Sent(p, u, m)
<1>1. m.kind \in {"request", "response"}
  BY MessagesAssumption
<1>2. /\ DOMAIN f = FrameFields /\ DOMAIN p = PointFields
      /\ f.code = p.code /\ f.headers = p.headers
      /\ f.headers_frame = "expecting_name_state" /\ Unbegun(f) /\ p.trailing = FALSE
  BY DEF Agrees, AtStartLine
<1>3. SUFFICES /\ DOMAIN g = FrameFields /\ DOMAIN q = PointFields
               /\ \A x \in FrameFields \ {"state", "code"} : g[x] = f[x]
               /\ \A x \in PointFields \ {"at", "code"} : q[x] = p[x]
               /\ g.code = q.code
               /\ \/ /\ <<q.at, g.state>> \in IF m.kind = "request" THEN RequestAt ELSE StatusAt
                     /\ q.at = "coded" => g.code \in 100 .. 599
                  \/ q.at = "header" /\ g.state = "headers_frame_pending_state"
  <2> HIDE DEF g, q
  <2>1. /\ g.headers = q.headers /\ g.file = f.file /\ g.gzip = f.gzip /\ g.content = f.content
        /\ q.sent = p.sent /\ Unbegun(g) /\ q.trailing = FALSE
        /\ g.headers_frame = "expecting_name_state"
    BY <1>2, <1>3 DEF Unbegun, FrameFields, PointFields
  <2>2. SameContent(g, q, m)
    BY <2>1 DEF Agrees, SameContent
  <2>3. AtStartLine(g, q, m) \/ AtHeaders(g, q, m)
    BY <1>3, <2>1 DEF AtStartLine, AtHeaders, HeaderAgrees, HeadersAt
  <2> QED BY <1>3, <2>1, <2>2, <2>3 DEF Agrees, g, q
<1>4. DOMAIN Wrong(p) = PointFields /\ Wrong(p).at = "wrong" /\ q.at # "wrong"
  BY <1>2 DEF Wrong, At, PointFields
<1>5. /\ p.at \in RequestPoints => q = RequestLine(p, u)
      /\ p.at \in StatusPoints => q = StatusLine(p, u)
      /\ p.at = "end of start line" => u.kind = "LF" /\ q = At(p, "header")
  BY <1>4, SentBy
<1>6. CASE m.kind = "request"
  <2>1. <<p.at, f.state>> \in RequestAt
    BY <1>6 DEF AtStartLine
  <2>2. g = RequestFrame(f, u)
    BY <1>6, <2>1 DEF Read, RequestAt
  <2> HIDE DEF g, q
  <2>3. CASE p.at = "end of start line"
    <3>1. f.state = "expecting_LF_after_protocol_state"
      BY <2>1, <2>3 DEF RequestAt
    <3> QED BY <1>2, <1>5, <2>2, <2>3, <3>1
            DEF RequestFrame, Expect, Go, At, FrameFields, PointFields
  <2>4. CASE p.at # "end of start line"
    <3>1. p.at \in RequestPoints
      BY <2>1, <2>4 DEF RequestAt, RequestPoints
    <3>2. \/ IsToken(u) /\ q = p
          \/ u.kind = "SP" /\ p.at = "method" /\ q = At(p, "target")
          \/ u.kind = "SP" /\ p.at = "target" /\ q = At(p, "protocol")
          \/ u.kind = "CR" /\ p.at = "protocol" /\ q = At(p, "end of start line")
      BY <1>4, <1>5, <3>1 DEF RequestLine, RequestPoints, IsToken
    <3>3. CASE p.at = "method"
      <4>1. f.state = "receiving_method_state"
        BY <2>1, <3>3 DEF RequestAt
      <4> QED BY <1>2, <1>6, <2>2, <3>2, <3>3, <4>1
              DEF RequestFrame, RequestAt, At, Go, IsToken, FrameFields, PointFields
    <3>4. CASE p.at = "target"
      <4>1. f.state = "receiving_resource_state"
        BY <2>1, <3>4 DEF RequestAt
      <4> QED BY <1>2, <1>6, <2>2, <3>2, <3>4, <4>1
              DEF RequestFrame, RequestAt, At, Go, IsToken, FrameFields, PointFields
    <3>5. CASE p.at = "protocol"
      <4>1. f.state = "receiving_protocol_state"
        BY <2>1, <3>5 DEF RequestAt
      <4> QED BY <1>2, <1>6, <2>2, <3>2, <3>5, <4>1
              DEF RequestFrame, RequestAt, At, Go, IsToken, FrameFields, PointFields
    <3> QED BY <3>1, <3>3, <3>4, <3>5 DEF RequestPoints
  <2> QED BY <2>3, <2>4
<1>7. CASE m.kind = "response"
  <2>1. <<p.at, f.state>> \in StatusAt /\ (p.at = "coded" => f.code \in 100 .. 599)
    BY <1>7 DEF AtStartLine
  <2>2. g = ResponseFrame(f, u)
    BY <1>7, <2>1 DEF Read, StatusAt
  <2> HIDE DEF g, q
  <2>3. CASE p.at = "end of start line"
    <3>1. f.state = "expecting_LF_after_reason_state"
      BY <2>1, <2>3 DEF StatusAt
    <3> QED BY <1>2, <1>5, <2>2, <2>3, <3>1
            DEF ResponseFrame, Expect, Go, At, FrameFields, PointFields
  <2>4. CASE p.at # "end of start line"
    <3>1. p.at \in StatusPoints
      BY <2>1, <2>4 DEF StatusAt, StatusPoints
    <3>2. \/ p.at \in {"version", "reason"} /\ IsToken(u) /\ q = p
          \/ p.at = "version" /\ u.kind = "SP" /\ q = At(p, "code")
          \/ /\ p.at = "code" /\ u.kind = "number" /\ u.v[1] \in 100 .. 599
             /\ q = [At(p, "coded") EXCEPT !.code = u.v[1]]
          \/ p.at = "coded" /\ u.kind = "SP" /\ q = At(p, "reason")
          \/ p.at = "reason" /\ u.kind = "SP" /\ q = p
          \/ p.at \in {"coded", "reason"} /\ u.kind = "CR" /\ q = At(p, "end of start line")
      <4>1. CASE p.at = "version"
        BY <1>4, <1>5, <3>1, <4>1 DEF StatusLine, IsToken
      <4>2. CASE p.at = "code"
        BY <1>4, <1>5, <3>1, <4>2 DEF StatusLine
      <4>3. CASE p.at = "coded"
        BY <1>4, <1>5, <3>1, <4>3 DEF StatusLine
      <4>4. CASE p.at = "reason"
        BY <1>4, <1>5, <3>1, <4>4 DEF StatusLine, IsToken
      <4> QED BY <3>1, <4>1, <4>2, <4>3, <4>4 DEF StatusPoints
    <3>3. CASE p.at \in {"code", "coded"}
      <4>1. f.state = "receiving_code_state" /\ g = receiving_code_state(f, u)
        BY <2>1, <2>2, <3>3 DEF ResponseFrame, StatusAt
      <4>2. CASE p.at = "code"
        <5>1. /\ u.kind = "number" /\ u.v[1] \in 100 .. 599
              /\ q = [At(p, "coded") EXCEPT !.code = u.v[1]]
          BY <3>2, <4>2
        <5>2. g = [f EXCEPT !.code = u.v[1]]
          BY <4>1, <5>1 DEF receiving_code_state
        <5> QED BY <1>2, <1>7, <4>1, <5>1, <5>2 DEF StatusAt, At, FrameFields, PointFields
      <4>3. CASE p.at = "coded"
        <5>1. \/ u.kind = "SP" /\ q = At(p, "reason")
              \/ u.kind = "CR" /\ q = At(p, "end of start line")
          BY <3>2, <4>3
        <5>2. \/ u.kind = "SP" /\ g = Go(f, "receiving_reason_state")
              \/ u.kind = "CR" /\ g = Go(f, "expecting_LF_after_reason_state")
          BY <2>1, <4>1, <4>3, <5>1 DEF receiving_code_state
        <5> QED BY <1>2, <1>7, <4>1, <5>1, <5>2 DEF StatusAt, At, Go, FrameFields, PointFields
      <4> QED BY <3>3, <4>2, <4>3
    <3>4. CASE p.at = "version"
      <4>1. f.state = "receiving_protocol_state"
        BY <2>1, <3>4 DEF StatusAt
      <4>2. \/ IsToken(u) /\ q = p
            \/ u.kind = "SP" /\ q = At(p, "code")
        BY <3>2, <3>4
      <4>3. g = IF u.kind = "SP" THEN Go(f, "receiving_code_state") ELSE f
        BY <2>2, <4>1 DEF ResponseFrame
      <4> QED BY <1>2, <1>7, <3>4, <4>1, <4>2, <4>3
              DEF StatusAt, At, Go, IsToken, FrameFields, PointFields
    <3>5. CASE p.at = "reason"
      <4>1. f.state = "receiving_reason_state"
        BY <2>1, <3>5 DEF StatusAt
      <4>2. \/ (IsToken(u) \/ u.kind = "SP") /\ q = p
            \/ u.kind = "CR" /\ q = At(p, "end of start line")
        BY <3>2, <3>5
      <4>3. g = Go(f, IF u.kind = "CR" THEN "expecting_LF_after_reason_state"
                      ELSE "receiving_reason_state")
        BY <2>2, <4>1, <4>2 DEF ResponseFrame, IsToken
      <4> QED BY <1>2, <1>7, <3>5, <4>1, <4>2, <4>3
              DEF StatusAt, At, Go, IsToken, FrameFields, PointFields
    <3> QED BY <3>1, <3>3, <3>4, <3>5 DEF StatusPoints
  <2> QED BY <2>3, <2>4
<1> QED BY <1>1, <1>6, <1>7

\* A line of the headers, of the message or of those behind the last chunk.
LEMMA HeaderLineAgrees ==
    ASSUME NEW f, NEW p, DOMAIN f = FrameFields, DOMAIN p = PointFields,
           f.headers = p.headers, HeaderAgrees(f, p), p.at \in HeaderPoints, NEW u,
           HeaderLine(p, u).at # "wrong"
    PROVE  LET g == HeadersFrame(f, u)
               q == HeaderLine(p, u)
           IN  /\ DOMAIN q = PointFields /\ g.headers = q.headers /\ HeaderAgrees(g, q)
               /\ \A x \in PointFields \ {"at", "headers", "name", "value"} : q[x] = p[x]
<1> DEFINE g == HeadersFrame(f, u)
           q == HeaderLine(p, u)
           Same == \A x \in PointFields \ {"at", "headers", "name", "value"} : q[x] = p[x]
           Both == DOMAIN q = PointFields /\ g.headers = q.headers /\ HeaderAgrees(g, q) /\ Same
           new == [name |-> p.name, value |-> p.value]
<1> SUFFICES Both
  OBVIOUS
<1>1. DOMAIN Wrong(p) = PointFields /\ Wrong(p).at = "wrong" /\ q.at # "wrong"
  BY DEF Wrong, At, PointFields
<1>2. CASE p.at = "header"
  <2>1. f.headers_frame = "expecting_name_state"
    BY <1>2 DEF HeaderAgrees, HeadersAt
  <2>2. \/ IsToken(u) /\ q = [At(p, "named") EXCEPT !.name = u.v]
        \/ u.kind = "CR" /\ q = At(p, "end of headers")
    BY <1>1, <1>2 DEF HeaderLine, IsToken, Ended
  <2>3. g = expecting_name_state(f, u)
    BY <2>1 DEF HeadersFrame
  <2> HIDE DEF g, q
  <2> QED BY <2>1, <2>2, <2>3
          DEF expecting_name_state, IsToken, In, At, HeaderAgrees, HeadersAt, FrameFields, PointFields
<1>3. CASE p.at = "next"
  <2>1. /\ f.headers_frame = "expecting_next_header_state"
        /\ f.name = p.name /\ f.value = p.value
    BY <1>3 DEF HeaderAgrees, HeadersAt
  <2>2. \/ IsToken(u) /\ q = [At(Ended(p), "named") EXCEPT !.name = u.v]
        \/ u.kind = "CR" /\ q = At(Ended(p), "end of headers")
        \/ u.kind = "SP" /\ q = [At(p, "value") EXCEPT !.value = Append(@, u)]
    BY <1>1, <1>3 DEF HeaderLine, IsToken
  <2>3. g = expecting_next_header_state(f, u)
    BY <2>1 DEF HeadersFrame
  <2>4. /\ Ended(p) = [p EXCEPT !.headers = Append(@, new)]
        /\ Inserted(f) = [f EXCEPT !.headers = Append(@, new)]
    BY <1>3, <2>1 DEF Ended, Inserted
  <2> DEFINE e == Ended(p)
             i == Inserted(f)
  <2>8. /\ DOMAIN e = PointFields /\ e.headers = Append(p.headers, new) /\ e.value = p.value
        /\ \A x \in PointFields \ {"headers"} : e[x] = p[x]
    BY <2>4 DEF PointFields
  <2>9. DOMAIN i = FrameFields /\ i.headers = Append(p.headers, new) /\ i.value = p.value
    BY <2>1, <2>4 DEF FrameFields
  <2> HIDE DEF g, q, new, e, i
  <2>5. CASE u.kind = "SP"
    <3>1. q = [At(p, "value") EXCEPT !.value = Append(@, u)]
      BY <2>2, <2>5 DEF IsToken
    <3>2. g = [In(f, "expecting_value_state") EXCEPT !.value = Append(@, u)]
      BY <2>3, <2>5 DEF expecting_next_header_state, IsToken
    <3> QED BY <2>1, <3>1, <3>2 DEF In, At, HeaderAgrees, HeadersAt, FrameFields, PointFields
  <2>6. CASE IsToken(u)
    <3>1. q = [At(e, "named") EXCEPT !.name = u.v]
      BY <2>2, <2>6 DEF IsToken, e
    <3>2. g = [In(i, "receiving_name_state") EXCEPT !.name = u.v]
      BY <2>3, <2>6 DEF expecting_next_header_state, IsToken, i
    <3> QED BY <2>8, <2>9, <3>1, <3>2
            DEF In, At, HeaderAgrees, HeadersAt, FrameFields, PointFields
  <2>7. CASE u.kind = "CR"
    <3>1. q = At(e, "end of headers")
      BY <2>2, <2>7 DEF IsToken, e
    <3>2. g = In(i, "expecting_LF_after_headers_state")
      BY <2>3, <2>7 DEF expecting_next_header_state, IsToken, i
    <3> QED BY <2>8, <2>9, <3>1, <3>2
            DEF In, At, HeaderAgrees, HeadersAt, FrameFields, PointFields
  <2> QED BY <2>2, <2>5, <2>6, <2>7
<1>4. CASE p.at = "named"
  <2>1. f.headers_frame = "receiving_name_state" /\ f.name = p.name
    BY <1>4 DEF HeaderAgrees, HeadersAt
  <2>2. \/ u.kind = "SP" /\ q = At(p, "spaced")
        \/ u.kind = ":" /\ q = [At(p, "value") EXCEPT !.value = <<>>]
    BY <1>1, <1>4 DEF HeaderLine
  <2>3. g = receiving_name_state(f, u)
    BY <2>1 DEF HeadersFrame
  <2> HIDE DEF g, q
  <2> QED BY <2>1, <2>2, <2>3
          DEF receiving_name_state, IsToken, In, At, HeaderAgrees, HeadersAt, FrameFields, PointFields
<1>5. CASE p.at = "spaced"
  <2>1. f.headers_frame = "expecting_colon_state" /\ f.name = p.name /\ f.value = <<>>
    BY <1>5 DEF HeaderAgrees, HeadersAt
  <2>2. \/ u.kind = "SP" /\ q = At(p, "spaced")
        \/ u.kind = ":" /\ q = [At(p, "value") EXCEPT !.value = <<>>]
    BY <1>1, <1>5 DEF HeaderLine
  <2>3. g = expecting_colon_state(f, u)
    BY <2>1 DEF HeadersFrame
  <2> HIDE DEF g, q
  <2> QED BY <2>1, <2>2, <2>3
          DEF expecting_colon_state, In, At, HeaderAgrees, HeadersAt, FrameFields, PointFields
<1>6. CASE p.at \in {"value", "valued"}
  <2>1. /\ f.headers_frame = IF p.at = "value" THEN "expecting_value_state"
                             ELSE "receiving_value_state"
        /\ f.name = p.name /\ f.value = p.value
    BY <1>6 DEF HeaderAgrees, HeadersAt
  <2>2. \/ p.at = "value" /\ u.kind = "SP" /\ q = p
        \/ IsToken(u) /\ q = [At(p, "valued") EXCEPT !.value = Append(@, u)]
        \/ p.at = "valued" /\ u.kind = "SP" /\ q = [p EXCEPT !.value = Append(@, u)]
        \/ u.kind = "CR" /\ q = At(p, "end of line")
    BY <1>1, <1>6 DEF HeaderLine, IsToken
  <2>3. g = IF p.at = "value" /\ u.kind = "SP" THEN f ELSE receiving_value_state(f, u)
    BY <1>6, <2>1 DEF HeadersFrame, expecting_value_state
  <2> HIDE DEF g, q
  <2>4. CASE p.at = "value" /\ u.kind = "SP"
    <3>1. q = p /\ g = f
      BY <2>2, <2>3, <2>4 DEF IsToken
    <3> QED BY <3>1
  <2>5. CASE ~ (p.at = "value" /\ u.kind = "SP")
    <3>1. g = IF u.kind = "CR" THEN In(f, "expecting_LF_after_value_state")
              ELSE [In(f, "receiving_value_state") EXCEPT !.value = Append(@, u)]
      BY <2>3, <2>5 DEF receiving_value_state
    <3>2. CASE u.kind = "CR"
      <4>1. q = At(p, "end of line") /\ g = In(f, "expecting_LF_after_value_state")
        BY <2>2, <3>1, <3>2 DEF IsToken
      <4> QED BY <2>1, <4>1 DEF In, At, HeaderAgrees, HeadersAt, FrameFields, PointFields
    <3>3. CASE u.kind # "CR"
      <4>1. /\ DOMAIN q = PointFields /\ q.at = "valued" /\ q.value = Append(p.value, u)
            /\ \A x \in PointFields \ {"at", "value"} : q[x] = p[x]
        BY <1>6, <2>2, <2>5, <3>3 DEF At, PointFields
      <4>2. /\ g.headers_frame = "receiving_value_state" /\ g.value = Append(f.value, u)
            /\ g.name = f.name /\ g.headers = f.headers
        BY <3>1, <3>3 DEF In, FrameFields
      <4> QED BY <1>6, <2>1, <4>1, <4>2 DEF HeaderAgrees, HeadersAt, PointFields
    <3> QED BY <3>2, <3>3
  <2> QED BY <2>4, <2>5
<1>7. CASE p.at = "end of line"
  <2>1. /\ f.headers_frame = "expecting_LF_after_value_state"
        /\ f.name = p.name /\ f.value = p.value
    BY <1>7 DEF HeaderAgrees, HeadersAt
  <2>2. u.kind = "LF" /\ q = At(p, "next")
    BY <1>1, <1>7 DEF HeaderLine
  <2>3. g = In(f, "expecting_next_header_state")
    BY <2>1, <2>2 DEF HeadersFrame
  <2> HIDE DEF g, q
  <2> QED BY <2>1, <2>2, <2>3 DEF In, At, HeaderAgrees, HeadersAt, FrameFields, PointFields
<1> QED BY <1>2, <1>3, <1>4, <1>5, <1>6, <1>7 DEF HeaderPoints

\* A number that its width holds is not wrapped.
LEMMA Unwrapped ==
    /\ \A n \in 0 .. Uint32 - 1 : n % Uint32 = n
    /\ \A n \in 0 .. Uint8 - 1 : n % Uint8 = n
<1>1. ASSUME NEW n \in 0 .. Uint32 - 1 PROVE n % Uint32 = n
  BY WidthsAssumption
<1>2. ASSUME NEW n \in 0 .. Uint8 - 1 PROVE n % Uint8 = n
  BY WidthsAssumption
<1> QED BY <1>1, <1>2

\* What is asked of the headers depends on nothing else.
LEMMA SameHeaders ==
    ASSUME NEW f, NEW p, f.headers = p.headers
    PROVE  /\ \A name : Has(f, name) <=> Has(p, name)
           /\ \A name, word : Says(f, name, word) <=> Says(p, name, word)
           /\ LengthName(f) = LengthName(p)
           /\ \A name : HasNumber(f, name) <=> HasNumber(p, name)
           /\ \A name : get_string(f, name) = get_string(p, name)
<1>1. \A name : Has(f, name) <=> Has(p, name)
  BY DEF Has, Values
<1>2. \A name : get_string(f, name) = get_string(p, name)
  BY DEF get_string
<1>3. \A name : HasNumber(f, name) <=> HasNumber(p, name)
  BY <1>1, <1>2 DEF HasNumber
<1> QED BY <1>1, <1>2, <1>3 DEF Says, LengthName

\* The headers of a message that is well made tell its body from those of the other framings.
LEMMA FramingAgrees ==
    ASSUME NEW m \in Messages, NEW f, NEW p, DOMAIN p = PointFields,
           f.headers = p.headers, f.code = p.code, Body(p, m).at # "wrong"
    PROVE  LET q == Body(p, m)
           IN  /\ DOMAIN q = PointFields
               /\ \A x \in PointFields \ {"at", "left"} : q[x] = p[x]
               /\ \/ m.framing = "none" /\ q.at = "end"
                     /\ (body_expected(f, m) => BodyFraming(f) = "none")
                  \/ /\ body_expected(f, m) /\ BodyFraming(f) = m.framing
                     /\ ~ Says(f, "Content-Encoding", "gzip")
                     /\ \/ /\ m.framing = "length" /\ q.at = "body"
                           /\ q.left = get_base_10(f, LengthName(f)) /\ q.left \in Nat \ {0}
                        \/ m.framing = "chunked" /\ q.at = "size"
                        \/ m.framing = "close" /\ q.at = "open body"
<1> DEFINE q == Body(p, m)
<1>1. m.kind \in {"request", "response"}
      /\ m.framing \in {"none", "length", "chunked", "close"}
  BY MessagesAssumption
<1>2. /\ \A name : Has(f, name) <=> Has(p, name)
      /\ \A name, word : Says(f, name, word) <=> Says(p, name, word)
      /\ LengthName(f) = LengthName(p)
      /\ \A name : HasNumber(f, name) <=> HasNumber(p, name)
      /\ \A name : get_string(f, name) = get_string(p, name)
  BY SameHeaders
<1>3. body_expected(f, m) <=> ~ NoBody(p, m)
  BY <1>1 DEF body_expected, NoBody
<1>4. \A name : /\ ~ (Says(p, name, "identity") /\ Says(p, name, "gzip"))
                /\ ~ (Says(p, name, "identity") /\ Says(p, name, "chunked"))
                /\ \A word : Says(p, name, word) => Has(p, name)
  BY DEF Says, Unit
<1>5. DOMAIN Wrong(p) = PointFields /\ Wrong(p).at = "wrong"
  BY DEF Wrong, At, PointFields
<1>6. Bodied(p, m) =>
        /\ body_expected(f, m) /\ Has(f, "Content-Type")
        /\ Has(f, "Content-Encoding") => Says(f, "Content-Encoding", "identity")
        /\ ~ Says(f, "Content-Encoding", "gzip")
  BY <1>2, <1>3, <1>4 DEF Bodied
<1>7. Whole(p) => /\ Has(f, "Transfer-Encoding") => Says(f, "Transfer-Encoding", "identity")
                  /\ ~ Says(f, "Transfer-Encoding", "chunked")
  BY <1>2, <1>4 DEF Whole
<1>8. /\ Measured(p) <=> HasNumber(f, LengthName(f))
      /\ Measure(p) \in 0 .. Uint32 - 1 => Measure(p) = get_base_10(f, LengthName(f))
  <2>1. get_base_10(f, LengthName(f)) = Measure(p) % Uint32
    BY <1>2 DEF Measure, get_base_10
  <2> QED BY <1>2, <2>1, Unwrapped DEF Measured
<1>9. CASE m.framing = "none"
  <2>1. /\ q = At(p, "end")
        /\ \/ NoBody(p, m) \/ ~ Has(p, "Content-Type")
           \/ Bodied(p, m) /\ Whole(p) /\ Measured(p) /\ Measure(p) = 0
    BY <1>5, <1>9 DEF Body
  <2>2. body_expected(f, m) => BodyFraming(f) = "none"
    <3>1. Measure(p) = 0 => Measure(p) \in 0 .. Uint32 - 1
      BY WidthsAssumption
    <3> QED BY <1>2, <1>3, <1>6, <1>7, <1>8, <2>1, <3>1 DEF BodyFraming
  <2> QED BY <1>9, <2>1, <2>2 DEF At, PointFields
<1>10. CASE m.framing = "length"
  <2>1. /\ q = [At(p, "body") EXCEPT !.left = Measure(p)]
        /\ Bodied(p, m) /\ Whole(p) /\ Measured(p) /\ Measure(p) \in 1 .. Uint32 - 1
    BY <1>5, <1>10 DEF Body
  <2>3. /\ Measure(p) \in Nat \ {0} /\ Measure(p) # 0
        /\ Measure(p) = get_base_10(f, LengthName(f))
    BY <1>8, <2>1, WidthsAssumption
  <2>2. BodyFraming(f) = "length"
    BY <1>2, <1>6, <1>7, <1>8, <2>1, <2>3 DEF BodyFraming
  <2> QED BY <1>6, <1>8, <1>10, <2>1, <2>2, <2>3 DEF At, PointFields
<1>11. CASE m.framing = "chunked"
  <2>1. q = At(p, "size") /\ Bodied(p, m) /\ Says(p, "Transfer-Encoding", "chunked")
    BY <1>5, <1>11 DEF Body
  <2>2. BodyFraming(f) = "chunked"
    BY <1>2, <1>6, <2>1 DEF BodyFraming
  <2> QED BY <1>6, <1>11, <2>1, <2>2 DEF At, PointFields
<1>12. CASE m.framing = "close"
  <2>1. q = At(p, "open body") /\ Bodied(p, m) /\ Whole(p) /\ ~ Measured(p)
    BY <1>5, <1>12 DEF Body
  <2>2. BodyFraming(f) = "close"
    BY <1>2, <1>6, <1>7, <1>8, <2>1 DEF BodyFraming
  <2> QED BY <1>6, <1>12, <2>1, <2>2 DEF At, PointFields
<1> QED BY <1>1, <1>9, <1>10, <1>11, <1>12

\* The headers, and the body that is made or not when they are done.
LEMMA HeadersAgree ==
    ASSUME NEW m \in Messages, NEW f, NEW p, Agrees(f, p, m), AtHeaders(f, p, m), NEW u,
           Sent(p, u, m).at # "wrong"
    PROVE  Agrees(Read(f, u, m), Sent(p, u, m), m)
<1> DEFINE g == Read(f, u, m)
           q == Sent(p, u, m)
           h == HeadersFrame(f, u)
<1> SUFFICES Agrees(g, q, m)
  OBVIOUS
<1>1. /\ DOMAIN f = FrameFields /\ DOMAIN p = PointFields
      /\ f.code = p.code /\ f.headers = p.headers /\ SameContent(f, p, m) /\ HeaderAgrees(f, p)
      /\ p.at \in HeaderPoints \cup {"end of headers"} /\ f.headers_frame \in HeadersRead
  BY DEF Agrees, AtHeaders, HeaderAgrees, HeadersAt, HeaderPoints, HeadersRead
<1>2. /\ DOMAIN h = FrameFields
      /\ \A x \in FrameFields \ {"headers_frame", "name", "value", "headers"} : h[x] = f[x]
  BY <1>1, HeadersRest
<1>3. /\ h.state = f.state /\ h.body = f.body /\ h.body_frame = f.body_frame /\ h.code = f.code
      /\ h.digits = f.digits /\ h.file = f.file /\ h.gzip = f.gzip /\ h.content = f.content
  BY <1>2 DEF FrameFields
<1>4. /\ f.state = "headers_frame_pending_state" => g = AfterHeaders(h, m)
      /\ f.state = "body_pending_state" /\ f.body = "chunked"
           /\ f.body_frame = "headers_frame_pending" => g = AfterBody(AfterTrailers(h))
  BY DEF Read, headers_frame_pending_state, body_pending_state, BodyFrame, BodyChunksFrame, trailers
<1>5. /\ p.at \in HeaderPoints => q = HeaderLine(p, u)
      /\ p.at = "end of headers" =>
             q = IF u.kind # "LF" THEN Wrong(p)
                 ELSE IF p.trailing THEN At(p, "end") ELSE Body(p, m)
  BY SentBy
<1>6. DOMAIN Wrong(p) = PointFields /\ Wrong(p).at = "wrong" /\ q.at # "wrong"
  BY <1>1 DEF Wrong, At, PointFields
<1>7. p.at = "end of headers" =>
        /\ u.kind = "LF" /\ h = In(f, "done_state")
        /\ q = IF p.trailing THEN At(p, "end") ELSE Body(p, m)
  BY <1>1, <1>5, <1>6 DEF HeadersFrame, HeaderAgrees, HeadersAt
<1> HIDE DEF g, q, h
<1>8. CASE p.at \in HeaderPoints
  <2>7. q = HeaderLine(p, u) /\ HeaderLine(p, u).at # "wrong"
    BY <1>5, <1>6, <1>8
  <2>1. /\ DOMAIN q = PointFields /\ h.headers = q.headers /\ HeaderAgrees(h, q)
        /\ \A x \in PointFields \ {"at", "headers", "name", "value"} : q[x] = p[x]
    <3> DEFINE y == HeaderLine(p, u)
    <3>1. /\ DOMAIN f = FrameFields /\ DOMAIN p = PointFields /\ f.headers = p.headers
          /\ HeaderAgrees(f, p) /\ p.at \in HeaderPoints /\ HeaderLine(p, u).at # "wrong"
      BY <1>1, <1>8, <2>7
    <3>2. /\ DOMAIN y = PointFields /\ HeadersFrame(f, u).headers = y.headers
          /\ HeaderAgrees(HeadersFrame(f, u), y)
          /\ \A x \in PointFields \ {"at", "headers", "name", "value"} : y[x] = p[x]
      BY <3>1, HeaderLineAgrees
    <3> QED BY <2>7, <3>2 DEF h
  <2>2. q.sent = p.sent /\ q.trailing = p.trailing /\ q.code = p.code
    BY <2>1 DEF PointFields
  <2>3. h.headers_frame \in HeadersRead
    BY <2>1 DEF HeaderAgrees, HeadersAt, HeadersRead
  <2>4. AtHeaders(h, q, m)
    BY <1>3, <2>1, <2>2 DEF AtHeaders, Unbegun
  <2>5. g = h
    BY <1>3, <1>4, <2>3 DEF AtHeaders, AfterHeaders, AfterTrailers, AfterBody, HeadersRead
  <2>6. SameContent(h, q, m)
    BY <1>1, <1>3, <2>2 DEF SameContent
  <2> QED BY <1>1, <1>2, <1>3, <2>1, <2>2, <2>4, <2>5, <2>6 DEF Agrees
<1>9. CASE p.at = "end of headers"
  <2>1. h.headers_frame = "done_state" /\ h.headers = p.headers
    BY <1>1, <1>7, <1>9 DEF In, FrameFields
  <2>2. CASE p.trailing = TRUE
    <3> DEFINE e == EndWritten(h)
    <3>1. /\ m.framing = "chunked" /\ f.state = "body_pending_state" /\ f.body = "chunked"
          /\ f.body_frame = "headers_frame_pending"
      BY <2>2 DEF AtHeaders
    <3>2. q = At(p, "end")
      BY <1>7, <1>9, <2>2
    <3>3. DOMAIN e = FrameFields /\ e.headers = h.headers /\ e.code = h.code
          /\ e.content = h.content /\ e.gzip = h.gzip
      BY <1>2, EndWrittenRest DEF FrameFields
    <3>4. e.file = h.file
      BY <1>1, <1>2, <1>3 DEF EndWritten, SameContent, FrameFields
    <3>5. g = AfterBody([e EXCEPT !.body_frame = "done_state"])
      BY <1>4, <2>1, <3>1 DEF AfterTrailers
    <3> HIDE DEF e
    <3>6. g = Go([e EXCEPT !.body_frame = "done_state"], "done_state")
      BY <3>3, <3>5 DEF AfterBody, FrameFields
    <3>7. /\ DOMAIN g = FrameFields /\ g.headers = p.headers /\ g.code = p.code
          /\ g.content = f.content /\ g.gzip = f.gzip /\ g.file = f.file /\ g.state = "done_state"
      BY <1>1, <1>3, <2>1, <3>3, <3>4, <3>6 DEF Go, FrameFields
    <3>8. DOMAIN q = PointFields /\ q.headers = p.headers /\ q.code = p.code /\ q.sent = p.sent
          /\ q.at = "end"
      BY <1>1, <3>2 DEF At, PointFields
    <3> QED BY <1>1, <3>1, <3>7, <3>8 DEF Agrees, AtEnd, SameContent
  <2>3. CASE p.trailing # TRUE
    <3>1. f.state = "headers_frame_pending_state" /\ Unbegun(f) /\ p.trailing = FALSE
      BY <2>3 DEF AtHeaders
    <3>2. q = Body(p, m) /\ Body(p, m).at # "wrong" /\ h.code = p.code
      BY <1>1, <1>3, <1>6, <1>7, <1>9, <3>1
    <3>3. /\ DOMAIN q = PointFields
          /\ \A x \in PointFields \ {"at", "left"} : q[x] = p[x]
          /\ \/ m.framing = "none" /\ q.at = "end"
                /\ (body_expected(h, m) => BodyFraming(h) = "none")
             \/ /\ body_expected(h, m) /\ BodyFraming(h) = m.framing
                /\ ~ Says(h, "Content-Encoding", "gzip")
                /\ \/ /\ m.framing = "length" /\ q.at = "body"
                      /\ q.left = get_base_10(h, LengthName(h)) /\ q.left \in Nat \ {0}
                   \/ m.framing = "chunked" /\ q.at = "size"
                   \/ m.framing = "close" /\ q.at = "open body"
      <4> DEFINE y == Body(p, m)
      <4>1. /\ DOMAIN y = PointFields
            /\ \A x \in PointFields \ {"at", "left"} : y[x] = p[x]
            /\ \/ m.framing = "none" /\ y.at = "end"
                  /\ (body_expected(h, m) => BodyFraming(h) = "none")
               \/ /\ body_expected(h, m) /\ BodyFraming(h) = m.framing
                  /\ ~ Says(h, "Content-Encoding", "gzip")
                  /\ \/ /\ m.framing = "length" /\ y.at = "body"
                        /\ y.left = get_base_10(h, LengthName(h)) /\ y.left \in Nat \ {0}
                     \/ m.framing = "chunked" /\ y.at = "size"
                     \/ m.framing = "close" /\ y.at = "open body"
        BY <1>1, <1>2, <2>1, <3>2, FramingAgrees
      <4> QED BY <3>2, <4>1
    <3>4. q.sent = p.sent /\ q.headers = p.headers /\ q.code = p.code /\ q.trailing = FALSE
      BY <3>1, <3>3 DEF PointFields
    <3>5. g = IF body_expected(h, m) THEN make_body_frame(h) ELSE Go(h, "done_state")
      BY <1>4, <2>1, <3>1 DEF AfterHeaders
    <3>6. CASE m.framing = "none" /\ q.at = "end"
      <4>1. g = Go(h, "done_state")
        BY <3>3, <3>5, <3>6 DEF make_body_frame
      <4>2. /\ DOMAIN g = FrameFields /\ g.headers = h.headers /\ g.code = h.code
            /\ g.content = h.content /\ g.gzip = h.gzip /\ g.file = h.file
            /\ g.state = "done_state"
        BY <1>2, <4>1 DEF Go, FrameFields
      <4> QED BY <1>1, <1>3, <2>1, <3>3, <3>4, <3>6, <4>2 DEF Agrees, AtEnd, SameContent
    <3>7. CASE ~ (m.framing = "none" /\ q.at = "end")
      <4> DEFINE b == [Go(h, "body_pending_state") EXCEPT !.body = BodyFraming(h),
                           !.gzip = Says(h, "Content-Encoding", "gzip")]
      <4>1. body_expected(h, m) /\ BodyFraming(h) = m.framing
            /\ ~ Says(h, "Content-Encoding", "gzip") /\ m.framing \in {"length", "chunked", "close"}
        BY <3>3, <3>7
      <4>2. /\ DOMAIN b = FrameFields /\ b.state = "body_pending_state" /\ b.body = m.framing
            /\ b.gzip = FALSE /\ b.headers = h.headers /\ b.code = h.code /\ b.content = h.content
            /\ b.file = h.file /\ b.body_frame = "start" /\ b.digits = 0
        BY <1>2, <1>3, <3>1, <4>1 DEF Go, FrameFields, Unbegun
      <4>3. g = CASE m.framing = "length" ->
                       [b EXCEPT !.bytes_expected = get_base_10(h, LengthName(h))]
                  [] m.framing = "chunked" -> [b EXCEPT !.body_frame = "start_chunk_state"]
                  [] m.framing = "close" -> b
        BY <3>5, <4>1 DEF make_body_frame
      <4> HIDE DEF b
      <4>4. /\ DOMAIN g = FrameFields /\ g.state = "body_pending_state" /\ g.body = m.framing
            /\ g.gzip = FALSE /\ g.headers = p.headers /\ g.code = p.code
            /\ g.content = f.content /\ g.file = f.file
        BY <1>3, <2>1, <3>2, <4>1, <4>2, <4>3 DEF FrameFields
      <4>5. SameContent(g, q, m)
        BY <1>1, <3>4, <4>4 DEF SameContent
      <4>6. CASE m.framing = "length"
        <5>1. g.body_frame = "start" /\ g.bytes_expected = get_base_10(h, LengthName(h))
          BY <4>2, <4>3, <4>6 DEF FrameFields
        <5> QED BY <3>3, <3>4, <4>4, <4>5, <4>6, <5>1 DEF Agrees, AtBody
      <4>7. CASE m.framing = "chunked"
        <5>1. g.body_frame = "start_chunk_state" /\ g.digits = 0
          BY <4>2, <4>3, <4>7 DEF FrameFields
        <5> QED BY <3>3, <3>4, <4>4, <4>5, <4>7, <5>1 DEF Agrees, AtBody, InChunks
      <4>8. CASE m.framing = "close"
        <5>1. g.body_frame = "start"
          BY <4>2, <4>3, <4>8
        <5> QED BY <3>3, <3>4, <4>4, <4>5, <4>8, <5>1 DEF Agrees, AtBody
      <4> QED BY <4>1, <4>6, <4>7, <4>8
    <3> QED BY <3>6, <3>7
  <2> QED BY <2>2, <2>3
<1> QED BY <1>1, <1>8, <1>9

\* A byte of the content is written behind those before it.
LEMMA NextWritten ==
    ASSUME NEW m \in Messages, NEW f, NEW p, DOMAIN f = FrameFields, SameContent(f, p, m),
           NEW u, IsNext(p, u, m)
    PROVE  /\ p.sent + 1 \in 0 .. Len(m.content)
           /\ Written(f, u).content = SubSeq(m.content, 1, p.sent + 1)
           /\ Written(f, u).file = NewFile /\ Written(f, u).gzip = FALSE
<1> DEFINE c == m.content
           n == p.sent
<1>1. c \in Seq(Nat) /\ n \in 0 .. Len(c) /\ n < Len(c) /\ u.v = <<c[n + 1]>>
  BY MessagesAssumption DEF SameContent, IsNext, Unit
<1>2. /\ Written(f, u).content = SubSeq(c, 1, n) \o u.v
      /\ Written(f, u).file = NewFile /\ Written(f, u).gzip = FALSE
  BY DEF Written, SameContent, FrameFields
<1> HIDE DEF c, n
<1>3. SubSeq(c, 1, n) \o <<c[n + 1]>> = SubSeq(c, 1, n + 1)
  BY <1>1
<1>4. n + 1 \in 0 .. Len(c)
  BY <1>1
<1> QED BY <1>1, <1>2, <1>3, <1>4 DEF c, n

\* A body, or a chunk, of which the length is known takes a byte.
LEMMA ByteRead ==
    ASSUME NEW f, DOMAIN f = FrameFields, f.gzip = FALSE, NEW u
    PROVE  LET l == LengthBodyFrame(f, u)
               w == Written(f, u)
           IN  /\ f.bytes_expected = 1 => l.body_frame = "done_state"
               /\ f.bytes_expected # 1 => /\ l.body_frame = f.body_frame
                                          /\ l.bytes_expected = f.bytes_expected - 1
               /\ l.file = w.file /\ l.gzip = w.gzip /\ l.content = w.content
<1> DEFINE w == Written(f, u)
           e == EndWritten(w)
           l == LengthBodyFrame(f, u)
<1> SUFFICES /\ f.bytes_expected = 1 => l.body_frame = "done_state"
             /\ f.bytes_expected # 1 => /\ l.body_frame = f.body_frame
                                        /\ l.bytes_expected = f.bytes_expected - 1
             /\ l.file = w.file /\ l.gzip = w.gzip /\ l.content = w.content
  OBVIOUS
<1>1. /\ DOMAIN w = FrameFields
      /\ \A x \in FrameFields \ {"file", "content", "late"} : w[x] = f[x]
  BY WrittenRest
<1>2. w.bytes_expected = f.bytes_expected /\ w.body_frame = f.body_frame /\ w.gzip = FALSE
  BY <1>1 DEF FrameFields
<1>3. l = IF f.bytes_expected = 1
          THEN [e EXCEPT !.bytes_expected = 0, !.body_frame = "done_state"]
          ELSE [w EXCEPT !.bytes_expected = @ - 1]
  BY DEF LengthBodyFrame
<1> HIDE DEF w, l
<1>4. e = [w EXCEPT !.late = @ \/ w.eofs > 0, !.eofs = @ + 1]
  BY <1>2 DEF EndWritten
<1>5. DOMAIN e = FrameFields /\ e.content = w.content /\ e.file = w.file /\ e.gzip = w.gzip
  BY <1>1, <1>4 DEF FrameFields
<1> HIDE DEF e
<1> QED BY <1>1, <1>2, <1>3, <1>5 DEF FrameFields

\* What a byte of a body leaves alone, and that one byte less is expected.
Kept(f, l) ==
    /\ DOMAIN l = FrameFields /\ l.state = f.state /\ l.body = f.body
    /\ l.code = f.code /\ l.headers = f.headers

Counted(f, l) ==
    /\ f.bytes_expected = 1 => l.body_frame = "done_state"
    /\ f.bytes_expected # 1 => /\ l.body_frame = f.body_frame
                               /\ l.bytes_expected = f.bytes_expected - 1

\* It is the next byte of the content.
LEMMA ByteAgrees ==
    ASSUME NEW m \in Messages, NEW f, NEW p, DOMAIN f = FrameFields, SameContent(f, p, m),
           NEW u, IsNext(p, u, m)
    PROVE  LET l == LengthBodyFrame(f, u)
           IN  /\ Kept(f, l) /\ Counted(f, l) /\ l.file = NewFile /\ l.gzip = FALSE
               /\ p.sent + 1 \in 0 .. Len(m.content)
               /\ l.content = SubSeq(m.content, 1, p.sent + 1)
<1>1. /\ p.sent + 1 \in 0 .. Len(m.content)
      /\ Written(f, u).content = SubSeq(m.content, 1, p.sent + 1)
      /\ Written(f, u).file = NewFile /\ Written(f, u).gzip = FALSE
  BY NextWritten
<1>2. f.gzip = FALSE
  BY DEF SameContent
<1>3. /\ DOMAIN LengthBodyFrame(f, u) = FrameFields
      /\ \A x \in FrameFields \ {"file", "content", "eofs", "late", "bytes_expected",
                                 "body_frame"} : LengthBodyFrame(f, u)[x] = f[x]
  BY LengthRest
<1> DEFINE l == LengthBodyFrame(f, u)
           w == Written(f, u)
<1>4. /\ f.bytes_expected = 1 => l.body_frame = "done_state"
      /\ f.bytes_expected # 1 => /\ l.body_frame = f.body_frame
                                 /\ l.bytes_expected = f.bytes_expected - 1
      /\ l.file = w.file /\ l.gzip = w.gzip /\ l.content = w.content
  BY <1>2, ByteRead
<1> HIDE DEF l, w
<1>5. l.state = f.state /\ l.body = f.body /\ l.code = f.code /\ l.headers = f.headers
  BY <1>3 DEF FrameFields, l
<1> QED BY <1>1, <1>3, <1>4, <1>5 DEF l, w, Kept, Counted

\* A body that is not chunked.
LEMMA PlainBodyAgrees ==
    ASSUME NEW m \in Messages, NEW f, NEW p, Agrees(f, p, m), AtBody(f, p, m),
           p.at \in PlainPoints, NEW u, Sent(p, u, m).at # "wrong"
    PROVE  Agrees(Read(f, u, m), Sent(p, u, m), m)
<1> DEFINE g == Read(f, u, m)
           q == Sent(p, u, m)
<1> SUFFICES Agrees(g, q, m)
  OBVIOUS
<1>1. /\ DOMAIN f = FrameFields /\ DOMAIN p = PointFields
      /\ f.code = p.code /\ f.headers = p.headers /\ SameContent(f, p, m)
      /\ f.state = "body_pending_state" /\ f.body = m.framing /\ p.trailing = FALSE
      /\ f.body_frame = "start"
      /\ \/ /\ p.at = "body" /\ f.body = "length"
            /\ p.left \in Nat \ {0} /\ f.bytes_expected = p.left
         \/ p.at = "open body" /\ f.body = "close"
  BY DEF Agrees, AtBody, InChunks, PlainPoints
<1>2. DOMAIN Wrong(p) = PointFields /\ Wrong(p).at = "wrong" /\ q.at # "wrong"
  BY <1>1 DEF Wrong, At, PointFields
<1>3. q = PlainBody(p, u, m)
  BY SentBy
<1>4. g = AfterBody(BodyFrame(f, u))
  BY <1>1 DEF Read, body_pending_state
<1> HIDE DEF g, q
<1>5. CASE p.at = "body"
  <2> DEFINE l == LengthBodyFrame(f, u)
  <2>1. IsNext(p, u, m) /\ q = Byte(p, IF p.left = 1 THEN "end" ELSE "body")
    BY <1>2, <1>3, <1>5 DEF PlainBody
  <2>2. /\ DOMAIN l = FrameFields /\ l.state = f.state /\ l.body = f.body
        /\ l.code = f.code /\ l.headers = f.headers
        /\ l.body_frame = (IF p.left = 1 THEN "done_state" ELSE f.body_frame)
        /\ p.left # 1 => l.bytes_expected = p.left - 1
        /\ l.file = NewFile /\ l.gzip = FALSE
        /\ p.sent + 1 \in 0 .. Len(m.content)
        /\ l.content = SubSeq(m.content, 1, p.sent + 1)
    <3>1. DOMAIN f = FrameFields /\ SameContent(f, p, m) /\ IsNext(p, u, m)
      BY <1>1, <2>1
    <3>2. /\ Kept(f, l) /\ Counted(f, l) /\ l.file = NewFile /\ l.gzip = FALSE
          /\ p.sent + 1 \in 0 .. Len(m.content)
          /\ l.content = SubSeq(m.content, 1, p.sent + 1)
      BY <3>1, ByteAgrees
    <3> QED BY <1>1, <1>5, <3>2 DEF Kept, Counted
  <2>3. g = AfterBody(l)
    BY <1>1, <1>4, <1>5 DEF BodyFrame
  <2> HIDE DEF l
  <2>4. /\ DOMAIN q = PointFields /\ q.sent = p.sent + 1 /\ q.left = p.left - 1
        /\ q.code = p.code /\ q.headers = p.headers /\ q.trailing = FALSE
        /\ q.at = IF p.left = 1 THEN "end" ELSE "body"
    BY <1>1, <2>1 DEF Byte, At, PointFields
  <2>6. SameContent(l, q, m)
    BY <2>2, <2>4 DEF SameContent
  <2>7. CASE p.left = 1
    <3>1. g = Go(l, "done_state")
      BY <2>2, <2>3, <2>7 DEF AfterBody
    <3>2. /\ DOMAIN g = FrameFields /\ g.state = "done_state" /\ g.code = l.code
          /\ g.headers = l.headers /\ g.file = l.file /\ g.gzip = l.gzip /\ g.content = l.content
      BY <2>2, <3>1 DEF Go, FrameFields
    <3> QED BY <1>1, <1>5, <2>2, <2>4, <2>6, <2>7, <3>2 DEF Agrees, AtEnd, SameContent
  <2>8. CASE p.left # 1
    <3>1. g = l /\ p.left - 1 \in Nat \ {0}
      BY <1>1, <1>5, <2>2, <2>3, <2>8 DEF AfterBody
    <3> QED BY <1>1, <1>5, <2>2, <2>4, <2>6, <2>8, <3>1 DEF Agrees, AtBody
  <2> QED BY <2>7, <2>8
<1>6. CASE p.at = "open body"
  <2> DEFINE w == Written(f, u)
  <2>1. IsNext(p, u, m) /\ q = [p EXCEPT !.sent = @ + 1]
    BY <1>2, <1>3, <1>6 DEF PlainBody
  <2>2. /\ p.sent + 1 \in 0 .. Len(m.content) /\ w.content = SubSeq(m.content, 1, p.sent + 1)
        /\ w.file = NewFile /\ w.gzip = FALSE
    <3>1. DOMAIN f = FrameFields /\ SameContent(f, p, m) /\ IsNext(p, u, m)
      BY <1>1, <2>1
    <3>2. /\ p.sent + 1 \in 0 .. Len(m.content)
          /\ Written(f, u).content = SubSeq(m.content, 1, p.sent + 1)
          /\ Written(f, u).file = NewFile /\ Written(f, u).gzip = FALSE
      BY <3>1, NextWritten
    <3> QED BY <3>2
  <2>3. /\ DOMAIN w = FrameFields /\ w.state = f.state /\ w.body = f.body
        /\ w.body_frame = f.body_frame /\ w.code = f.code /\ w.headers = f.headers
    <3>1. /\ DOMAIN Written(f, u) = FrameFields
          /\ \A x \in FrameFields \ {"file", "content", "late"} : Written(f, u)[x] = f[x]
      BY <1>1, WrittenRest
    <3> QED BY <3>1 DEF FrameFields
  <2>4. g = AfterBody(w)
    BY <1>1, <1>4, <1>6 DEF BodyFrame
  <2> HIDE DEF w
  <2>5. g = w
    BY <1>1, <2>3, <2>4 DEF AfterBody
  <2>6. /\ DOMAIN q = PointFields /\ q.sent = p.sent + 1 /\ q.at = "open body"
        /\ q.code = p.code /\ q.headers = p.headers /\ q.trailing = FALSE
    BY <1>1, <1>6, <2>1 DEF PointFields
  <2> QED BY <1>1, <1>6, <2>2, <2>3, <2>5, <2>6 DEF Agrees, AtBody, SameContent
<1> QED BY <1>5, <1>6 DEF PlainPoints

\* A chunked body, up to the headers behind it.
LEMMA ChunksAgree ==
    ASSUME NEW m \in Messages, NEW f, NEW p, Agrees(f, p, m), AtBody(f, p, m),
           p.at \in ChunkPoints, NEW u, u.kind = "size" => u.v[1] \in Nat,
           Sent(p, u, m).at # "wrong"
    PROVE  Agrees(Read(f, u, m), Sent(p, u, m), m)
<1> DEFINE g == Read(f, u, m)
           q == Sent(p, u, m)
           b == BodyChunksFrame(f, u)
<1> SUFFICES Agrees(g, q, m)
  OBVIOUS
<1>1. /\ DOMAIN f = FrameFields /\ DOMAIN p = PointFields
      /\ f.code = p.code /\ f.headers = p.headers /\ SameContent(f, p, m)
      /\ f.state = "body_pending_state" /\ f.body = m.framing /\ p.trailing = FALSE
      /\ f.body = "chunked" /\ InChunks(f, p)
  BY DEF Agrees, AtBody, ChunkPoints
<1>2. DOMAIN Wrong(p) = PointFields /\ Wrong(p).at = "wrong" /\ q.at # "wrong"
  BY <1>1 DEF Wrong, At, PointFields
<1>3. q = ChunkedBody(p, u, m)
  BY SentBy
<1>4. g = AfterBody(b)
  BY <1>1 DEF Read, body_pending_state, BodyFrame
<1> HIDE DEF g, q, b
\* Where no byte of the content is read.
<1>5. ASSUME DOMAIN b = FrameFields, b.state = f.state, b.body = f.body, b.code = f.code,
             b.headers = f.headers, b.file = f.file, b.gzip = f.gzip, b.content = f.content,
             b.body_frame \notin {"done_state", "failed"},
             DOMAIN q = PointFields, q.code = p.code, q.headers = p.headers, q.sent = p.sent,
             \/ q.trailing = FALSE /\ InChunks(b, q)
             \/ /\ q.trailing = TRUE /\ q.at = "header"
                /\ b.headers_frame = "expecting_name_state"
                /\ b.body_frame = "headers_frame_pending"
      PROVE  Agrees(g, q, m)
  <2>1. g = b
    BY <1>4, <1>5 DEF AfterBody
  <2>2. SameContent(b, q, m)
    BY <1>1, <1>5 DEF SameContent
  <2>3. AtBody(b, q, m) \/ AtHeaders(b, q, m)
    BY <1>1, <1>5 DEF AtBody, AtHeaders, HeaderAgrees, HeadersAt
  <2> QED BY <1>1, <1>5, <2>1, <2>2, <2>3 DEF Agrees
\* A digit of the size, the first or another.
<1>6. CASE p.at \in {"size", "sized"} /\ u.kind = "size"
  <2>1. q = Digit(p, u) /\ u.v[1] \in Nat
    BY <1>2, <1>3, <1>6 DEF ChunkedBody
  <2>2. /\ f.body_frame = "start_chunk_state"
        /\ p.at = "size" => f.digits = 0
        /\ p.at = "sized" => /\ p.digits \in Nat \ {0} /\ f.digits = p.digits
                             /\ p.size \in Nat /\ f.size = p.size
    BY <1>1, <1>6 DEF InChunks
  <2>3. b = WriteDigit(f, u.v[1])
    BY <1>6, <2>2 DEF b, BodyChunksFrame, start_chunk_state
  <2> DEFINE size == NextSize(p, u)
             digits == Digits(p)
  <2>4. /\ q = [At(p, "sized") EXCEPT !.size = size, !.digits = digits]
        /\ size < Uint32 /\ digits < Uint8
    BY <1>2, <2>1 DEF Digit
  <2>5. /\ size \in Nat /\ size = u.v[1] + IF f.digits = 0 THEN 0 ELSE 16 * f.size
        /\ digits \in Nat \ {0} /\ digits = f.digits + 1
    BY <1>6, <2>1, <2>2 DEF NextSize, Digits
  <2>6. size \in 0 .. Uint32 - 1 /\ digits \in 0 .. Uint8 - 1
    BY <2>4, <2>5, WidthsAssumption
  <2> HIDE DEF size, digits
  <2>7. size % Uint32 = size /\ digits % Uint8 = digits
    BY <2>6, Unwrapped
  <2>8. b = [f EXCEPT !.size = size, !.digits = digits]
    BY <1>1, <2>3, <2>5, <2>7 DEF WriteDigit, FrameFields
  <2>9. /\ DOMAIN b = FrameFields /\ b.state = f.state /\ b.body = f.body /\ b.code = f.code
        /\ b.headers = f.headers /\ b.file = f.file /\ b.gzip = f.gzip /\ b.content = f.content
        /\ b.body_frame = "start_chunk_state" /\ b.size = size /\ b.digits = digits
    BY <1>1, <2>2, <2>8 DEF FrameFields
  <2>10. /\ DOMAIN q = PointFields /\ q.code = p.code /\ q.headers = p.headers /\ q.sent = p.sent
         /\ q.trailing = FALSE /\ q.at = "sized" /\ q.size = size /\ q.digits = digits
    BY <1>1, <2>4 DEF At, PointFields
  <2>11. InChunks(b, q)
    BY <2>5, <2>9, <2>10 DEF InChunks
  <2> QED BY <1>5, <2>9, <2>10, <2>11
<1>7. CASE p.at \in {"size", "sized"} /\ u.kind # "size"
  <2>4. p.at = "sized"
    BY <1>2, <1>3, <1>7 DEF ChunkedBody
  <2>1. /\ f.body_frame = "start_chunk_state" /\ p.size \in Nat /\ f.size = p.size
    BY <1>1, <2>4 DEF InChunks
  <2>3. Agrees(g, q, m)
    <3>1. u.kind = "CR" /\ q = At(p, "end of size")
      BY <1>2, <1>3, <1>7, <2>4 DEF ChunkedBody
    <3>2. b = [f EXCEPT !.body_frame = "expecting_LF_after_size_state"]
      BY <2>1, <3>1 DEF b, BodyChunksFrame, start_chunk_state
    <3>3. /\ DOMAIN b = FrameFields /\ b.state = f.state /\ b.body = f.body /\ b.code = f.code
          /\ b.headers = f.headers /\ b.file = f.file /\ b.gzip = f.gzip /\ b.content = f.content
          /\ b.body_frame = "expecting_LF_after_size_state" /\ b.size = f.size
      BY <1>1, <3>2 DEF FrameFields
    <3>4. /\ DOMAIN q = PointFields /\ q.code = p.code /\ q.headers = p.headers
          /\ q.sent = p.sent /\ q.trailing = FALSE /\ q.at = "end of size" /\ q.size = p.size
      BY <1>1, <3>1 DEF At, PointFields
    <3>5. InChunks(b, q)
      BY <2>1, <3>3, <3>4 DEF InChunks
    <3> QED BY <1>5, <3>3, <3>4, <3>5
  <2> QED BY <2>3
<1>8. CASE p.at = "end of size"
  <2>1. /\ f.body_frame = "expecting_LF_after_size_state"
        /\ p.size \in Nat /\ f.size = p.size
    BY <1>1, <1>8 DEF InChunks
  <2>2. /\ u.kind = "LF"
        /\ q = IF p.size = 0 THEN [At(p, "header") EXCEPT !.trailing = TRUE]
               ELSE [At(p, "chunk") EXCEPT !.left = p.size]
    BY <1>2, <1>3, <1>8 DEF ChunkedBody
  <2>3. b = expecting_LF_after_size_state(f, u)
    BY <2>1 DEF b, BodyChunksFrame
  <2>4. CASE p.size = 0
    <3>1. b = [f EXCEPT !.body_frame = "headers_frame_pending",
                        !.headers_frame = "expecting_name_state"]
      BY <2>1, <2>2, <2>3, <2>4 DEF expecting_LF_after_size_state
    <3>2. /\ DOMAIN b = FrameFields /\ b.state = f.state /\ b.body = f.body /\ b.code = f.code
          /\ b.headers = f.headers /\ b.file = f.file /\ b.gzip = f.gzip /\ b.content = f.content
          /\ b.body_frame = "headers_frame_pending" /\ b.headers_frame = "expecting_name_state"
      BY <1>1, <3>1 DEF FrameFields
    <3>3. /\ DOMAIN q = PointFields /\ q.code = p.code /\ q.headers = p.headers
          /\ q.sent = p.sent /\ q.trailing = TRUE /\ q.at = "header"
      BY <1>1, <2>2, <2>4 DEF At, PointFields
    <3> QED BY <1>5, <3>2, <3>3
  <2>5. CASE p.size # 0
    <3>1. b = [f EXCEPT !.body_frame = "chunk_frame_pending_state", !.bytes_expected = f.size]
      BY <2>1, <2>2, <2>3, <2>5 DEF expecting_LF_after_size_state
    <3>2. /\ DOMAIN b = FrameFields /\ b.state = f.state /\ b.body = f.body /\ b.code = f.code
          /\ b.headers = f.headers /\ b.file = f.file /\ b.gzip = f.gzip /\ b.content = f.content
          /\ b.body_frame = "chunk_frame_pending_state" /\ b.bytes_expected = f.size
      BY <1>1, <3>1 DEF FrameFields
    <3>3. /\ DOMAIN q = PointFields /\ q.code = p.code /\ q.headers = p.headers
          /\ q.sent = p.sent /\ q.trailing = FALSE /\ q.at = "chunk" /\ q.left = p.size
      BY <1>1, <2>2, <2>5 DEF At, PointFields
    <3>4. InChunks(b, q)
      BY <2>1, <2>5, <3>2, <3>3 DEF InChunks
    <3> QED BY <1>5, <3>2, <3>3, <3>4
  <2> QED BY <2>4, <2>5
<1>9. CASE p.at = "chunk"
  <2> DEFINE l == LengthBodyFrame(f, u)
  <2>1. /\ f.body_frame = "chunk_frame_pending_state"
        /\ p.left \in Nat \ {0} /\ f.bytes_expected = p.left
    BY <1>1, <1>9 DEF InChunks
  <2>2. IsNext(p, u, m) /\ q = Byte(p, IF p.left = 1 THEN "after chunk" ELSE "chunk")
    BY <1>2, <1>3, <1>9 DEF ChunkedBody
  <2>3. /\ Kept(f, l) /\ Counted(f, l) /\ l.file = NewFile /\ l.gzip = FALSE
        /\ p.sent + 1 \in 0 .. Len(m.content)
        /\ l.content = SubSeq(m.content, 1, p.sent + 1)
    <3>1. DOMAIN f = FrameFields /\ SameContent(f, p, m) /\ IsNext(p, u, m)
      BY <1>1, <2>2
    <3> QED BY <3>1, ByteAgrees
  <2>4. b = AfterChunk(l)
    BY <2>1 DEF b, BodyChunksFrame, chunk_frame_pending_state
  <2> HIDE DEF l
  <2>5. /\ DOMAIN q = PointFields /\ q.code = p.code /\ q.headers = p.headers
        /\ q.sent = p.sent + 1 /\ q.left = p.left - 1 /\ q.trailing = FALSE
        /\ q.at = IF p.left = 1 THEN "after chunk" ELSE "chunk"
    BY <1>1, <2>2 DEF Byte, At, PointFields
  <2>6. CASE p.left = 1
    <3>1. b = [l EXCEPT !.body_frame = "expecting_CR_after_chunk_state"]
      BY <2>1, <2>3, <2>4, <2>6 DEF AfterChunk, Counted
    <3>2. /\ DOMAIN b = FrameFields /\ b.state = l.state /\ b.body = l.body /\ b.code = l.code
          /\ b.headers = l.headers /\ b.file = l.file /\ b.gzip = l.gzip
          /\ b.content = l.content /\ b.body_frame = "expecting_CR_after_chunk_state"
      BY <2>3, <3>1 DEF Kept, FrameFields
    <3>3. g = b
      BY <1>4, <3>2 DEF AfterBody
    <3>4. SameContent(b, q, m)
      BY <2>3, <2>5, <3>2 DEF SameContent
    <3>5. AtBody(b, q, m)
      BY <1>1, <2>3, <2>5, <2>6, <3>2 DEF AtBody, InChunks, Kept
    <3> QED BY <1>1, <2>3, <2>5, <3>2, <3>3, <3>4, <3>5 DEF Agrees, Kept
  <2>7. CASE p.left # 1
    <3>1. b = l /\ l.body_frame = "chunk_frame_pending_state" /\ l.bytes_expected = q.left
          /\ q.left \in Nat \ {0}
      BY <2>1, <2>3, <2>4, <2>5, <2>7 DEF AfterChunk, Counted
    <3>2. g = b
      BY <1>4, <3>1 DEF AfterBody
    <3>3. SameContent(b, q, m)
      BY <2>3, <2>5, <3>1 DEF SameContent
    <3>4. AtBody(b, q, m)
      BY <1>1, <2>3, <2>5, <2>7, <3>1 DEF AtBody, InChunks, Kept
    <3> QED BY <1>1, <2>3, <2>5, <3>1, <3>2, <3>3, <3>4 DEF Agrees, Kept
  <2> QED BY <2>6, <2>7
<1>10. CASE p.at = "after chunk"
  <2>1. f.body_frame = "expecting_CR_after_chunk_state"
    BY <1>1, <1>10 DEF InChunks
  <2>2. u.kind = "CR" /\ q = At(p, "end of chunk")
    BY <1>2, <1>3, <1>10 DEF ChunkedBody
  <2>3. b = [f EXCEPT !.body_frame = "expecting_LF_after_chunk_state"]
    BY <2>1, <2>2 DEF b, BodyChunksFrame
  <2>4. /\ DOMAIN b = FrameFields /\ b.state = f.state /\ b.body = f.body /\ b.code = f.code
        /\ b.headers = f.headers /\ b.file = f.file /\ b.gzip = f.gzip /\ b.content = f.content
        /\ b.body_frame = "expecting_LF_after_chunk_state"
    BY <1>1, <2>3 DEF FrameFields
  <2>5. /\ DOMAIN q = PointFields /\ q.code = p.code /\ q.headers = p.headers /\ q.sent = p.sent
        /\ q.trailing = FALSE /\ q.at = "end of chunk"
    BY <1>1, <2>2 DEF At, PointFields
  <2>6. InChunks(b, q)
    BY <2>4, <2>5 DEF InChunks
  <2> QED BY <1>5, <2>4, <2>5, <2>6
<1>11. CASE p.at = "end of chunk"
  <2>1. f.body_frame = "expecting_LF_after_chunk_state"
    BY <1>1, <1>11 DEF InChunks
  <2>2. u.kind = "LF" /\ q = At(p, "size")
    BY <1>2, <1>3, <1>11 DEF ChunkedBody
  <2>3. b = [f EXCEPT !.body_frame = "start_chunk_state", !.digits = 0]
    BY <2>1, <2>2 DEF b, BodyChunksFrame, expecting_LF_after_chunk_state
  <2>4. /\ DOMAIN b = FrameFields /\ b.state = f.state /\ b.body = f.body /\ b.code = f.code
        /\ b.headers = f.headers /\ b.file = f.file /\ b.gzip = f.gzip /\ b.content = f.content
        /\ b.body_frame = "start_chunk_state" /\ b.digits = 0
    BY <1>1, <2>3 DEF FrameFields
  <2>5. /\ DOMAIN q = PointFields /\ q.code = p.code /\ q.headers = p.headers /\ q.sent = p.sent
        /\ q.trailing = FALSE /\ q.at = "size"
    BY <1>1, <2>2 DEF At, PointFields
  <2>6. InChunks(b, q)
    BY <2>4, <2>5 DEF InChunks
  <2> QED BY <1>5, <2>4, <2>5, <2>6
<1> QED BY <1>6, <1>7, <1>8, <1>9, <1>10, <1>11 DEF ChunkPoints

\* The frame keeps up with the sender.
LEMMA ReadAgrees ==
    ASSUME NEW m \in Messages, NEW f, NEW p, Agrees(f, p, m), NEW u,
           u.kind = "size" => u.v[1] \in Nat, Sent(p, u, m).at # "wrong"
    PROVE  Agrees(Read(f, u, m), Sent(p, u, m), m)
<1>1. CASE AtStartLine(f, p, m)
  BY <1>1, StartLineAgrees
<1>2. CASE AtHeaders(f, p, m)
  BY <1>2, HeadersAgree
<1>3. CASE AtBody(f, p, m)
  <2>1. p.at \in PlainPoints \cup ChunkPoints
    BY <1>3 DEF AtBody, InChunks, PlainPoints, ChunkPoints
  <2> QED BY <1>3, <2>1, PlainBodyAgrees, ChunksAgree
<1>4. CASE AtEnd(f, p, m)
  <2>1. DOMAIN p = PointFields /\ p.at = "end"
    BY <1>4 DEF Agrees, AtEnd
  <2>2. Sent(p, u, m).at = "wrong"
    <3>1. Sent(p, u, m) = Wrong(p)
      BY <2>1, SentBy
    <3> QED BY <2>1, <3>1 DEF Wrong, At, PointFields
  <2> QED BY <2>2
<1> QED BY <1>1, <1>2, <1>3, <1>4 DEF Agrees

-------------------------------------------------------------------------------
(* A unit that is another than it should be.                                   *)

Anything == {"protocol", "coded", "reason", "value", "valued"}

\* Where the end of a line is one of several things that may come, no line has ended yet.
LEMMA BeforeAnything ==
    ASSUME NEW p, DOMAIN p = PointFields, NEW u, NEW m, Sent(p, u, m).at \in Anything
    PROVE  u.kind \in {"word", "number", "SP", ":"}
<1> DEFINE q == Sent(p, u, m)
<1>1. /\ \A at : At(p, at).at = at /\ Wrong(p).at = "wrong"
      /\ "wrong" \notin Anything /\ q.at \in Anything
  BY DEF Wrong, At, PointFields, Anything
<1>2. CASE p.at \in RequestPoints
  <2>1. q = RequestLine(p, u)
    BY <1>2, SentBy
  <2> HIDE DEF q
  <2>2. \/ IsToken(u) \/ u.kind = "SP" \/ q = At(p, "end of start line") \/ q = Wrong(p)
    BY <1>2, <2>1 DEF RequestLine, RequestPoints
  <2> QED BY <1>1, <2>2 DEF Anything, IsToken
<1>3. CASE p.at \in StatusPoints
  <2>1. q = StatusLine(p, u)
    BY <1>3, SentBy
  <2> HIDE DEF q
  <2>2. \/ IsToken(u) \/ u.kind = "SP" \/ u.kind = "number"
        \/ q = At(p, "end of start line") \/ q = Wrong(p)
    BY <1>3, <2>1 DEF StatusLine, StatusPoints
  <2> QED BY <1>1, <2>2 DEF Anything, IsToken
<1>4. CASE p.at \in HeaderPoints
  <2>1. q = HeaderLine(p, u)
    BY <1>4, SentBy
  <2> HIDE DEF q
  <2>2. \/ IsToken(u) \/ u.kind \in {"SP", ":"} \/ q = At(Ended(p), "end of headers")
        \/ q = At(p, "end of line") \/ q = At(p, "next") \/ q = Wrong(p)
    BY <1>4, <2>1 DEF HeaderLine, HeaderPoints
  <2>3. At(Ended(p), "end of headers").at = "end of headers"
    BY DEF Ended, At, PointFields
  <2> QED BY <1>1, <2>2, <2>3 DEF Anything, IsToken
<1>5. CASE p.at \in PlainPoints
  <2>1. q = PlainBody(p, u, m)
    BY <1>5, SentBy
  <2>2. q.at \in {"end", "body", "open body", "wrong"}
    BY <1>1, <1>5, <2>1 DEF PlainBody, Byte, At, PlainPoints, PointFields
  <2> QED BY <1>1, <2>2 DEF Anything
<1>6. CASE p.at \in ChunkPoints
  <2>1. q = ChunkedBody(p, u, m)
    BY <1>6, SentBy
  <2> HIDE DEF q
  <2>2. \/ q = Digit(p, u)
        \/ \E at \in {"end of size", "end of chunk", "size"} : q = At(p, at)
        \/ q = [At(p, "header") EXCEPT !.trailing = TRUE]
        \/ q = [At(p, "chunk") EXCEPT !.left = p.size]
        \/ \E at \in {"after chunk", "chunk"} : q = Byte(p, at)
        \/ q = Wrong(p)
    BY <1>6, <2>1 DEF ChunkedBody, ChunkPoints
  <2>3. q.at \notin Anything
    BY <1>1, <2>2 DEF Digit, Wrong, Byte, At, PointFields, Anything
  <2> QED BY <1>1, <2>3
<1>7. CASE p.at \in {"end of start line", "end of headers", "end"}
  <2>1. \/ q \in {At(p, "header"), At(p, "end"), Wrong(p)}
        \/ q = Body(p, m)
    BY <1>7, SentBy
  <2>2. \/ q \in {At(p, "header"), At(p, "end"), At(p, "size"), At(p, "open body"), Wrong(p)}
        \/ q = [At(p, "body") EXCEPT !.left = Measure(p)]
    BY <2>1 DEF Body
  <2> HIDE DEF q
  <2>3. q.at \notin Anything
    BY <1>1, <2>2 DEF At, PointFields, Anything
  <2> QED BY <1>1, <2>3
<1>8. CASE p.at \notin RequestPoints \cup StatusPoints \cup HeaderPoints \cup PlainPoints
               \cup ChunkPoints \cup {"end of start line", "end of headers", "end"}
  <2>1. q = Wrong(p)
    BY <1>8 DEF Sent
  <2> QED BY <1>1, <2>1
<1> QED BY <1>2, <1>3, <1>4, <1>5, <1>6, <1>7, <1>8

\* A unit that is none of the grammar, where the sender has no choice.
LEMMA CtlFails ==
    ASSUME NEW m \in Messages, NEW f, NEW p, Agrees(f, p, m), NEW u, Sent(p, u, m).at # "wrong",
           u.kind \in {"LF", ":", "size"} \/ (u.kind = "CR" /\ p.at \notin Anything)
    PROVE  Read(f, Unit("ctl", <<0>>), m).state = "failed"
<1> DEFINE c == Unit("ctl", <<0>>)
           g == Read(f, c, m)
<1> SUFFICES g.state = "failed"
  OBVIOUS
<1>1. c.kind = "ctl" /\ ~ IsToken(c)
  BY DEF Unit, IsToken
<1> HIDE DEF c
<1>2. /\ DOMAIN f = FrameFields /\ DOMAIN p = PointFields /\ m.kind \in {"request", "response"}
  BY MessagesAssumption DEF Agrees
<1>3. /\ Wrong(p).at = "wrong" /\ ~ IsToken(u) /\ u.kind # "SP" /\ u.kind # "number"
      /\ ~ IsNext(p, u, m)
  BY <1>2 DEF Wrong, At, IsToken, IsNext, Unit, PointFields
<1>4. CASE AtStartLine(f, p, m)
  <2>1. p.at = "end of start line"
    <3>1. CASE p.at \in RequestPoints
      <4>1. Sent(p, u, m) = RequestLine(p, u)
        BY <3>1, SentBy
      <4> QED BY <1>3, <3>1, <4>1 DEF RequestLine, RequestPoints, Anything
    <3>2. CASE p.at \in StatusPoints
      <4>1. Sent(p, u, m) = StatusLine(p, u)
        BY <3>2, SentBy
      <4> QED BY <1>3, <3>2, <4>1 DEF StatusLine, StatusPoints, Anything
    <3> QED BY <1>4, <3>1, <3>2
            DEF AtStartLine, RequestAt, StatusAt, RequestPoints, StatusPoints
  <2>2. \/ m.kind = "request" /\ f.state = "expecting_LF_after_protocol_state"
        \/ m.kind = "response" /\ f.state = "expecting_LF_after_reason_state"
    BY <1>2, <1>4, <2>1 DEF AtStartLine, RequestAt, StatusAt
  <2>3. g = Go(f, "failed")
    BY <1>1, <2>2 DEF Read, RequestFrame, ResponseFrame, Expect
  <2> QED BY <1>2, <2>3 DEF Go, FrameFields
<1>5. CASE AtHeaders(f, p, m)
  <2> DEFINE h == HeadersFrame(f, c)
  <2>1. p.at \in {"header", "next", "named", "spaced", "end of line", "end of headers"}
    <3>1. CASE p.at \in HeaderPoints
      <4>1. Sent(p, u, m) = HeaderLine(p, u)
        BY <3>1, SentBy
      <4> QED BY <1>3, <3>1, <4>1 DEF HeaderLine, HeaderPoints, Anything
    <3> QED BY <1>5, <3>1 DEF AtHeaders, HeaderAgrees, HeadersAt, HeaderPoints
  <2>2. h = In(f, "failed")
    <3>1. f.headers_frame \in {"expecting_name_state", "expecting_next_header_state",
              "receiving_name_state", "expecting_colon_state",
              "expecting_LF_after_value_state", "expecting_LF_after_headers_state"}
      BY <1>5, <2>1 DEF AtHeaders, HeaderAgrees, HeadersAt
    <3> QED BY <1>1, <3>1 DEF HeadersFrame, expecting_name_state, expecting_next_header_state,
                              receiving_name_state, expecting_colon_state
  <2> HIDE DEF h
  <2>3. DOMAIN h = FrameFields /\ h.headers_frame = "failed"
    BY <1>2, <2>2 DEF In, FrameFields
  <2>4. CASE f.state = "headers_frame_pending_state"
    <3>1. g = Go(h, "failed")
      BY <2>3, <2>4 DEF Read, headers_frame_pending_state, AfterHeaders, h
    <3> QED BY <2>3, <3>1 DEF Go, FrameFields
  <2>5. CASE /\ f.state = "body_pending_state" /\ f.body = "chunked"
             /\ f.body_frame = "headers_frame_pending"
    <3> DEFINE t == [h EXCEPT !.body_frame = "failed"]
    <3>1. g = AfterBody(t)
      BY <2>3, <2>5 DEF Read, body_pending_state, BodyFrame, BodyChunksFrame, trailers,
                        AfterTrailers, h
    <3>2. DOMAIN t = FrameFields /\ t.body_frame = "failed"
      BY <2>3 DEF FrameFields
    <3> HIDE DEF t
    <3> QED BY <3>1, <3>2 DEF AfterBody, Go, FrameFields
  <2> QED BY <1>5, <2>4, <2>5 DEF AtHeaders
<1>6. CASE AtBody(f, p, m)
  <2> DEFINE b == BodyChunksFrame(f, c)
  <2>1. p.at \in {"size", "sized", "end of size", "after chunk", "end of chunk"}
    <3>1. CASE p.at \in PlainPoints
      <4>1. Sent(p, u, m) = PlainBody(p, u, m)
        BY <3>1, SentBy
      <4> QED BY <1>3, <3>1, <4>1 DEF PlainBody
    <3>2. CASE p.at = "chunk"
      <4>1. Sent(p, u, m) = ChunkedBody(p, u, m)
        BY <3>2, SentBy DEF ChunkPoints
      <4> QED BY <1>3, <3>2, <4>1 DEF ChunkedBody
    <3> QED BY <1>6, <3>1, <3>2 DEF AtBody, InChunks, PlainPoints
  <2>2. /\ f.state = "body_pending_state" /\ f.body = "chunked"
        /\ f.body_frame \in {"start_chunk_state", "expecting_LF_after_size_state",
               "expecting_CR_after_chunk_state", "expecting_LF_after_chunk_state"}
    BY <1>6, <2>1 DEF AtBody, InChunks
  <2>3. b = [f EXCEPT !.body_frame = "failed"]
    BY <1>1, <2>2 DEF BodyChunksFrame, start_chunk_state, expecting_LF_after_size_state,
                      expecting_LF_after_chunk_state
  <2>4. g = AfterBody(b)
    BY <2>2 DEF Read, body_pending_state, BodyFrame
  <2> HIDE DEF b
  <2>5. DOMAIN b = FrameFields /\ b.body_frame = "failed"
    BY <1>2, <2>3 DEF FrameFields
  <2> QED BY <2>4, <2>5 DEF AfterBody, Go, FrameFields
<1>7. CASE AtEnd(f, p, m)
  <2>1. Sent(p, u, m) = Wrong(p)
    BY <1>7, SentBy DEF AtEnd
  <2> QED BY <1>3, <2>1
<1> QED BY <1>4, <1>5, <1>6, <1>7 DEF Agrees

-------------------------------------------------------------------------------
(* Every message that is well made.                                            *)

\* A unit after which no line can have ended.
Loose(u) == u.kind \in {"word", "number", "SP", ":"}

\* Until something goes wrong the frame agrees with the sender on the units that have come;
\* when the connection ends it did so just before.
Follows(points) ==
    /\ LaidOut(message, points)
    /\ position \in 0 .. Len(message.units)
    /\ garbled \in BOOLEAN /\ ended \in BOOLEAN
    /\ garbled => frame.state = "failed"
    /\ ~ garbled /\ ~ ended =>
           /\ Agrees(frame, points[position], message)
           /\ points[position].at \in Anything => Loose(message.units[position])
    /\ ~ garbled /\ ended =>
           \E f : /\ Agrees(f, points[position], message)
                  /\ f.state # "done_state" /\ frame = DisconnectBodyFrame(f)

Understood == message \in Messages /\ \E points : Follows(points)

\* A message has some number of units.
LEMMA UnitsCounted ==
    ASSUME NEW m \in Messages
    PROVE  Len(m.units) \in Nat
BY MessagesAssumption

\* Nothing has come yet.
LEMMA UnderstoodStart == Init /\ WellMade(message) => Understood
<1> SUFFICES ASSUME Init, WellMade(message) PROVE Understood
  OBVIOUS
<1>1. PICK points : LaidOut(message, points)
  BY DEF WellMade
<1>2. message \in Messages /\ position = 0 /\ ended = FALSE /\ garbled = FALSE
      /\ frame = Start(message)
  BY DEF Init
<1>3. points[position] = First(message) /\ Agrees(frame, points[position], message)
  BY <1>1, <1>2, AgreesAtFirst DEF LaidOut
<1>4. points[position].at \notin Anything
  BY <1>3 DEF First, Anything
<1>5. 0 \in 0 .. Len(message.units)
  BY <1>2, UnitsCounted
<1> QED BY <1>1, <1>2, <1>3, <1>4, <1>5 DEF Understood, Follows

\* The next unit is the one that the layout says.
LEMMA NextUnit ==
    ASSUME NEW points, Follows(points), message \in Messages, Coming
    PROVE  LET u == message.units[position + 1]
               p == points[position]
           IN  /\ position + 1 \in 0 .. Len(message.units)
               /\ points[position + 1] = Sent(p, u, message) /\ Sent(p, u, message).at # "wrong"
               /\ u.kind = "size" => u.v[1] \in Nat
<1>1. /\ Len(message.units) \in Nat /\ DOMAIN message.units = 1 .. Len(message.units)
  BY UnitsCounted, MessagesAssumption
<1>2. position \in 0 .. Len(message.units) /\ position < Len(message.units)
  BY DEF Follows, Coming
<1>3. position + 1 \in 1 .. Len(message.units) /\ (position + 1) - 1 = position
  BY <1>1, <1>2
<1>4. /\ points[position + 1] = Sent(points[position], message.units[position + 1], message)
      /\ points[position + 1].at # "wrong"
  BY <1>3 DEF Follows, LaidOut
<1>5. message.units[position + 1].kind = "size" => message.units[position + 1].v[1] \in Nat
  BY <1>1, <1>3, MessagesAssumption
<1> QED BY <1>1, <1>3, <1>4, <1>5

\* A unit that may be garbled is one that the grammar asks for.
LEMMA FramingUnit ==
    ASSUME NEW points, Follows(points), message \in Messages, Coming, ~ garbled,
           IsFraming(message.units, position + 1)
    PROVE  LET u == message.units[position + 1]
           IN  \/ u.kind \in {"LF", ":", "size"}
               \/ u.kind = "CR" /\ points[position].at \notin Anything
<1> DEFINE units == message.units
<1>1. Len(units) \in Nat /\ position \in 0 .. Len(units)
  BY UnitsCounted DEF Follows
<1>2. SUFFICES ASSUME units[position + 1].kind = "CR", points[position].at \in Anything
               PROVE  FALSE
  BY DEF IsFraming
<1>3. units[position].kind \notin {"word", "number", "SP", ":"}
  <2>1. (position + 1) - 1 = position
    BY <1>1
  <2> QED BY <1>2, <2>1 DEF IsFraming
<1> QED BY <1>2, <1>3 DEF Follows, Loose, Coming

\* Every unit, every mistake and the end of the connection keep them in step.
LEMMA UnderstoodStep == Understood /\ [Next]_vars => Understood'
<1> SUFFICES ASSUME Understood, [Next]_vars PROVE Understood'
  OBVIOUS
<1>1. PICK points : Follows(points)
  BY DEF Understood
<1>2. message \in Messages
  BY DEF Understood
<1> SUFFICES message' = message /\ Follows(points)'
  BY <1>2 DEF Understood
<1>3. CASE UNCHANGED vars
  BY <1>1, <1>3 DEF vars, Follows
<1>4. CASE Receive
  <2> DEFINE u == message.units[position + 1]
             p == points[position]
  <2>1. /\ Coming /\ ~ ended /\ position' = position + 1 /\ message' = message
        /\ ended' = ended /\ garbled' = garbled /\ frame' = Read(frame, u, message)
    BY <1>4 DEF Receive, Coming
  <2>2. /\ position + 1 \in 0 .. Len(message.units)
        /\ points[position + 1] = Sent(p, u, message) /\ Sent(p, u, message).at # "wrong"
        /\ u.kind = "size" => u.v[1] \in Nat
    BY <1>1, <1>2, <2>1, NextUnit
  <2>3. ~ garbled
    BY <1>1, <2>1 DEF Follows, Coming, Reading
  <2>4. Agrees(frame, p, message)
    BY <1>1, <2>1, <2>3 DEF Follows
  <2>5. Agrees(Read(frame, u, message), Sent(p, u, message), message)
    BY <1>2, <2>2, <2>4, ReadAgrees
  <2>6. Sent(p, u, message).at \in Anything => Loose(u)
    <3>1. DOMAIN p = PointFields
      BY <2>4 DEF Agrees
    <3> QED BY <3>1, BeforeAnything DEF Loose
  <2> HIDE DEF u, p
  <2>7. /\ Agrees(frame', points[position + 1], message)
        /\ points[position + 1].at \in Anything => Loose(u)
    BY <2>1, <2>2, <2>5, <2>6
  <2> QED BY <1>1, <2>1, <2>2, <2>3, <2>7 DEF Follows, u
<1>5. CASE Garble
  <2> DEFINE u == message.units[position + 1]
             p == points[position]
  <2>1. /\ Coming /\ ~ garbled /\ IsFraming(message.units, position + 1)
        /\ position' = position + 1 /\ message' = message /\ ended' = ended
        /\ garbled' = TRUE /\ frame' = Read(frame, Unit("ctl", <<0>>), message)
    BY <1>5 DEF Garble, Coming
  <2>2. /\ position + 1 \in 0 .. Len(message.units) /\ Sent(p, u, message).at # "wrong"
    BY <1>1, <1>2, <2>1, NextUnit
  <2>3. Agrees(frame, p, message)
    BY <1>1, <2>1 DEF Follows, Coming
  <2>4. u.kind \in {"LF", ":", "size"} \/ (u.kind = "CR" /\ p.at \notin Anything)
    BY <1>1, <1>2, <2>1, FramingUnit
  <2>5. frame'.state = "failed"
    BY <1>2, <2>1, <2>2, <2>3, <2>4, CtlFails
  <2> QED BY <1>1, <2>1, <2>2, <2>5 DEF Follows
<1>6. CASE Ending
  <2>1. /\ ~ ended /\ Reading /\ ended' = TRUE /\ frame' = DisconnectBodyFrame(frame)
        /\ message' = message /\ position' = position /\ garbled' = garbled
    BY <1>6 DEF Ending
  <2>2. ~ garbled /\ frame.state # "done_state"
    BY <1>1, <2>1 DEF Follows, Reading
  <2>3. Agrees(frame, points[position], message)
    BY <1>1, <2>1, <2>2 DEF Follows
  <2> QED BY <1>1, <2>1, <2>2, <2>3 DEF Follows
<1> QED BY <1>3, <1>4, <1>5, <1>6 DEF Next

\* The frame agrees with the sender from the first unit to the last (RequestFrame,
\* ResponseFrame, HeadersFrame, BodyFrame).
THEOREM FramesUnderstand == Spec /\ WellMade(message) => []Understood
BY UnderstoodStart, UnderstoodStep, PTL DEF Spec

\* Where the sender is at the end of the message the frame is done, and nowhere else.
LEMMA DoneAtEnd ==
    ASSUME NEW m \in Messages, NEW f, NEW p, Agrees(f, p, m)
    PROVE  /\ f.state # "failed" /\ ~ Broken(f.file)
           /\ (f.state = "done_state") <=> (p.at = "end")
           /\ p.at = "end" => m.framing # "close"
           /\ f.body = "close" /\ f.state # "done_state" =>
                  f.state = "body_pending_state" /\ m.framing = "close"
<1>1. ~ Broken(f.file)
  BY DEF Agrees, SameContent, Broken, NewFile
<1>2. CASE AtStartLine(f, p, m)
  BY <1>1, <1>2 DEF AtStartLine, RequestAt, StatusAt, Unbegun
<1>3. CASE AtHeaders(f, p, m)
  BY <1>1, <1>3 DEF AtHeaders, HeaderAgrees, HeadersAt, Unbegun
<1>4. CASE AtBody(f, p, m)
  BY <1>1, <1>4 DEF AtBody, InChunks
<1>5. CASE AtEnd(f, p, m)
  BY <1>1, <1>5 DEF AtEnd
<1> QED BY <1>2, <1>3, <1>4, <1>5 DEF Agrees

\* The sender is at the end when all has been sent, and not before.
LEMMA EndAtLast ==
    ASSUME NEW points, Follows(points), message \in Messages, ~ garbled
    PROVE  /\ message.framing # "close" => (points[position].at = "end" <=> All)
           /\ All => points[position].sent = Len(message.content)
<1>1. Len(message.units) \in Nat /\ position \in 0 .. Len(message.units)
  BY UnitsCounted DEF Follows
<1>2. CASE All
  BY <1>2 DEF All, Follows, LaidOut
<1>3. CASE ~ All
  <2>1. position + 1 \in 1 .. Len(message.units) /\ (position + 1) - 1 = position
    BY <1>1, <1>3 DEF All
  <2>2. /\ points[position + 1] = Sent(points[position], message.units[position + 1], message)
        /\ points[position + 1].at # "wrong"
    BY <2>1 DEF Follows, LaidOut
  <2>3. DOMAIN points[position] = PointFields
    BY DEF Follows, Agrees
  <2>4. ASSUME points[position].at = "end" PROVE FALSE
    <3> DEFINE p == points[position]
               u == message.units[position + 1]
    <3>1. p.at = "end" /\ DOMAIN p = PointFields /\ Sent(p, u, message).at # "wrong"
      BY <2>2, <2>3, <2>4
    <3> HIDE DEF p, u
    <3>2. Sent(p, u, message) = Wrong(p)
      BY <3>1, SentBy
    <3> QED BY <3>1, <3>2 DEF Wrong, At, PointFields
  <2> QED BY <1>3, <2>4
<1> QED BY <1>2, <1>3

\* The end of the connection ends the body that has no other end, and nothing else.
LEMMA Disconnected ==
    ASSUME NEW m \in Messages, NEW f, NEW p, Agrees(f, p, m), f.state # "done_state",
           NEW g, g = DisconnectBodyFrame(f)
    PROVE  /\ g.file = f.file /\ g.content = f.content /\ g.body = f.body
           /\ \/ m.framing = "close" /\ f.body = "close" /\ g.state = "done_state"
              \/ f.body # "close" /\ g.state = f.state
<1>1. DOMAIN f = FrameFields /\ f.gzip = FALSE
  BY DEF Agrees, SameContent
<1>2. f.body = "close" => f.state = "body_pending_state" /\ m.framing = "close"
  BY DoneAtEnd
<1>3. CASE f.body = "close"
  <2> DEFINE e == EndWritten(f)
  <2>1. /\ DOMAIN e = FrameFields /\ e.file = f.file /\ e.content = f.content /\ e.body = f.body
    BY <1>1 DEF EndWritten, FrameFields
  <2>2. g = [e EXCEPT !.body_frame = "done_state", !.state = "done_state"]
    BY <1>2, <1>3 DEF DisconnectBodyFrame
  <2> HIDE DEF e
  <2> QED BY <1>2, <1>3, <2>1, <2>2 DEF FrameFields
<1>4. CASE f.body # "close"
  <2>1. g = f
    BY <1>4 DEF DisconnectBodyFrame
  <2> QED BY <1>4, <2>1
<1> QED BY <1>3, <1>4

\* A message that is well made is read from its first unit to its last and is never refused,
\* however it is framed and wherever the connection ends (ResponseFrame::process_event,
\* BodyFrame::make_body_frame, BodyChunksFrame::process_event).
THEOREM WellMadeFramed == Spec /\ WellMade(message) => []Framed
<1>1. Understood => Framed
  <2> SUFFICES ASSUME Understood, ~ garbled
               PROVE  /\ frame.state # "failed" /\ ~ Broken(frame.file)
                      /\ (frame.state = "done_state") <=>
                            (IF message.framing = "close" THEN ended /\ frame.body = "close"
                             ELSE All)
    BY DEF Framed
  <2>1. PICK points : Follows(points)
    BY DEF Understood
  <2>2. message \in Messages
    BY DEF Understood
  <2> DEFINE p == points[position]
  <2>3. message.framing # "close" => (p.at = "end" <=> All)
    BY <2>1, <2>2, EndAtLast
  <2>4. CASE ~ ended
    <3>1. Agrees(frame, p, message)
      BY <2>1, <2>4 DEF Follows
    <3> QED BY <2>2, <2>3, <2>4, <3>1, DoneAtEnd
  <2>5. CASE ended
    <3>1. PICK f : /\ Agrees(f, p, message)
                   /\ f.state # "done_state" /\ frame = DisconnectBodyFrame(f)
      BY <2>1, <2>5 DEF Follows
    <3> HIDE DEF p
    <3>2. /\ f.state # "failed" /\ ~ Broken(f.file) /\ p.at # "end"
      BY <2>2, <3>1, DoneAtEnd
    <3>3. /\ frame.file = f.file /\ frame.body = f.body
          /\ \/ message.framing = "close" /\ f.body = "close" /\ frame.state = "done_state"
             \/ f.body # "close" /\ frame.state = f.state
      BY <2>2, <3>1, Disconnected
    <3> QED BY <2>3, <2>5, <3>1, <3>2, <3>3
  <2> QED BY <2>4, <2>5
<1> QED BY <1>1, FramesUnderstand, PTL

\* The content stream gets the content of such a message, in order and nothing else, and all
\* of it when all has been read (LengthBodyFrame::process_event, BodyChunksFrame::process_event).
THEOREM WellMadeDelivered == Spec /\ WellMade(message) => []Delivered
<1>1. Understood => Delivered
  <2> SUFFICES ASSUME Understood, ~ garbled
               PROVE  /\ IsPrefix(frame.content, message.content)
                      /\ All => frame.content = message.content
    BY DEF Delivered
  <2>1. PICK points : Follows(points)
    BY DEF Understood
  <2>2. message \in Messages /\ message.content \in Seq(Nat)
    BY MessagesAssumption DEF Understood
  <2> DEFINE c == message.content
             n == points[position].sent
  <2>3. n \in 0 .. Len(c) /\ frame.content = SubSeq(c, 1, n)
    <3>1. CASE ~ ended
      BY <2>1, <3>1 DEF Follows, Agrees, SameContent
    <3>2. CASE ended
      <4>1. PICK f : /\ Agrees(f, points[position], message)
                     /\ f.state # "done_state" /\ frame = DisconnectBodyFrame(f)
        BY <2>1, <3>2 DEF Follows
      <4>2. frame.content = f.content
        BY <2>2, <4>1, Disconnected
      <4> QED BY <4>1, <4>2 DEF Agrees, SameContent
    <3> QED BY <3>1, <3>2
  <2>4. All => n = Len(c)
    BY <2>1, <2>2, EndAtLast
  <2> HIDE DEF c, n
  <2>5. c \in Seq(Nat)
    BY <2>2 DEF c
  <2>6. Len(SubSeq(c, 1, n)) = n /\ SubSeq(SubSeq(c, 1, n), 1, n) = SubSeq(c, 1, n)
    BY <2>3, <2>5
  <2>7. n = Len(c) => SubSeq(c, 1, n) = c
    BY <2>3, <2>5
  <2> QED BY <2>3, <2>4, <2>6, <2>7 DEF IsPrefix, c
<1> QED BY <1>1, FramesUnderstand, PTL

\* A mistake in the framing of such a message is never read over, whatever the message and
\* wherever the mistake (the *_error states of the frames).
THEOREM WellMadeRefused == Spec /\ WellMade(message) => []Refused
<1>1. Understood => Refused
  BY DEF Understood, Follows, Refused
<1> QED BY <1>1, FramesUnderstand, PTL

=============================================================================
