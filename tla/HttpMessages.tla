------------------------------ MODULE HttpMessages ------------------------------
(* What it is for a message to be well made: the grammar of RFC 7230 for a start     *)
(* line, headers and a body that is not packed, in the units of MessageFrames, as a  *)
(* sender goes through it. A point says what has been sent and what may come next.   *)
(* The grammar is the sender's, who knows the framing and the content it means; it   *)
(* is no part of the program, which has to find them in the units. A length is one   *)
(* that 32 bits hold, written in fewer digits than 8 bits count. Of the headers of    *)
(* one name the first is meant.                                                      *)
EXTENDS MessageFrames

First(m) ==
    [at |-> IF m.kind = "request" THEN "method" ELSE "version", code |-> 0,
     headers |-> <<>>, name |-> <<>>, value |-> <<>>, trailing |-> FALSE,
     size |-> 0, digits |-> 0, left |-> 0, sent |-> 0]

At(p, at) == [p EXCEPT !.at = at]
Wrong(p)  == At(p, "wrong")

-----------------------------------------------------------------------------
(* The lines *)

RequestLine(p, u) ==
    CASE p.at \in {"method", "target", "protocol"} /\ IsToken(u) -> p
      [] p.at = "method" /\ u.kind = "SP"   -> At(p, "target")
      [] p.at = "target" /\ u.kind = "SP"   -> At(p, "protocol")
      [] p.at = "protocol" /\ u.kind = "CR" -> At(p, "end of start line")
      [] OTHER -> Wrong(p)

StatusLine(p, u) ==
    CASE p.at = "version" /\ IsToken(u)     -> p
      [] p.at = "version" /\ u.kind = "SP"  -> At(p, "code")
      [] p.at = "code" /\ u.kind = "number" /\ u.v[1] \in 100 .. 599 ->
            [At(p, "coded") EXCEPT !.code = u.v[1]]
      [] p.at = "coded" /\ u.kind = "SP"    -> At(p, "reason")
      [] p.at = "reason" /\ (IsToken(u) \/ u.kind = "SP")     -> p
      [] p.at \in {"coded", "reason"} /\ u.kind = "CR" -> At(p, "end of start line")
      [] OTHER -> Wrong(p)

\* The line that begins after a header is another or the rest of it.
Ended(p) ==
    IF p.at = "next"
    THEN [p EXCEPT !.headers = Append(@, [name |-> p.name, value |-> p.value])] ELSE p

HeaderLine(p, u) ==
    CASE p.at \in {"header", "next"} /\ IsToken(u) ->
            [At(Ended(p), "named") EXCEPT !.name = u.v]
      [] p.at \in {"header", "next"} /\ u.kind = "CR" -> At(Ended(p), "end of headers")
      [] p.at = "next" /\ u.kind = "SP" -> [At(p, "value") EXCEPT !.value = Append(@, u)]
      [] p.at \in {"named", "spaced"} /\ u.kind = "SP" -> At(p, "spaced")
      [] p.at \in {"named", "spaced"} /\ u.kind = ":" -> [At(p, "value") EXCEPT !.value = <<>>]
      [] p.at = "value" /\ u.kind = "SP" -> p
      [] p.at \in {"value", "valued"} /\ IsToken(u) ->
            [At(p, "valued") EXCEPT !.value = Append(@, u)]
      [] p.at = "valued" /\ u.kind = "SP" -> [p EXCEPT !.value = Append(@, u)]
      [] p.at \in {"value", "valued"} /\ u.kind = "CR" -> At(p, "end of line")
      [] p.at = "end of line" /\ u.kind = "LF" -> At(p, "next")
      [] OTHER -> Wrong(p)

-----------------------------------------------------------------------------
(* The body *)

NoBody(p, m) ==
    /\ m.kind = "response"
    /\ p.code \div 100 = 1 \/ p.code \in {204, 205, 304} \/ m.method = "HEAD"

\* A body has a media type; one without is not for these frames.
Bodied(p, m) ==
    /\ ~NoBody(p, m)
    /\ Has(p, "Content-Type")
    /\ Has(p, "Content-Encoding") => Says(p, "Content-Encoding", "identity")

Whole(p)    == Has(p, "Transfer-Encoding") => Says(p, "Transfer-Encoding", "identity")
Measured(p) == HasNumber(p, LengthName(p))
Measure(p)  == get_string(p, LengthName(p))[1].v[1]

\* The headers say how long the body is, and the sender keeps to it.
Body(p, m) ==
    CASE /\ m.framing = "none"
         /\ \/ NoBody(p, m)
            \/ ~Has(p, "Content-Type")
            \/ Bodied(p, m) /\ Whole(p) /\ Measured(p) /\ Measure(p) = 0 -> At(p, "end")
      [] /\ m.framing = "length" /\ Bodied(p, m)
         /\ Whole(p) /\ Measured(p) /\ Measure(p) \in 1 .. Uint32 - 1 ->
            [At(p, "body") EXCEPT !.left = Measure(p)]
      [] /\ m.framing = "chunked" /\ Bodied(p, m)
         /\ Says(p, "Transfer-Encoding", "chunked") -> At(p, "size")
      [] /\ m.framing = "close" /\ Bodied(p, m)
         /\ Whole(p) /\ ~Measured(p) -> At(p, "open body")
      [] OTHER -> Wrong(p)

\* The next byte of the content.
IsNext(p, u, m) == p.sent < Len(m.content) /\ u = Unit("byte", <<m.content[p.sent + 1]>>)
Byte(p, at)     == [At(p, at) EXCEPT !.sent = @ + 1, !.left = @ - 1]

PlainBody(p, u, m) ==
    CASE p.at = "body" /\ IsNext(p, u, m) -> Byte(p, IF p.left = 1 THEN "end" ELSE "body")
      [] p.at = "open body" /\ IsNext(p, u, m) -> [p EXCEPT !.sent = @ + 1]
      [] OTHER -> Wrong(p)

Digits(p)  == 1 + IF p.at = "size" THEN 0 ELSE p.digits
NextSize(p, u) == u.v[1] + IF p.at = "size" THEN 0 ELSE 16 * p.size

Digit(p, u) ==
    IF Digits(p) < Uint8 /\ NextSize(p, u) < Uint32
    THEN [At(p, "sized") EXCEPT !.size = NextSize(p, u), !.digits = Digits(p)]
    ELSE Wrong(p)

ChunkedBody(p, u, m) ==
    CASE p.at \in {"size", "sized"} /\ u.kind = "size" -> Digit(p, u)
      [] p.at = "sized" /\ u.kind = "CR" -> At(p, "end of size")
      [] p.at = "end of size" /\ u.kind = "LF" ->
            IF p.size = 0 THEN [At(p, "header") EXCEPT !.trailing = TRUE]
            ELSE [At(p, "chunk") EXCEPT !.left = p.size]
      [] p.at = "chunk" /\ IsNext(p, u, m) ->
            Byte(p, IF p.left = 1 THEN "after chunk" ELSE "chunk")
      [] p.at = "after chunk" /\ u.kind = "CR" -> At(p, "end of chunk")
      [] p.at = "end of chunk" /\ u.kind = "LF" -> At(p, "size")
      [] OTHER -> Wrong(p)

-----------------------------------------------------------------------------
(* The message *)

RequestPoints == {"method", "target", "protocol"}
StatusPoints  == {"version", "code", "coded", "reason"}
HeaderPoints  == {"header", "named", "spaced", "value", "valued", "end of line", "next"}
PlainPoints   == {"body", "open body"}
ChunkPoints   == {"size", "sized", "end of size", "chunk", "after chunk", "end of chunk"}

\* The point behind the next unit.
Sent(p, u, m) ==
    CASE p.at \in RequestPoints -> RequestLine(p, u)
      [] p.at \in StatusPoints  -> StatusLine(p, u)
      [] p.at = "end of start line" /\ u.kind = "LF" -> At(p, "header")
      [] p.at \in HeaderPoints  -> HeaderLine(p, u)
      [] p.at = "end of headers" /\ u.kind = "LF" ->
            IF p.trailing THEN At(p, "end") ELSE Body(p, m)
      [] p.at \in PlainPoints   -> PlainBody(p, u, m)
      [] p.at \in ChunkPoints   -> ChunkedBody(p, u, m)
      [] OTHER -> Wrong(p)

\* The points of a message that is well made, from one unit to the next; only the end of
\* the connection ends a body that is neither measured nor chunked.
LaidOut(m, points) ==
    /\ points[0] = First(m)
    /\ \A i \in 1 .. Len(m.units) :
           /\ points[i] = Sent(points[i - 1], m.units[i], m)
           /\ points[i].at # "wrong"
    /\ LET last == points[Len(m.units)]
       IN  /\ last.at = IF m.framing = "close" THEN "open body" ELSE "end"
           /\ last.sent = Len(m.content)

WellMade(m) == \E points : LaidOut(m, points)

=============================================================================
