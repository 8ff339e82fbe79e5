----------------------------- MODULE MCMessageFrames -----------------------------
(* What senders that know their RFCs send: start lines, headers, framings and gzip   *)
(* members, with the content they mean.                                              *)
EXTENDS HttpMessages

U(kind)      == <<Unit(kind, <<>>)>>
N(kind, n)   == <<Unit(kind, <<n>>)>>
Word(w)      == <<Unit("word", <<w>>)>>
End          == U("CR") \o U("LF")
Concat(seqs) == FoldSeq(LAMBDA s, all : s \o all, <<>>, seqs)
Repeated(x, n) == [i \in 1 .. n |-> x]

Header(name, value) == Word(name) \o U(":") \o U("SP") \o value \o End
Spaced(name, value) == Word(name) \o U("SP") \o U(":") \o U("SP") \o U("SP") \o value \o End
Folded(name, value) == Word(name) \o U(":") \o value \o End \o U("SP") \o value \o End

-----------------------------------------------------------------------------
(* Deflated blocks. A canonical code is the sum of what the codes before it take;    *)
(* the symbols and extra bits of lengths and distances are rows of RFC 1951, 3.2.5.  *)

CodeBits(lengths, symbol) ==
    LET l == lengths[symbol + 1]
        Before(m) == {i \in DOMAIN lengths : lengths[i] = m /\ (m = l => i <= symbol)}
        code == MapThenSumSet(LAMBDA m : Cardinality(Before(m)) * 2 ^ (l - m), 1 .. l)
    IN  Concat([b \in 1 .. l |-> N("bit", (code \div 2 ^ (l - b)) % 2)])

Literal(byte) == [symbol |-> byte, extra |-> <<>>, dist |-> <<>>, length |-> 1, back |-> 0]
Copy(symbol, extra, length, dsymbol, dextra, back) ==
    [symbol |-> symbol, extra |-> N("extra", extra), length |-> length, back |-> back,
     dist |-> <<dsymbol, dextra>>]

ItemUnits(item, lit, dist) ==
    CodeBits(lit, item.symbol) \o
    (IF item.back = 0 THEN <<>>
     ELSE item.extra \o CodeBits(dist, item.dist[1]) \o N("extra", item.dist[2]))

ItemsUnits(items, lit, dist) ==
    Concat([i \in DOMAIN items |-> ItemUnits(items[i], lit, dist)]) \o CodeBits(lit, 256)

Expanded(items) ==
    FoldLeft(LAMBDA out, item :
                 IF item.back = 0 THEN Append(out, item.symbol)
                 ELSE LET copied[i \in 1 .. Len(out) + item.length] ==
                              IF i <= Len(out) THEN out[i] ELSE copied[i - item.back]
                      IN  copied,
             <<>>, items)

RefLit  == Repeated(8, 144) \o Repeated(9, 112) \o Repeated(7, 24) \o Repeated(8, 8)
RefDist == Repeated(5, 32)

FixedBlock(items, final) ==
    N("BFINAL", final) \o N("BTYPE", 1) \o ItemsUnits(items, RefLit, RefDist)

EmptyStored(final) ==
    N("BFINAL", final) \o N("BTYPE", 0) \o N("LEN", 0) \o N("NLEN", 65535)

\* The letters 97 and 98, the end and one length, in codes of two bits; or with a letter
\* of one bit and the others longer.
DynamicBlock(items, four, dist, final) ==
    LET lit == Repeated(0, 97) \o <<four[1], four[2]>> \o Repeated(0, 157)
               \o <<four[3], four[4]>>
    IN  N("BFINAL", final) \o N("BTYPE", 2) \o N("HLIT", 1) \o N("HDIST", Len(dist) - 1)
        \o N("HCLEN", 14) \o N("zeros", 97) \o N("length", four[1])
        \o N("length", four[2])
        \o N("zeros", 138) \o N("zeros", 19) \o N("length", four[3]) \o N("length", four[4])
        \o N("length", dist[1]) \o (IF Len(dist) = 4 THEN N("repeat", 3) ELSE <<>>)
        \o ItemsUnits(items, lit, dist)

Flags(set) == <<Unit("FLG", set)>>
Name == N("text", 97) \o N("text", 0)

GzipMember(flags, names, blocks) ==
    U("ID1") \o U("ID2") \o U("CM") \o Flags(flags) \o U("MTIME") \o U("XFL") \o U("OS")
    \o names \o blocks \o U("CRC32") \o U("ISIZE")

Abab == <<Literal(97), Literal(98), Copy(257, 0, 3, 1, 0, 2)>>
Run  == <<Literal(200), Literal(201), Copy(265, 1, 12, 0, 0, 1), Copy(285, 0, 258, 4, 1, 6)>>
Far  == <<Literal(97), Literal(97), Literal(98), Literal(97), Copy(257, 0, 3, 2, 0, 3)>>
Near == <<Literal(97), Literal(98), Copy(257, 0, 3, 0, 0, 1), Literal(97)>>
Plain == <<Literal(98), Literal(97)>>

Packed(units, items) == [units |-> units, content |-> Expanded(items)]

Members == {
    Packed(GzipMember(<<>>, <<>>, FixedBlock(Abab, 1)), Abab),
    Packed(GzipMember(<<"FNAME">>, Name, FixedBlock(Run, 0) \o EmptyStored(1)), Run),
    Packed(GzipMember(<<"FNAME", "FCOMMENT">>, Name \o Name,
                      DynamicBlock(Far, <<2, 2, 2, 2>>, <<2, 2, 2, 2>>, 1)), Far),
    Packed(GzipMember(<<"FCOMMENT">>, Name, DynamicBlock(Near, <<2, 1, 3, 3>>, <<1>>, 0)
                      \o EmptyStored(0) \o FixedBlock(Plain, 0) \o EmptyStored(1)),
           Near \o Plain),
    Packed(GzipMember(<<>>, <<>>, EmptyStored(0) \o DynamicBlock(Plain, <<1, 2, 3, 3>>, <<0>>, 0)
                      \o FixedBlock(<<Copy(257, 0, 3, 1, 0, 2)>>, 1)),
           Plain \o <<Copy(257, 0, 3, 1, 0, 2)>>)}

\* A stored block of 257 bytes, the least of the lengths that read the same whichever
\* byte comes first, and a copy out of it.
StoredBytes == [i \in 1 .. 257 |-> i % 256]
StoredMember ==
    [units   |-> GzipMember(<<>>, <<>>,
                     N("BFINAL", 0) \o N("BTYPE", 0) \o N("LEN", 257) \o N("NLEN", 65535 - 257)
                     \o [i \in 1 .. 257 |-> Unit("byte", <<StoredBytes[i]>>)]
                     \o FixedBlock(<<Copy(257, 0, 3, 4, 1, 6)>>, 1)),
     content |-> StoredBytes \o SubSeq(StoredBytes, 252, 254)]

-----------------------------------------------------------------------------
(* Bodies *)

Bytes(content) == Concat([i \in DOMAIN content |-> N("byte", content[i])])
Plainly(content) == [units |-> Bytes(content), content |-> content]

Size(n) == IF n < 16 THEN N("size", n) ELSE N("size", n \div 16) \o N("size", n % 16)

Chunk(units) == Size(Len(units)) \o End \o units \o End

\* Chunks of n units and what is left, the last one, and the headers behind it.
Chunked(units, n, behind) ==
    LET Cut(i) == SubSeq(units, (i - 1) * n + 1, IF i * n < Len(units) THEN i * n ELSE Len(units))
    IN  Concat([i \in 1 .. (Len(units) + n - 1) \div n |-> Chunk(Cut(i))])
        \o N("size", 0) \o End \o behind \o End

Typed  == Header("Content-Type", Word("text"))
Gzipped == Header("Content-Encoding", Word("gzip"))
Length(n) == Header("Content-Length", N("number", n))
InChunks  == Header("Transfer-Encoding", Word("chunked"))

-----------------------------------------------------------------------------
(* Messages *)

POST == Word("POST") \o U("SP") \o Word("/form") \o U("SP") \o Word("HTTP/1.1") \o End
OK(code) ==
    Word("HTTP/1.1") \o U("SP") \o N("number", code) \o U("SP") \o Word("Fine") \o End
Unreasoned(code) == Word("HTTP/1.1") \o U("SP") \o N("number", code) \o End

Message(kind, method, framing, gzip, head, body, content) ==
    [kind |-> kind, method |-> method, framing |-> framing, gzip |-> gzip,
     units |-> head \o End \o body, content |-> content]

Request(framing, headers, body, content) ==
    Message("request", "POST", framing, FALSE, POST \o headers, body, content)
Response(framing, headers, body, content) ==
    Message("response", "GET", framing, FALSE, OK(200) \o headers, body, content)
Packed200(framing, headers, body, content) ==
    Message("response", "GET", framing, TRUE, OK(200) \o headers \o Gzipped, body, content)

Abc  == Plainly(<<1, 2, 3>>)
Long == Plainly([i \in 1 .. 20 |-> i])

Trailers == Header("Content-Length", N("number", 1)) \o Header("Content-Type", Word("other"))
            \o Header("Transfer-Encoding", Word("identity"))

\* A body each of the framings can have.
Framings(body, Make(_, _, _, _)) ==
    {Make("length", Length(Len(body.units)) \o Typed, body.units, body.content),
     Make("chunked", Typed \o InChunks, Chunked(body.units, 2, <<>>), body.content),
     Make("chunked", Length(1) \o InChunks \o Typed, Chunked(body.units, 17, Trailers),
          body.content),
     Make("close", Typed, body.units, body.content)}

Bodiless == {
    Message("request", "GET", "none", FALSE, POST, <<>>, <<>>),
    Message("response", "HEAD", "none", FALSE, OK(200) \o Typed \o Length(3), <<>>, <<>>),
    Message("response", "GET", "none", FALSE, Unreasoned(304) \o Typed \o InChunks, <<>>, <<>>),
    Message("response", "GET", "none", FALSE, OK(204) \o Typed, <<>>, <<>>),
    Response("none", Typed \o Length(0), <<>>, <<>>),
    Response("chunked", Typed \o InChunks, Chunked(<<>>, 1, <<>>), <<>>)}

\* A header that comes twice, is spaced or folded, or names what is the default.
Written3 == {
    Response("length", Spaced("Content-Type", Word("text")) \o Length(3) \o Length(1),
             Abc.units, Abc.content),
    Request("length", Folded("Note", Word("text")) \o Typed
                      \o Header("Content-Encoding", Word("identity"))
                      \o Header("Transfer-Encoding", Word("identity")) \o Length(3),
            Abc.units, Abc.content),
    Response("length", Typed \o Length(9) \o Header("Transfer-Length", N("number", 3)),
             Abc.units, Abc.content)}

MCMessages ==
    Bodiless \cup Written3
    \cup Framings(Abc, Response) \cup Framings(Long, Response)
    \cup {m \in Framings(Abc, Request) : m.framing # "close"}
    \cup UNION {Framings(body, Packed200) : body \in Members}
    \cup {Packed200("length", Typed \o Length(Len(StoredMember.units)), StoredMember.units,
                    StoredMember.content)}

\* What is sent without packing it is well made.
Points(m) ==
    LET points[i \in 0 .. Len(m.units)] ==
            IF i = 0 THEN First(m) ELSE Sent(points[i - 1], m.units[i], m)
    IN  points

ASSUME PlainMessages == \A m \in MCMessages : ~m.gzip => LaidOut(m, Points(m))

=============================================================================
