---------------------------------- MODULE Gzip ----------------------------------
(* Reading a gzip stream: the file, its one member and the blocks of the deflated   *)
(* data (Gzip.FileFormat.cpp, Gzip.MemberFrame.cpp, Gzip.Deflate.cpp), behind the    *)
(* stream interface of Basic::ProcessStream.                                         *)
(*                                                                                   *)
(* The stream is a sequence of units, each what one state of the frames reads: a     *)
(* field of a header, one bit of a Huffman code, the extra bits of a symbol, a byte. *)
(* A handler is an operator from one state of the frames and a unit to the next.     *)
(* The alphabet of the code lengths is left out, and so is the cut of the window to  *)
(* the last 32K.                                                                     *)
EXTENDS Integers, Sequences, FiniteSets, SequencesExt

Unit(kind, v) == [kind |-> kind, v |-> v]

-----------------------------------------------------------------------------
(* Huffman alphabets: a code is the sequence of its bits *)

NoAlphabet == [s \in {} |-> <<>>]

Bits(code, length) == [i \in 1 .. length |-> (code \div 2 ^ (length - i)) % 2]

\* How many symbols have codes of one bit, two bits, ...
LengthCount(lengths) ==
    [l \in 1 .. 15 |-> Cardinality({i \in DOMAIN lengths : lengths[i] = l})]

FirstCodeUnshifted(count) ==
    LET first[l \in 1 .. 15] == IF l = 1 THEN 0 ELSE first[l - 1] + count[l - 1]
    IN  first

FirstCode(count) ==
    LET first[l \in 1 .. 15] == IF l = 1 THEN 0 ELSE 2 * (first[l - 1] + count[l - 1])
    IN  first

Codes(lengths) ==
    LET first == FirstCode(LengthCount(lengths))
        Rank(i) == Cardinality({j \in 1 .. i - 1 : lengths[j] = lengths[i]})
    IN  [s \in {i - 1 : i \in {j \in DOMAIN lengths : lengths[j] # 0}} |->
            Bits(first[lengths[s + 1]] + Rank(s + 1), lengths[s + 1])]

\* A node of the tree is a leaf or has both children, and no two symbols share a leaf.
validate(codes) ==
    LET leaves == {codes[s] : s \in DOMAIN codes}
        nodes  == UNION {{SubSeq(c, 1, n) : n \in 0 .. Len(c)} : c \in leaves}
        inner  == UNION {{SubSeq(c, 1, n) : n \in 0 .. Len(c) - 1} : c \in leaves}
    IN  /\ Cardinality(leaves) = Cardinality(DOMAIN codes)
        /\ leaves \cap inner = {}
        /\ \A p \in inner : Append(p, 0) \in nodes /\ Append(p, 1) \in nodes

\* Lengths that are no complete code leave the alphabet as it was, and nobody looks.
make_alphabet(lengths, old) ==
    LET count  == LengthCount(lengths)
        first  == FirstCode(count)
        longest == {l \in 1 .. 15 : count[l] > 0}
    IN  IF /\ \A l \in longest : count[l] <= 2 ^ l
           /\ \A l \in 1 .. 15 : (\E m \in longest : l <= m) => first[l] < 2 ^ l
           /\ validate(Codes(lengths))
        THEN Codes(lengths) ELSE old

FixedLengths == [i \in 1 .. 288 |->
    IF i <= 144 THEN 8 ELSE IF i <= 256 THEN 9 ELSE IF i <= 280 THEN 7 ELSE 8]
HLIT_fixed  == make_alphabet(FixedLengths, NoAlphabet)
HDIST_fixed == make_alphabet([i \in 1 .. 32 |-> 5], NoAlphabet)

\* The length a length symbol stands for, and the distance a distance symbol does, with
\* the extra bits that follow it.
lit_extra_bits_parameters(i, extra) ==
    IF i < 8 THEN 3 + i
    ELSE IF i = 28 THEN 258
    ELSE (4 + (i % 4)) * 2 ^ ((i \div 4) - 1) + 3 + extra

dist_extra_bits_parameters(i, extra) ==
    IF i < 4 THEN 1 + i ELSE (2 + (i % 2)) * 2 ^ ((i \div 2) - 1) + 1 + extra

-----------------------------------------------------------------------------
(* Deflate *)

NewFile ==
    [file |-> "member_frame_state", member |-> "ID1_state", deflate |-> "BFINAL_state",
     flags |-> {}, final |-> FALSE, len |-> 0, len_read |-> FALSE,
     left |-> 0, hlit |-> 0, hdist |-> 0, lengths |-> <<>>, lit |-> NoAlphabet,
     dist |-> NoAlphabet, walk |-> <<>>, symbol |-> 0, length |-> 0, out |-> <<>>]

To(g, state) == [g EXCEPT !.deflate = state]

next_block_state(g) == IF g.final THEN To(g, "done_state") ELSE To(g, "BFINAL_state")

\* A uint16 the number frame has read, most significant byte first.
Swapped(n) == (n % 256) * 256 + (n \div 256)

uncompressed(g) ==
    IF g.len = 0 THEN next_block_state(g)
    ELSE [To(g, "uncompressed_data_state") EXCEPT !.left = g.len]

\* The frames of the two lengths are reset at the end of a compressed block only: after
\* another stored block they are done and nothing is read.
BTYPE_state(g, type) ==
    CASE type = 0 -> IF g.len_read THEN uncompressed(g) ELSE To(g, "LEN_state")
      [] type = 1 -> [To(g, "length_code_state") EXCEPT !.lit = HLIT_fixed,
                                                        !.dist = HDIST_fixed]
      [] type = 2 -> To(g, "HLIT_state")
      [] type = 3 -> To(g, "BTYPE_failed")

NLEN_state(g, nlen) ==
    IF nlen # 65535 - g.len THEN To(g, "NLEN_failed")
    ELSE uncompressed([g EXCEPT !.len_read = TRUE])

uncompressed_data_state(g, u) ==
    LET written == [g EXCEPT !.out = @ \o u.v, !.left = @ - 1]
    IN  IF g.left = 1 THEN next_block_state(written) ELSE written

\* A single distance code is made by hand when there is no other length at all.
DistanceAlphabet(g, lengths) ==
    IF Len(lengths) = 1
    THEN CASE lengths[1] = 0 -> NoAlphabet
           [] lengths[1] = 1 -> [s \in {0} |-> <<0>>]
           [] OTHER          -> g.dist
    ELSE make_alphabet(lengths, g.dist)

LengthsComplete(g) ==
    IF Len(g.lengths) < g.hlit + g.hdist THEN g
    ELSE IF Len(g.lengths) > g.hlit + g.hdist THEN To(g, "lengths_failed")
    ELSE [To(g, "length_code_state") EXCEPT
             !.lit     = make_alphabet(SubSeq(g.lengths, 1, g.hlit), @),
             !.dist    = DistanceAlphabet(g, SubSeq(g.lengths, g.hlit + 1, Len(g.lengths))),
             !.lengths = <<>>]

\* A length, the last one some more times, or some zeros.
lengths_state(g, u) ==
    LengthsComplete([g EXCEPT !.lengths = @ \o
        CASE u.kind = "length" -> u.v
          [] u.kind = "repeat" -> [i \in 1 .. u.v[1] |-> Last(g.lengths)]
          [] u.kind = "zeros"  -> [i \in 1 .. u.v[1] |-> 0]])

\* One bit down the tree, to a leaf or not.
Leaf(g, bit, alphabet) == {s \in DOMAIN alphabet : alphabet[s] = Append(g.walk, bit)}

Walk(g, bit, alphabet, failed) ==
    LET walk == Append(g.walk, bit)
    IN  CASE DOMAIN alphabet = {} -> To(g, "null")
          [] \E s \in DOMAIN alphabet : IsPrefix(walk, alphabet[s]) -> [g EXCEPT !.walk = walk]
          [] OTHER -> To(g, failed)

\* What the block leaves behind is cleared.
EndOfBlock(g) ==
    next_block_state([g EXCEPT !.len_read = FALSE, !.lit = NoAlphabet, !.dist = NoAlphabet])

\* The fixed alphabets have more symbols than the tables have rows.
LiteralOrLength(g, symbol) ==
    CASE symbol < 256 -> [g EXCEPT !.out = Append(@, symbol)]
      [] symbol = 256 -> EndOfBlock(g)
      [] symbol > 285 -> To(g, "garbled")
      [] OTHER        -> [To(g, "length_extra_bits_state") EXCEPT !.symbol = symbol - 257]

Distance(g, symbol) ==
    IF symbol > 29 THEN To(g, "garbled")
    ELSE [To(g, "distance_extra_bits_state") EXCEPT !.symbol = symbol]

length_code_state(g, bit) ==
    LET leaf == Leaf(g, bit, g.lit)
    IN  IF leaf = {} THEN Walk(g, bit, g.lit, "length_code_failed")
        ELSE LiteralOrLength([g EXCEPT !.walk = <<>>], CHOOSE s \in leaf : TRUE)

distance_code_state(g, bit) ==
    LET leaf == Leaf(g, bit, g.dist)
    IN  IF leaf = {} THEN Walk(g, bit, g.dist, "distance_code_failed")
        ELSE Distance([g EXCEPT !.walk = <<>>], CHOOSE s \in leaf : TRUE)

MatchFromStart(g, distance) ==
    [To(g, "length_code_state") EXCEPT
        !.out = @ \o [i \in 1 .. g.length |-> g.out[1 + ((i - 1) % Len(g.out))]]]

\* Copying a byte at a time: a match may reach into what it writes.
Match(g, distance) ==
    LET size == Len(g.out)
    IN  IF distance > size THEN To(g, "after_extra_distance_bits_failed")
        ELSE [To(g, "length_code_state") EXCEPT
                 !.out = @ \o [i \in 1 .. g.length |->
                                  g.out[size - distance + 1 + ((i - 1) % distance)]]]

\* The unit each state reads; another one means that the frames have lost their place
\* among the bits, where the model does not follow them.
Reads == [BFINAL_state |-> {"BFINAL"}, BTYPE_state |-> {"BTYPE"}, LEN_state |-> {"LEN"},
    NLEN_state |-> {"NLEN"}, HLIT_state |-> {"HLIT"}, HDIST_state |-> {"HDIST"},
    HCLEN_state |-> {"HCLEN"}, lengths_state |-> {"length", "repeat", "zeros"},
    length_code_state |-> {"bit"}, length_extra_bits_state |-> {"extra"},
    distance_code_state |-> {"bit"}, distance_extra_bits_state |-> {"extra"}]

Deflate(g, u) ==
    IF g.deflate = "uncompressed_data_state" THEN uncompressed_data_state(g, u)
    ELSE IF u.kind \notin Reads[g.deflate] THEN To(g, "garbled")
    ELSE CASE g.deflate = "BFINAL_state" -> [To(g, "BTYPE_state") EXCEPT !.final = u.v[1] = 1]
           [] g.deflate = "BTYPE_state" -> BTYPE_state(g, u.v[1])
           [] g.deflate = "LEN_state"   -> [To(g, "NLEN_state") EXCEPT !.len = Swapped(u.v[1])]
           [] g.deflate = "NLEN_state"  -> NLEN_state(g, Swapped(u.v[1]))
           [] g.deflate = "HLIT_state"  -> [To(g, "HDIST_state") EXCEPT !.hlit = u.v[1] + 257]
           [] g.deflate = "HDIST_state" -> [To(g, "HCLEN_state") EXCEPT !.hdist = u.v[1] + 1]
           [] g.deflate = "HCLEN_state" -> To(g, "lengths_state")
           [] g.deflate = "lengths_state" -> lengths_state(g, u)
           [] g.deflate = "length_code_state" -> length_code_state(g, u.v[1])
           [] g.deflate = "length_extra_bits_state" ->
                 [To(g, "distance_code_state") EXCEPT
                     !.length = lit_extra_bits_parameters(g.symbol, u.v[1])]
           [] g.deflate = "distance_code_state" -> distance_code_state(g, u.v[1])
           [] g.deflate = "distance_extra_bits_state" ->
                 Match(g, dist_extra_bits_parameters(g.symbol, u.v[1]))

-----------------------------------------------------------------------------
(* The member around the blocks, and the file around the member *)

Member(g, state) == [g EXCEPT !.member = state]

\* The fields a header may or may not have; two of them are not read.
Supported(g, flag, failed, otherwise) ==
    IF flag \in g.flags THEN Member(g, failed) ELSE otherwise

AfterComment(g) ==
    Supported(g, "FHCRC", "CRC16_failed", Member(g, "compressed_blocks_state"))

AfterName(g) ==
    IF "FCOMMENT" \in g.flags THEN Member(g, "file_comment_state") ELSE AfterComment(g)

AfterOS(g) ==
    Supported(g, "FEXTRA", "XLEN_failed",
        IF "FNAME" \in g.flags THEN Member(g, "original_file_name_state") ELSE AfterName(g))

Text(g, u, after) == IF u.v = <<0>> THEN after ELSE g

AfterBlocks(g) ==
    CASE g.deflate = "done_state" -> Member(g, "CRC32_state")
      [] g.deflate \in {"BTYPE_failed", "NLEN_failed", "lengths_failed",
             "length_code_failed", "distance_code_failed",
             "after_extra_distance_bits_failed"} -> Member(g, "OS_failed")
      [] OTHER -> g

compressed_blocks_state(g, u) == AfterBlocks(Deflate(g, u))

\* Three fields have but one value; what the others say is not looked at, not even the
\* checksum of the data.
MemberFrame(g, u) ==
    CASE g.member = "ID1_state" ->
            Member(g, IF u.kind = "ID1" THEN "ID2_state" ELSE "ID1_failed")
      [] g.member = "ID2_state" ->
            Member(g, IF u.kind = "ID2" THEN "CM_state" ELSE "ID2_failed")
      [] g.member = "CM_state"  ->
            Member(g, IF u.kind = "CM" THEN "FLG_state" ELSE "CM_failed")
      [] g.member = "FLG_state"   -> [Member(g, "MTIME_state") EXCEPT !.flags = ToSet(u.v)]
      [] g.member = "MTIME_state" -> Member(g, "XFL_state")
      [] g.member = "XFL_state"   -> Member(g, "OS_state")
      [] g.member = "OS_state"    -> AfterOS(g)
      [] g.member = "original_file_name_state" -> Text(g, u, AfterName(g))
      [] g.member = "file_comment_state" -> Text(g, u, AfterComment(g))
      [] g.member = "compressed_blocks_state"  -> compressed_blocks_state(g, u)
      [] g.member = "CRC32_state" -> Member(g, "ISIZE_state")
      [] g.member = "ISIZE_state" -> Member(g, "done_state")

AfterMember(g) ==
    CASE g.member = "done_state" -> [g EXCEPT !.file = "next_member_state"]
      [] g.member \in {"ID1_failed", "ID2_failed", "CM_failed", "XLEN_failed",
                      "CRC16_failed", "OS_failed"} ->
            [g EXCEPT !.file = "member_frame_failed"]
      [] OTHER -> g

FileFormat(g, u) ==
    IF g.file = "next_member_state" THEN [g EXCEPT !.file = "next_member_failed"]
    ELSE AfterMember(MemberFrame(g, u))

-----------------------------------------------------------------------------
(* As a stream: what is left over, or not understood, ends the process *)

Broken(g) ==
    g.file = "fatal" \/ g.deflate \in {"null", "garbled"}

Checked(g) ==
    IF g.file \in {"member_frame_failed", "next_member_failed"}
    THEN [g EXCEPT !.file = "fatal"] ELSE g

write_element(g, u) ==
    IF Broken(g) THEN g
    ELSE IF g.file = "done_state" THEN [g EXCEPT !.file = "fatal"]
    ELSE Checked(FileFormat(g, u))

\* The end comes between any two units; only after the member is it one.
write_eof(g) ==
    IF g.file = "next_member_state" THEN [g EXCEPT !.file = "done_state"] ELSE g

=============================================================================
