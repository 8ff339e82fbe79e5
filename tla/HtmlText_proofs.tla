---------------------------- MODULE HtmlText_proofs ----------------------------
(* What is proved about the text of HtmlTokenizer: of what may turn out to be the *)
(* end tag of a text element, no character is lost, doubled or out of order.      *)
EXTENDS HtmlTokenizer_proofs

-------------------------------------------------------------------------------
(* What is held, given and read again.                                         *)

LessStates == {"RCDATA_less_than_sign_state", "RAWTEXT_less_than_sign_state",
    "script_data_less_than_sign_state", "script_data_escaped_less_than_sign_state"}
OpenStates == {"RCDATA_end_tag_open_state", "RAWTEXT_end_tag_open_state",
    "script_data_end_tag_open_state"}
NameStates == {"RCDATA_end_tag_name_state", "RAWTEXT_end_tag_name_state",
    "script_data_end_tag_name_state"}
HoldingStates == LessStates \cup OpenStates \cup NameStates

LEMMA Holding ==
    ASSUME NEW s
    PROVE  /\ s.state \in LessStates => Held(s) = <<"<">>
           /\ s.state \in OpenStates => Held(s) = <<"<", "/">>
           /\ s.state \in NameStates => Held(s) = <<"<", "/">> \o s.buffer
           /\ s.state \notin HoldingStates => Held(s) = <<>>
<1>1. s.state \in LessStates => Held(s) = <<"<">>
  BY DEF Held, LessStates
<1>2. s.state \in OpenStates => Held(s) = <<"<", "/">>
  BY DEF Held, OpenStates
<1>3. s.state \in NameStates => Held(s) = <<"<", "/">> \o s.buffer
  BY DEF Held, NameStates
<1>4. s.state \notin HoldingStates => Held(s) = <<>>
  BY DEF Held, HoldingStates, LessStates, OpenStates, NameStates
<1> QED BY <1>1, <1>2, <1>3, <1>4

\* Of the text read so far nothing is lost: with one more character, what was held is
\* given or held, or the character is read again after it.
Passes(p, c, r) ==
    \/ r.again = p.again /\ Held(p) \o <<Shown(c)>> = Given(r.out) \o Held(r)
    \/ r.again = <<c>> \o p.again /\ Held(p) = Given(r.out) /\ Held(r) = <<>>

\* A state that has given nothing yet.
Quiet(p, q) == DOMAIN q = Fields /\ q.out = <<>> /\ q.again = p.again

LEMMA QuietSelf ==
    ASSUME NEW p, NEW c, Ready(p, c)
    PROVE  Quiet(p, p) /\ c \in Chars /\ p.again \in Seq(Chars) /\ p.buffer \in Seq(Chars)
BY DEF Ready, Going, Typed, Quiet

LEMMA QuietBuffer ==
    ASSUME NEW p, NEW q, Quiet(p, q), NEW b, NEW r, r = [q EXCEPT !.buffer = b]
    PROVE  Quiet(p, r) /\ r.state = q.state /\ r.buffer = b
BY DEF Quiet, Fields

\* Another state is entered.
LEMMA QuietSwitch ==
    ASSUME NEW p, NEW q, Quiet(p, q), NEW Y, Y # q.state, q.state # "attribute_name_state",
           Y # "character_reference_in_attribute_value_state",
           NEW r, r = SwitchToState(q, Y)
    PROVE  Quiet(p, r) /\ r.state = Y /\ r.buffer = q.buffer
<1>1. r = [q EXCEPT !.state = Y]
  BY DEF SwitchToState
<1> QED BY <1>1 DEF Quiet, Fields

LEMMA QuietStay ==
    ASSUME NEW p, NEW q, Quiet(p, q), NEW Y, q.state # "attribute_name_state",
           Y # "character_reference_in_attribute_value_state",
           NEW r, r = StayIn(q, Y)
    PROVE  Quiet(p, r) /\ r.state = Y /\ r.buffer = q.buffer
<1>1. CASE Y = q.state
  BY <1>1 DEF StayIn
<1>2. CASE Y # q.state
  BY <1>2, QuietSwitch DEF StayIn
<1> QED BY <1>1, <1>2

\* Characters are given.
LEMMA Said ==
    ASSUME NEW p, NEW q, Quiet(p, q), NEW cs \in Seq(Chars), NEW r, r = EmitCharacters(q, cs)
    PROVE  /\ DOMAIN r = Fields /\ r.state = q.state /\ r.buffer = q.buffer
           /\ r.again = p.again /\ Given(r.out) = cs
<1> DEFINE given == [i \in DOMAIN cs |-> T!Token("character", <<cs[i]>>, "data")]
<1>1. /\ DOMAIN r = Fields /\ r.state = q.state /\ r.buffer = q.buffer /\ r.again = p.again
      /\ r.out = <<>> \o given
  BY DEF EmitCharacters, Quiet, Fields
<1>2. given \in Seq(TextTokens)
  BY DEF TextTokens
<1>3. r.out = given
  BY <1>1, <1>2, ConcatEmptySeq
<1>4. Given(given) = cs
  <2>1. \A i \in DOMAIN cs : given[i].type = "character" /\ given[i].name = <<cs[i]>>
    BY DEF T!Token
  <2>2. DOMAIN given = DOMAIN cs
    OBVIOUS
  <2>3. cs = [i \in DOMAIN cs |-> cs[i]]
    OBVIOUS
  <2> HIDE DEF given
  <2> QED BY <2>1, <2>2, <2>3 DEF Given
<1> QED BY <1>1, <1>3, <1>4

\* A character is read again.
LEMMA ReadOnceMore ==
    ASSUME NEW q, DOMAIN q = Fields, NEW c, NEW r, r = Again(q, c)
    PROVE  /\ r.state = q.state /\ r.buffer = q.buffer /\ r.again = <<c>> \o q.again
           /\ r.out = q.out
BY DEF Again, ReadAll, Fields

LEMMA Pair ==
    ASSUME NEW x, NEW y
    PROVE  <<x>> \o <<y>> = <<x, y>>
<1>1. PICK S : S = {x, y}
  OBVIOUS
<1>2. <<x>> \in Seq(S) /\ <<y>> \in Seq(S) /\ <<x, y>> \in Seq(S)
  BY <1>1
<1>3. PICK a \in Seq(S), b \in Seq(S), ab \in Seq(S) : a = <<x>> /\ b = <<y>> /\ ab = <<x, y>>
  BY <1>2
<1>4. Len(a) = 1 /\ a[1] = x /\ Len(b) = 1 /\ b[1] = y /\ Len(ab) = 2 /\ ab[1] = x /\ ab[2] = y
  BY <1>3
<1>5. a \o b \in Seq(S) /\ Len(a \o b) = 2 /\ (a \o b)[1] = x /\ (a \o b)[2] = y
  BY <1>4, ConcatProperties
<1>6. a \o b = ab
  <2>1. \A i \in 1 .. 2 : i = 1 \/ i = 2
    OBVIOUS
  <2>2. \A i \in 1 .. 2 : (a \o b)[i] = ab[i]
    BY <1>4, <1>5, <2>1
  <2> QED BY <1>4, <1>5, <2>2, SeqEqual
<1> QED BY <1>3, <1>6

LEMMA NothingGiven == Given(<<>>) = <<>>
BY DEF Given

-------------------------------------------------------------------------------
(* The ways to pass a character on.                                            *)

\* A state that holds nothing gives the character,
LEMMA GivesIt ==
    ASSUME NEW p, NEW c \in Chars, p.state \notin HoldingStates,
           NEW q, Quiet(p, q), q.state \notin HoldingStates,
           NEW r, r = EmitCharacters(q, <<Shown(c)>>)
    PROVE  Passes(p, c, r)
<1>1. <<Shown(c)>> \in Seq(Chars)
  BY Alphabet
<1>2. r.state = q.state /\ r.again = p.again /\ Given(r.out) = <<Shown(c)>>
  <2>1. PICK cs \in Seq(Chars) : cs = <<Shown(c)>>
    BY <1>1
  <2>2. r = EmitCharacters(q, cs)
    BY <2>1
  <2>3. r.state = q.state /\ r.again = p.again /\ Given(r.out) = cs
    BY <2>2, Said
  <2> QED BY <2>1, <2>3
<1>3. Held(p) = <<>> /\ Held(r) = <<>>
  BY <1>2, Holding
<1>4. <<>> \o <<Shown(c)>> = <<Shown(c)>> \o <<>>
  BY <1>1, ConcatEmptySeq
<1> QED BY <1>2, <1>3, <1>4 DEF Passes

\* or holds it,
LEMMA HoldsIt ==
    ASSUME NEW p, p.state \notin HoldingStates,
           NEW r, Quiet(p, r), r.state \in LessStates
    PROVE  Passes(p, "<", r)
<1>1. Held(p) = <<>> /\ Held(r) = <<"<">> /\ Shown("<") = "<" /\ Given(r.out) = <<>>
  BY Holding, NothingGiven DEF Shown, Quiet
<1> QED BY <1>1 DEF Passes, Quiet

\* or has another state read it.
LEMMA LeavesIt ==
    ASSUME NEW p, NEW c, p.state \notin HoldingStates,
           NEW q, Quiet(p, q), q.state \notin HoldingStates,
           NEW r, r = Again(q, c)
    PROVE  Passes(p, c, r)
<1>1. r.state = q.state /\ r.again = <<c>> \o p.again /\ r.out = <<>>
  BY ReadOnceMore DEF Quiet
<1> QED BY <1>1, Holding, NothingGiven DEF Passes

\* What was held is given back, and the character read as text,
LEMMA GivesBack ==
    ASSUME NEW p, NEW c, NEW cs \in Seq(Chars), Held(p) = cs,
           NEW q, Quiet(p, q), q.state \notin HoldingStates,
           NEW r, r = Again(EmitCharacters(q, cs), c)
    PROVE  Passes(p, c, r)
<1>1. PICK g : g = EmitCharacters(q, cs)
  OBVIOUS
<1>2. /\ DOMAIN g = Fields /\ g.state = q.state /\ g.again = p.again /\ Given(g.out) = cs
  BY <1>1, Said
<1>3. r.state = q.state /\ r.again = <<c>> \o p.again /\ Given(r.out) = cs
  BY <1>1, <1>2, ReadOnceMore
<1> QED BY <1>3, Holding DEF Passes

\* or given with the character.
LEMMA GivesBoth ==
    ASSUME NEW p, NEW c \in Chars, Shown(c) = c, p.state \in LessStates,
           NEW q, Quiet(p, q), q.state \notin HoldingStates,
           NEW r, r = EmitCharacters(q, <<"<", c>>)
    PROVE  Passes(p, c, r)
<1>1. <<"<", c>> \in Seq(Chars)
  BY DEF Chars
<1>2. r.state = q.state /\ r.again = p.again /\ Given(r.out) = <<"<", c>>
  BY <1>1, Said
<1>3. Held(p) = <<"<">> /\ Held(r) = <<>>
  BY <1>2, Holding
<1>4. <<"<">> \o <<c>> = <<"<", c>> /\ <<"<", c>> \o <<>> = <<"<", c>>
  BY <1>1, Pair, ConcatEmptySeq
<1> QED BY <1>2, <1>3, <1>4 DEF Passes

\* The end of the input is given as one of the text.
LEMMA GivesEnd ==
    ASSUME NEW p, Going(p), p.state \notin HoldingStates, NEW r, r = Emit(p, "eof", <<>>)
    PROVE  Passes(p, "EOF", r)
<1>1. PICK t : t = T!Token("eof", <<>>, "data")
  OBVIOUS
<1>2. r = Give(p, t) /\ t.type = "eof"
  BY <1>1 DEF Emit, Switched, T!Token
<1>3. r.state = p.state /\ r.again = p.again /\ r.out = <<t>>
  BY <1>1, <1>2, GiveFields DEF Going
<1>4. Given(r.out) = <<"EOF">>
  BY <1>2, <1>3 DEF Given
<1>5. Held(p) = <<>> /\ Held(r) = <<>> /\ Shown("EOF") = "EOF"
  BY <1>3, Holding, Alphabet
<1>6. <<>> \o <<"EOF">> = <<"EOF">> \o <<>>
  OBVIOUS
<1> QED BY <1>3, <1>4, <1>5, <1>6 DEF Passes

\* An end tag may have begun: the slash is held,
LEMMA HoldsSlash ==
    ASSUME NEW p, p.state \in LessStates, NEW r, Quiet(p, r), r.state \in OpenStates
    PROVE  Passes(p, "/", r)
<1>1. Held(p) = <<"<">> /\ Held(r) = <<"<", "/">> /\ Shown("/") = "/" /\ Given(r.out) = <<>>
  BY Holding, NothingGiven DEF Shown, Quiet
<1>2. <<"<">> \o <<"/">> = <<"<", "/">> /\ <<>> \o <<"<", "/">> = <<"<", "/">>
  BY Pair, Literals, ConcatEmptySeq
<1> QED BY <1>1, <1>2 DEF Passes, Quiet

\* and so are its letters.
LEMMA HoldsLetter ==
    ASSUME NEW p, NEW c \in Chars, Shown(c) = c, p.buffer \in Seq(Chars),
           (p.state \in OpenStates /\ p.buffer = <<>>) \/ p.state \in NameStates,
           NEW r, Quiet(p, r), r.state \in NameStates, r.buffer = Append(p.buffer, c)
    PROVE  Passes(p, c, r)
<1>1. Held(p) = <<"<", "/">> \o p.buffer
  <2>1. <<"<", "/">> = <<"<", "/">> \o <<>>
    BY Literals, ConcatEmptySeq
  <2> QED BY <2>1, Holding
<1>2. Held(r) = <<"<", "/">> \o r.buffer /\ Given(r.out) = <<>>
  BY Holding, NothingGiven DEF Quiet
<1>3. PICK b \in Seq(Chars) : b = p.buffer
  OBVIOUS
<1>4. PICK a \in Seq(Chars) : a = <<"<", "/">>
  BY Literals
<1>5. (a \o b) \o <<c>> = <<>> \o (a \o Append(b, c))
  <2>1. (a \o b) \o <<c>> = a \o Append(b, c)
    <3>1. PICK d \in Seq(Chars) : d = <<c>>
      BY One
    <3>2. Append(b, c) = b \o d
      BY <3>1, AppendIsConcat
    <3>3. (a \o b) \o d = a \o (b \o d)
      <4>1. \A S : \A x, y, z \in Seq(S) : (x \o y) \o z = x \o (y \o z)
        BY ConcatAssociative
      <4> QED BY <4>1, SMTT(30)
    <3> QED BY <3>1, <3>2, <3>3
  <2>2. a \o Append(b, c) \in Seq(Chars)
    OBVIOUS
  <2> QED BY <2>1, <2>2, ConcatEmptySeq
<1> QED BY <1>1, <1>2, <1>3, <1>4, <1>5 DEF Passes, Quiet

-------------------------------------------------------------------------------
(* The states of text.                                                         *)

\* Letters and delimiters are shown as they are.
LEMMA ShownAsItIs ==
    \A c : c \in Letters \cup Space \cup {"/", ">", "<", "!", "-", "EOF"} => Shown(c) = c
BY DEF Shown, Letters, LowerLetters, LowerCase, Space

LEMMA RCDATAPasses ==
    ASSUME NEW p, NEW c, Ready(p, c), p.state = "RCDATA_state", NEW r, r = RCDATA_state(p, c),
           r.state \in Text
    PROVE  Passes(p, c, r)
<1>1. Quiet(p, p) /\ c \in Chars /\ Going(p) /\ p.state \notin HoldingStates
  BY QuietSelf DEF Ready, HoldingStates, LessStates, OpenStates, NameStates
<1>2. CASE c = "&"
  <2>1. PICK q : q = [p EXCEPT !.ref = Referred]
    OBVIOUS
  <2>2. Quiet(p, q) /\ q.state = p.state
    BY <1>1, <2>1 DEF Quiet, Fields
  <2>3. r = SwitchToState(q, "character_reference_in_RCDATA_state")
    BY <1>2, <2>1 DEF RCDATA_state
  <2>4. r.state = "character_reference_in_RCDATA_state"
    BY <2>2, <2>3, QuietSwitch
  <2> QED BY <2>4 DEF Text
<1>3. CASE c = "<"
  <2>1. r = SwitchToState(p, "RCDATA_less_than_sign_state")
    BY <1>3 DEF RCDATA_state
  <2>2. Quiet(p, r) /\ r.state \in LessStates
    BY <1>1, <2>1, QuietSwitch DEF LessStates
  <2> QED BY <1>1, <1>3, <2>2, HoldsIt
<1>4. CASE c = "EOF"
  BY <1>1, <1>4, GivesEnd DEF RCDATA_state
<1>5. CASE c \notin {"&", "<", "EOF"}
  <2>1. r = EmitCharacters(p, <<Shown(c)>>)
    BY <1>5 DEF RCDATA_state, EmitCharacter
  <2> QED BY <1>1, <2>1, GivesIt
<1> QED BY <1>2, <1>3, <1>4, <1>5

LEMMA PlainTextPasses ==
    ASSUME NEW p, NEW c, Ready(p, c), p.state \notin HoldingStates, NEW r, r = PlainText(p, c)
    PROVE  Passes(p, c, r)
<1>1. Quiet(p, p) /\ c \in Chars /\ Going(p)
  BY QuietSelf DEF Ready
<1>2. CASE c = "EOF"
  BY <1>1, <1>2, GivesEnd DEF PlainText
<1>3. CASE c # "EOF"
  <2>1. r = EmitCharacters(p, <<Shown(c)>>)
    BY <1>3 DEF PlainText, EmitCharacter
  <2> QED BY <1>1, <2>1, GivesIt
<1> QED BY <1>2, <1>3

LEMMA RawTextPasses ==
    ASSUME NEW p, NEW c, Ready(p, c), p.state \in {"RAWTEXT_state", "script_data_state"},
           NEW r, r = RawText(p, c)
    PROVE  Passes(p, c, r)
<1>1. Quiet(p, p) /\ p.state \notin HoldingStates
  BY QuietSelf DEF HoldingStates, LessStates, OpenStates, NameStates
<1>2. CASE c = "<"
  <2>1. PICK Y : Y = IF p.state = "RAWTEXT_state" THEN "RAWTEXT_less_than_sign_state"
                     ELSE "script_data_less_than_sign_state"
    OBVIOUS
  <2>2. r = SwitchToState(p, Y)
    BY <1>2, <2>1 DEF RawText
  <2>3. Quiet(p, r) /\ r.state = Y
    BY <1>1, <2>1, <2>2, QuietSwitch
  <2>4. r.state \in LessStates
    BY <2>1, <2>3 DEF LessStates
  <2> QED BY <1>1, <1>2, <2>3, <2>4, HoldsIt
<1>3. CASE c # "<"
  <2>1. r = PlainText(p, c)
    BY <1>3 DEF RawText
  <2> QED BY <1>1, <2>1, PlainTextPasses
<1> QED BY <1>2, <1>3

\* The three states of what may be an end tag in a text, and the state of the text.
Around(text, less, open, name) ==
    /\ text \in {"RCDATA_state", "RAWTEXT_state", "script_data_state"}
    /\ less \in LessStates /\ open \in OpenStates /\ name \in NameStates

LEMMA AroundStates ==
    ASSUME NEW text, NEW less, NEW open, NEW name, Around(text, less, open, name)
    PROVE  /\ text # less /\ text # open /\ text # name /\ less # open /\ open # name
           /\ text \notin HoldingStates
           /\ {text, less, open, name} \cap
                {"attribute_name_state", "character_reference_in_attribute_value_state"} = {}
<1>1. /\ text # less /\ less # "attribute_name_state"
      /\ less # "character_reference_in_attribute_value_state"
  BY DEF Around, LessStates
<1>2. /\ text # open /\ open # "attribute_name_state"
      /\ open # "character_reference_in_attribute_value_state"
  BY DEF Around, OpenStates
<1>3. /\ text # name /\ name # "attribute_name_state"
      /\ name # "character_reference_in_attribute_value_state"
  BY DEF Around, NameStates
<1>4. less # open /\ open # name
  BY DEF Around, LessStates, OpenStates, NameStates
<1>5. /\ text \notin HoldingStates /\ text # "attribute_name_state"
      /\ text # "character_reference_in_attribute_value_state"
  BY DEF Around, HoldingStates, LessStates, OpenStates, NameStates
<1> QED BY <1>1, <1>2, <1>3, <1>4, <1>5

\* What was held, and the character again.
LEMMA TextAgain ==
    ASSUME NEW p, NEW c, Ready(p, c), p.state \in HoldingStates, NEW text,
           text \notin HoldingStates, p.state # "attribute_name_state",
           text # "character_reference_in_attribute_value_state",
           NEW cs \in Seq(Chars), Held(p) = cs,
           NEW r, r = Again(EmitCharacters(SwitchToState(p, text), cs), c)
    PROVE  Passes(p, c, r)
<1>1. Quiet(p, p) /\ text # p.state
  BY QuietSelf
<1>2. PICK q : q = SwitchToState(p, text)
  OBVIOUS
<1>3. Quiet(p, q) /\ q.state = text
  BY <1>1, <1>2, QuietSwitch
<1>4. r = Again(EmitCharacters(q, cs), c)
  BY <1>2
<1> QED BY <1>3, <1>4, GivesBack

LEMMA LessThanPasses ==
    ASSUME NEW text, NEW less, NEW open, NEW name, Around(text, less, open, name),
           NEW p, NEW c, Ready(p, c), p.state = less, NEW r, r = LessThanSign(p, c, text, open)
    PROVE  Passes(p, c, r)
<1>1. Quiet(p, p) /\ Held(p) = <<"<">> /\ less \in HoldingStates /\ less \in LessStates
  BY QuietSelf, Holding DEF Around, HoldingStates
<1>2. CASE c = "/"
  <2>1. PICK q : q = [p EXCEPT !.buffer = <<>>]
    OBVIOUS
  <2>2. Quiet(p, q) /\ q.state = less
    <3>1. PICK b : b = <<>>
      OBVIOUS
    <3>2. q = [p EXCEPT !.buffer = b]
      BY <2>1, <3>1
    <3> QED BY <1>1, <3>2, QuietBuffer
  <2>3. r = SwitchToState(q, open)
    BY <1>2, <2>1 DEF LessThanSign
  <2>4. open # less /\ less # "attribute_name_state"
        /\ open # "character_reference_in_attribute_value_state"
    BY AroundStates
  <2>5. Quiet(p, r) /\ r.state = open
    BY <2>2, <2>3, <2>4, QuietSwitch
  <2>6. open \in OpenStates
    BY DEF Around
  <2> QED BY <1>1, <1>2, <2>5, <2>6, HoldsSlash
<1>3. CASE c # "/"
  <2>1. PICK cs \in Seq(Chars) : cs = <<"<">>
    BY Literals
  <2>2. r = Again(EmitCharacters(SwitchToState(p, text), cs), c)
    BY <1>3, <2>1 DEF LessThanSign, EmitCharacter
  <2>3. /\ text \notin HoldingStates /\ less # "attribute_name_state"
        /\ text # "character_reference_in_attribute_value_state"
    BY AroundStates
  <2> QED BY <1>1, <2>1, <2>2, <2>3, TextAgain
<1> QED BY <1>2, <1>3

\* A tag is begun, and its name grows.
LEMMA QuietTag ==
    ASSUME NEW p, NEW q, Quiet(p, q), NEW type, NEW c, NEW r, r = NewTag(q, type, c)
    PROVE  Quiet(p, r) /\ r.state = q.state /\ r.buffer = q.buffer
BY DEF NewTag, Quiet, Fields

LEMMA QuietName ==
    ASSUME NEW p, NEW q, Quiet(p, q), q.tag # NoTag, NEW c, NEW r, r = NameGrows(q, c)
    PROVE  Quiet(p, r) /\ r.state = q.state /\ r.buffer = q.buffer
BY DEF NameGrows, Quiet, Fields

LEMMA EndTagOpenPasses ==
    ASSUME NEW text, NEW less, NEW open, NEW name, Around(text, less, open, name),
           NEW p, NEW c, Ready(p, c), p.state = open, p.buffer = <<>>,
           NEW r, r = EndTagOpen(p, c, text, name)
    PROVE  Passes(p, c, r)
<1>1. /\ Quiet(p, p) /\ Held(p) = <<"<", "/">> /\ open \in HoldingStates /\ open \in OpenStates
      /\ c \in Chars /\ p.buffer \in Seq(Chars)
  BY QuietSelf, Holding DEF Around, HoldingStates
<1>2. CASE c \in Letters
  <2>1. PICK t : t = NewTag(p, "end", c)
    OBVIOUS
  <2>2. Quiet(p, t) /\ t.state = open /\ t.buffer = p.buffer
    BY <1>1, <2>1, QuietTag
  <2>3. PICK b : b = Append(p.buffer, c)
    OBVIOUS
  <2>4. PICK q : q = [t EXCEPT !.buffer = b]
    OBVIOUS
  <2>5. Quiet(p, q) /\ q.state = open /\ q.buffer = b
    <3>1. Quiet(p, q) /\ q.state = t.state /\ q.buffer = b
      BY <2>2, <2>4 DEF Quiet, Fields
    <3> QED BY <2>2, <3>1
  <2>6. r = SwitchToState(q, name)
    BY <1>2, <2>1, <2>2, <2>3, <2>4 DEF EndTagOpen
  <2>7. name # open /\ open # "attribute_name_state"
        /\ name # "character_reference_in_attribute_value_state"
    BY AroundStates
  <2>8. Quiet(p, r) /\ r.state = name /\ r.buffer = b
    BY <2>5, <2>6, <2>7, QuietSwitch
  <2>9. name \in NameStates /\ Shown(c) = c
    BY <1>2, ShownAsItIs DEF Around
  <2> QED BY <1>1, <2>3, <2>8, <2>9, HoldsLetter
<1>3. CASE c \notin Letters
  <2>1. PICK cs \in Seq(Chars) : cs = <<"<", "/">>
    BY Literals
  <2>2. r = Again(EmitCharacters(SwitchToState(p, text), cs), c)
    BY <1>3, <2>1 DEF EndTagOpen
  <2>3. /\ text \notin HoldingStates /\ open # "attribute_name_state"
        /\ text # "character_reference_in_attribute_value_state"
    BY AroundStates
  <2> QED BY <1>1, <2>1, <2>2, <2>3, TextAgain
<1> QED BY <1>2, <1>3

\* An end tag that is complete leaves the text.
LEMMA EndTagLeaves ==
    ASSUME NEW p, Typed(p), p.tag.type = "end", p.state # "data_state",
           p.state # "attribute_name_state"
    PROVE  EndTag(p).state = "data_state"
<1>1. PICK q : q = SwitchToState(p, "data_state")
  OBVIOUS
<1>2. q = [p EXCEPT !.state = "data_state"]
  BY <1>1 DEF SwitchToState
<1>3. DOMAIN q = Fields /\ q.state = "data_state" /\ q.tag = p.tag
  BY <1>2 DEF Typed, Fields
<1>4. q.tag # NoTag /\ ~ Switched(q, q.tag.type, q.tag.name)
  BY <1>3 DEF NoTag, Switched
<1>5. PICK t : t = T!Token(q.tag.type, q.tag.name, "data")
  OBVIOUS
<1>6. EndTag(p) = [Give(q, t) EXCEPT !.tag = NoTag]
  BY <1>1, <1>4, <1>5 DEF EndTag, EmitCurrentTagToken, Emit
<1>7. DOMAIN Give(q, t) = Fields /\ Give(q, t).state = "data_state"
  BY <1>3 DEF Give, Fields
<1> QED BY <1>6, <1>7 DEF Fields

LEMMA EndTagNamePasses ==
    ASSUME NEW text, NEW less, NEW open, NEW name, Around(text, less, open, name),
           NEW p, NEW c, Ready(p, c), p.state = name, p.tag.type = "end",
           NEW r, r = EndTagName(p, c, text), r.state \in Text
    PROVE  Passes(p, c, r)
<1>1. /\ Quiet(p, p) /\ Held(p) = <<"<", "/">> \o p.buffer
      /\ name \in HoldingStates /\ name \in NameStates
      /\ c \in Chars /\ p.buffer \in Seq(Chars) /\ p.tag # NoTag
  BY QuietSelf, Holding DEF Around, HoldingStates, NoTag
<1>2. /\ text \notin HoldingStates /\ text # name /\ name # "attribute_name_state"
      /\ text # "character_reference_in_attribute_value_state"
      /\ name \notin {"data_state", "before_attribute_name_state", "self_closing_start_tag_state"}
  BY <1>1, AroundStates DEF NameStates
<1>3. CASE c \in Letters
  <2>1. PICK t : t = NameGrows(p, Lower(c))
    OBVIOUS
  <2>2. Quiet(p, t) /\ t.state = name /\ t.buffer = p.buffer
    BY <1>1, <2>1, QuietName
  <2>3. PICK b : b = Append(p.buffer, c)
    OBVIOUS
  <2>4. r = [t EXCEPT !.buffer = b]
    BY <1>3, <2>1, <2>2, <2>3, Alphabet DEF EndTagName, LowerLetters, Space
  <2>5. Quiet(p, r) /\ r.state = name /\ r.buffer = b
    BY <2>2, <2>4, QuietBuffer
  <2>6. Shown(c) = c
    BY <1>3, ShownAsItIs
  <2> QED BY <1>1, <2>3, <2>5, <2>6, HoldsLetter
<1>4. CASE c \notin Letters /\ IsAppropriate(p) /\ c \in Space \cup {"/", ">"}
  <2>1. CASE c \in Space
    <3>1. r = SwitchToState(p, "before_attribute_name_state")
      BY <1>4, <2>1 DEF EndTagName, Space
    <3>2. r.state = "before_attribute_name_state"
      BY <1>1, <1>2, <3>1, QuietSwitch
    <3> QED BY <3>2 DEF Text, TextStates, ScriptStates, RCDATATagStates, RAWTEXTTagStates,
                        ScriptTagStates, EscapedStates, DoubleEscapedStates
  <2>2. CASE c = "/"
    <3>1. r = SwitchToState(p, "self_closing_start_tag_state")
      BY <1>4, <2>2 DEF EndTagName, Space
    <3>2. r.state = "self_closing_start_tag_state"
      BY <1>1, <1>2, <3>1, QuietSwitch
    <3> QED BY <3>2 DEF Text, TextStates, ScriptStates, RCDATATagStates, RAWTEXTTagStates,
                        ScriptTagStates, EscapedStates, DoubleEscapedStates
  <2>3. CASE c = ">"
    <3>1. r = EndTag(p)
      BY <1>4, <2>3 DEF EndTagName, Space
    <3>2. r.state = "data_state"
      BY <1>2, <3>1, EndTagLeaves DEF Ready, Going
    <3> QED BY <3>2 DEF Text
  <2> QED BY <1>4, <2>1, <2>2, <2>3
<1>5. CASE c \notin Letters /\ ~ (IsAppropriate(p) /\ c \in Space \cup {"/", ">"})
  <2>1. PICK cs : cs = <<"<", "/">> \o p.buffer
    OBVIOUS
  <2>2. cs \in Seq(Chars)
    BY <1>1, <2>1, Literals
  <2>3. r = Again(EmitCharacters(SwitchToState(p, text), cs), c)
    BY <1>5, <2>1 DEF EndTagName
  <2> QED BY <1>1, <1>2, <2>1, <2>2, <2>3, TextAgain
<1> QED BY <1>3, <1>4, <1>5

\* The end tags of the three texts.
LEMMA EndTagPasses ==
    ASSUME NEW text, NEW less, NEW open, NEW name, Around(text, less, open, name),
           NEW p, NEW c, Ready(p, c), p.state = open => p.buffer = <<>>,
           p.state = name => p.tag.type = "end", NEW r, r.state \in Text,
           \/ p.state = less /\ r = LessThanSign(p, c, text, open)
           \/ p.state = open /\ r = EndTagOpen(p, c, text, name)
           \/ p.state = name /\ r = EndTagName(p, c, text)
    PROVE  Passes(p, c, r)
BY LessThanPasses, EndTagOpenPasses, EndTagNamePasses, Zenon

-------------------------------------------------------------------------------
(* Scripts.                                                                    *)

\* The states of a script that hold nothing.
FreeStates == {"script_data_state", "script_data_escape_start_state",
    "script_data_escape_start_dash_state", "script_data_escaped_state",
    "script_data_escaped_dash_state", "script_data_escaped_dash_dash_state",
    "script_data_double_escape_start_state", "script_data_double_escaped_state",
    "script_data_double_escaped_dash_state", "script_data_double_escaped_dash_dash_state",
    "script_data_double_escaped_less_than_sign_state", "script_data_double_escape_end_state"}

LEMMA Free ==
    ASSUME NEW Y \in FreeStates
    PROVE  /\ Y \notin HoldingStates /\ Y # "attribute_name_state"
           /\ Y # "character_reference_in_attribute_value_state"
BY DEF FreeStates, HoldingStates, LessStates, OpenStates, NameStates

\* A state is entered, or not left, and the character given,
LEMMA FreeGives ==
    ASSUME NEW p, NEW c \in Chars, p.state \in FreeStates, NEW q, Quiet(p, q), q.state = p.state,
           NEW Y \in FreeStates, NEW a,
           a = StayIn(q, Y) \/ (Y # p.state /\ a = SwitchToState(q, Y)),
           NEW r, r = EmitCharacters(a, <<Shown(c)>>)
    PROVE  Passes(p, c, r)
<1>1. /\ p.state \notin HoldingStates /\ q.state # "attribute_name_state"
      /\ Y \notin HoldingStates /\ Y # "character_reference_in_attribute_value_state"
  BY Free
<1>2. Quiet(p, a) /\ a.state = Y
  <2>1. CASE a = StayIn(q, Y)
    BY <1>1, <2>1, QuietStay
  <2>2. CASE Y # p.state /\ a = SwitchToState(q, Y)
    BY <1>1, <2>2, QuietSwitch
  <2> QED BY <2>1, <2>2
<1> QED BY <1>1, <1>2, GivesIt

\* or another reads it.
LEMMA FreeLeaves ==
    ASSUME NEW p, NEW c, Ready(p, c), p.state \in FreeStates,
           NEW Y \in FreeStates, Y # p.state, NEW r, r = ReadAgain(p, Y, c)
    PROVE  Passes(p, c, r)
<1>1. /\ p.state \notin HoldingStates /\ p.state # "attribute_name_state"
      /\ Y \notin HoldingStates /\ Y # "character_reference_in_attribute_value_state"
  BY Free
<1>2. PICK a : a = SwitchToState(p, Y)
  OBVIOUS
<1>3. Quiet(p, a) /\ a.state = Y
  BY <1>1, <1>2, QuietSelf, QuietSwitch
<1>4. r = Again(a, c)
  BY <1>2 DEF ReadAgain
<1> QED BY <1>1, <1>3, <1>4, LeavesIt

\* The end of the input leaves a script.
LEMMA AbandonLeaves ==
    ASSUME NEW p, NEW c, Ready(p, c), p.state \in FreeStates
    PROVE  Abandon(p).state \notin Text
<1>1. PICK a : a = SwitchToState(p, "data_state")
  OBVIOUS
<1>2. p.state # "data_state" /\ p.state # "attribute_name_state"
  BY DEF FreeStates
<1>3. Quiet(p, a) /\ a.state = "data_state"
  BY <1>1, <1>2, QuietSelf, QuietSwitch
<1>4. Abandon(p) = Again(a, "EOF")
  BY <1>1 DEF Abandon, ReadAgain
<1>5. Abandon(p).state = "data_state"
  <2>1. PICK r : r = Again(a, "EOF")
    OBVIOUS
  <2>2. r.state = "data_state"
    BY <1>3, <2>1, ReadOnceMore DEF Quiet
  <2> QED BY <1>4, <2>1, <2>2
<1> QED BY <1>5 DEF Text

LEMMA ScriptLessThanPasses ==
    ASSUME NEW p, NEW c, Ready(p, c), p.state = "script_data_less_than_sign_state", c = "!",
           NEW r, r = script_data_end_tag(p, c)
    PROVE  Passes(p, c, r)
<1>1. Quiet(p, p) /\ c \in Chars /\ p.state \in LessStates
  BY QuietSelf DEF LessStates
<1>2. PICK Y : Y = "script_data_escape_start_state"
  OBVIOUS
<1>3. Y \in FreeStates /\ Y # p.state /\ p.state # "attribute_name_state"
  BY <1>2 DEF FreeStates
<1>4. PICK q : q = SwitchToState(p, Y)
  OBVIOUS
<1>5. Quiet(p, q) /\ q.state \notin HoldingStates
  BY <1>1, <1>3, <1>4, Free, QuietSwitch
<1>6. r = EmitCharacters(q, <<"<", c>>)
  <2>1. script_data_end_tag(p, c) =
          EmitCharacters(SwitchToState(p, "script_data_escape_start_state"), <<"<", "!">>)
    BY DEF script_data_end_tag
  <2> QED BY <1>2, <1>4, <2>1
<1>7. Shown(c) = c
  BY ShownAsItIs
<1> QED BY <1>1, <1>5, <1>6, <1>7, GivesBoth

LEMMA EscapeStartPasses ==
    ASSUME NEW p, NEW c, Ready(p, c),
           p.state \in {"script_data_escape_start_state", "script_data_escape_start_dash_state"},
           NEW r, r = script_data_escape_start(p, c)
    PROVE  Passes(p, c, r)
<1>1. Quiet(p, p) /\ c \in Chars /\ p.state \in FreeStates
  BY QuietSelf DEF FreeStates
<1>2. CASE c = "-"
  <2>1. PICK Y : Y = IF p.state = "script_data_escape_start_state"
                     THEN "script_data_escape_start_dash_state"
                     ELSE "script_data_escaped_dash_dash_state"
    OBVIOUS
  <2>2. Y \in FreeStates /\ Y # p.state
    BY <2>1 DEF FreeStates
  <2>3. Shown(c) = c
    BY <1>2, ShownAsItIs
  <2>4. PICK a : a = SwitchToState(p, Y)
    OBVIOUS
  <2>5. r = EmitCharacters(a, <<Shown(c)>>)
    BY <1>2, <2>1, <2>3, <2>4 DEF script_data_escape_start, EmitCharacter
  <2> QED BY <1>1, <2>2, <2>4, <2>5, FreeGives
<1>3. CASE c # "-"
  <2>1. PICK Y : Y = "script_data_state"
    OBVIOUS
  <2>2. Y \in FreeStates /\ Y # p.state
    BY <2>1 DEF FreeStates
  <2>3. r = ReadAgain(p, Y, c)
    BY <1>3, <2>1 DEF script_data_escape_start
  <2> QED BY <1>1, <2>2, <2>3, FreeLeaves
<1> QED BY <1>2, <1>3

\* After a dash.
LEMMA Dashes ==
    ASSUME NEW Y \in EscapedStates \cup DoubleEscapedStates
    PROVE  AfterDash[Y] \in FreeStates /\ Y \in FreeStates
BY DEF AfterDash, EscapedStates, DoubleEscapedStates, FreeStates

LEMMA EscapedPasses ==
    ASSUME NEW p, NEW c, Ready(p, c), p.state \in EscapedStates,
           NEW r, r = script_data_escaped(p, c), r.state \in Text
    PROVE  Passes(p, c, r)
<1>1. Quiet(p, p) /\ c \in Chars /\ p.state \in FreeStates
  BY QuietSelf, Dashes
<1>2. CASE c = "-"
  <2>1. PICK Y : Y = AfterDash[p.state]
    OBVIOUS
  <2>2. Y \in FreeStates /\ Shown(c) = c
    BY <1>2, <2>1, Dashes, ShownAsItIs
  <2>3. PICK a : a = StayIn(p, Y)
    OBVIOUS
  <2>4. r = EmitCharacters(a, <<Shown(c)>>)
    BY <1>2, <2>1, <2>2, <2>3 DEF script_data_escaped, EmitCharacter
  <2> QED BY <1>1, <2>2, <2>3, <2>4, FreeGives
<1>3. CASE c = "<"
  <2>1. PICK Y : Y = "script_data_escaped_less_than_sign_state"
    OBVIOUS
  <2>2. r = SwitchToState(p, Y)
    BY <1>3, <2>1 DEF script_data_escaped
  <2>3. /\ Y # p.state /\ p.state # "attribute_name_state" /\ Y \in LessStates
        /\ Y # "character_reference_in_attribute_value_state"
    BY <2>1 DEF EscapedStates, LessStates
  <2>4. Quiet(p, r) /\ r.state \in LessStates
    BY <1>1, <2>2, <2>3, QuietSwitch
  <2> QED BY <1>1, <1>3, <2>4, HoldsIt, Free
<1>4. CASE c = ">" /\ p.state = "script_data_escaped_dash_dash_state"
  <2>1. PICK Y : Y = "script_data_state"
    OBVIOUS
  <2>2. Y \in FreeStates /\ Y # p.state /\ Shown(c) = c
    BY <1>4, <2>1, ShownAsItIs DEF FreeStates
  <2>3. PICK a : a = SwitchToState(p, Y)
    OBVIOUS
  <2>4. r = EmitCharacters(a, <<Shown(c)>>)
    BY <1>4, <2>1, <2>2, <2>3 DEF script_data_escaped, EmitCharacter
  <2> QED BY <1>1, <2>2, <2>3, <2>4, FreeGives
<1>5. CASE c = "EOF"
  <2>1. r = Abandon(p)
    BY <1>5 DEF script_data_escaped
  <2> QED BY <1>1, <2>1, AbandonLeaves
<1>6. CASE c \notin {"-", "<", "EOF"} /\ ~ (c = ">" /\ p.state = "script_data_escaped_dash_dash_state")
  <2>1. PICK Y : Y = "script_data_escaped_state"
    OBVIOUS
  <2>2. Y \in FreeStates
    BY <2>1 DEF FreeStates
  <2>3. PICK a : a = StayIn(p, Y)
    OBVIOUS
  <2>4. r = EmitCharacters(a, <<Shown(c)>>)
    BY <1>6, <2>1, <2>3 DEF script_data_escaped, EmitCharacter
  <2> QED BY <1>1, <2>2, <2>3, <2>4, FreeGives
<1> QED BY <1>2, <1>3, <1>4, <1>5, <1>6

LEMMA DoubleEscapedPasses ==
    ASSUME NEW p, NEW c, Ready(p, c), p.state \in DoubleEscapedStates,
           p.state # "script_data_double_escaped_dash_state",
           NEW r, r = script_data_double_escaped(p, c), r.state \in Text
    PROVE  Passes(p, c, r)
<1>1. Quiet(p, p) /\ c \in Chars /\ p.state \in FreeStates
  BY QuietSelf, Dashes
<1>2. CASE c = "-"
  <2>1. PICK Y : Y = AfterDash[p.state]
    OBVIOUS
  <2>2. Y \in FreeStates /\ Shown(c) = c
    BY <1>2, <2>1, Dashes, ShownAsItIs
  <2>3. PICK a : a = StayIn(p, Y)
    OBVIOUS
  <2>4. r = EmitCharacters(a, <<Shown(c)>>)
    BY <1>2, <2>1, <2>2, <2>3 DEF script_data_double_escaped, EmitCharacter
  <2> QED BY <1>1, <2>2, <2>3, <2>4, FreeGives
<1>3. CASE c = "<"
  <2>1. PICK Y : Y = "script_data_double_escaped_less_than_sign_state"
    OBVIOUS
  <2>2. Y \in FreeStates /\ Y # p.state /\ Shown(c) = c
    BY <1>3, <2>1, ShownAsItIs DEF FreeStates, DoubleEscapedStates
  <2>3. PICK a : a = SwitchToState(p, Y)
    OBVIOUS
  <2>4. r = EmitCharacters(a, <<Shown(c)>>)
    BY <1>3, <2>1, <2>2, <2>3 DEF script_data_double_escaped, EmitCharacter
  <2> QED BY <1>1, <2>2, <2>3, <2>4, FreeGives
<1>4. CASE c = ">" /\ p.state = "script_data_double_escaped_dash_dash_state"
  <2>1. PICK Y : Y = "script_data_state"
    OBVIOUS
  <2>2. Y \in FreeStates /\ Y # p.state /\ Shown(c) = c
    BY <1>4, <2>1, ShownAsItIs DEF FreeStates
  <2>3. PICK a : a = SwitchToState(p, Y)
    OBVIOUS
  <2>4. r = EmitCharacters(a, <<Shown(c)>>)
    BY <1>4, <2>1, <2>2, <2>3 DEF script_data_double_escaped, EmitCharacter
  <2> QED BY <1>1, <2>2, <2>3, <2>4, FreeGives
<1>5. CASE c = "EOF"
  <2>1. r = Abandon(p)
    BY <1>5 DEF script_data_double_escaped
  <2> QED BY <1>1, <2>1, AbandonLeaves
<1>6. CASE /\ c \notin {"-", "<", "EOF"}
           /\ ~ (c = ">" /\ p.state = "script_data_double_escaped_dash_dash_state")
  <2>1. PICK Y : Y = "script_data_double_escaped_state"
    OBVIOUS
  <2>2. Y \in FreeStates
    BY <2>1 DEF FreeStates
  <2>3. PICK a : a = StayIn(p, Y)
    OBVIOUS
  <2>4. r = EmitCharacters(a, <<Shown(c)>>)
    BY <1>6, <2>1, <2>3 DEF script_data_double_escaped, EmitCharacter
  <2> QED BY <1>1, <2>2, <2>3, <2>4, FreeGives
<1> QED BY <1>2, <1>3, <1>4, <1>5, <1>6

LEMMA EscapedLessThanPasses ==
    ASSUME NEW p, NEW c, Ready(p, c), p.state = "script_data_escaped_less_than_sign_state",
           NEW r, r = script_data_escaped_less_than_sign_state(p, c), r.state \in Text
    PROVE  Passes(p, c, r)
<1>1. /\ Quiet(p, p) /\ c \in Chars /\ p.state \in LessStates /\ p.state \in HoldingStates
      /\ p.state # "attribute_name_state"
  BY QuietSelf DEF LessStates, HoldingStates
<1>2. CASE c \in Letters
  <2>1. PICK b : b = <<Lower(c)>>
    OBVIOUS
  <2>2. PICK q : q = [p EXCEPT !.buffer = b]
    OBVIOUS
  <2>3. Quiet(p, q) /\ q.state = p.state
    BY <1>1, <2>2, QuietBuffer
  <2>4. PICK Y : Y = "script_data_double_escape_start_state"
    OBVIOUS
  <2>5. Y \in FreeStates /\ Y # p.state /\ Shown(c) = c
    BY <1>2, <2>4, ShownAsItIs DEF FreeStates
  <2>6. PICK a : a = SwitchToState(q, Y)
    OBVIOUS
  <2>7. Quiet(p, a) /\ a.state \notin HoldingStates
    BY <1>1, <2>3, <2>5, <2>6, Free, QuietSwitch
  <2>8. r = EmitCharacters(a, <<"<", c>>)
    BY <1>2, <2>1, <2>2, <2>4, <2>6, Alphabet
       DEF script_data_escaped_less_than_sign_state, LowerLetters
  <2> QED BY <1>1, <2>5, <2>7, <2>8, GivesBoth
<1>3. CASE c = "-"
  <2>1. PICK b : b = <<>>
    OBVIOUS
  <2>2. PICK q : q = [p EXCEPT !.buffer = b]
    OBVIOUS
  <2>3. Quiet(p, q) /\ q.state = p.state
    BY <1>1, <2>2, QuietBuffer
  <2>4. r = SwitchToState(q, "script_data_escaped_end_tag_open_state")
    BY <1>3, <2>1, <2>2, Alphabet DEF script_data_escaped_less_than_sign_state, LowerLetters
  <2>5. r.state = "script_data_escaped_end_tag_open_state"
    BY <1>1, <2>3, <2>4, QuietSwitch
  <2> QED BY <2>5 DEF Text
<1>4. CASE c \notin Letters \cup {"-"}
  <2>1. PICK text : text = "script_data_escaped_state"
    OBVIOUS
  <2>2. /\ text \notin HoldingStates
        /\ text # "character_reference_in_attribute_value_state"
    BY <2>1, Free DEF FreeStates
  <2>3. PICK cs \in Seq(Chars) : cs = <<"<">>
    BY Literals
  <2>4. r = Again(EmitCharacters(SwitchToState(p, text), cs), c)
    BY <1>4, <2>1, <2>3 DEF script_data_escaped_less_than_sign_state, EmitCharacter
  <2>5. Held(p) = cs
    BY <1>1, <2>3, Holding
  <2> QED BY <1>1, <2>2, <2>4, <2>5, TextAgain
<1> QED BY <1>2, <1>3, <1>4

\* The two states that read a word.
LEMMA EscapeWordPasses ==
    ASSUME NEW p, NEW c, Ready(p, c),
           p.state \in {"script_data_double_escape_start_state",
                        "script_data_double_escape_end_state"},
           NEW X, NEW Z, {X, Z} \subseteq {"script_data_escaped_state",
                                           "script_data_double_escaped_state"},
           NEW r, r = EscapeWord(p, c, X, Z)
    PROVE  Passes(p, c, r)
<1>1. Quiet(p, p) /\ c \in Chars /\ p.state \in FreeStates /\ p.state \notin HoldingStates
  BY QuietSelf, Free DEF FreeStates
<1>2. CASE c \in Letters
  <2>1. PICK b : b = Append(p.buffer, Lower(c))
    OBVIOUS
  <2>2. PICK q : q = [p EXCEPT !.buffer = b]
    OBVIOUS
  <2>3. Quiet(p, q) /\ q.state = p.state
    BY <1>1, <2>2, QuietBuffer
  <2>4. Shown(c) = c
    BY <1>2, ShownAsItIs
  <2>5. r = EmitCharacters(q, <<Shown(c)>>)
    BY <1>2, <2>1, <2>2, <2>4, Alphabet DEF EscapeWord, EmitCharacter, LowerLetters, Space
  <2> QED BY <1>1, <2>3, <2>5, GivesIt
<1>3. CASE c \in Space \cup {"/", ">"}
  <2>1. PICK Y : Y = IF p.buffer = script THEN X ELSE Z
    OBVIOUS
  <2>2. Y \in FreeStates /\ Y # p.state /\ Shown(c) = c
    BY <1>3, <2>1, ShownAsItIs DEF FreeStates
  <2>3. PICK a : a = SwitchToState(p, Y)
    OBVIOUS
  <2>4. r = EmitCharacters(a, <<Shown(c)>>)
    BY <1>3, <2>1, <2>2, <2>3, Alphabet DEF EscapeWord, EmitCharacter, LowerLetters, Space
  <2> QED BY <1>1, <2>2, <2>3, <2>4, FreeGives
<1>4. CASE c \notin Letters \cup Space \cup {"/", ">"}
  <2>1. PICK Y : Y = IF p.state = "script_data_double_escape_start_state"
                     THEN "script_data_escaped_state" ELSE "script_data_double_escaped_state"
    OBVIOUS
  <2>2. Y \in FreeStates /\ Y # p.state
    BY <2>1 DEF FreeStates
  <2>3. r = ReadAgain(p, Y, c)
    BY <1>4, <2>1 DEF EscapeWord
  <2> QED BY <1>1, <2>2, <2>3, FreeLeaves
<1> QED BY <1>2, <1>3, <1>4

LEMMA DoubleEscapedLessThanPasses ==
    ASSUME NEW p, NEW c, Ready(p, c), p.state = "script_data_double_escaped_less_than_sign_state",
           NEW r, r = script_data_double_escaped_less_than_sign_state(p, c)
    PROVE  Passes(p, c, r)
<1>1. Quiet(p, p) /\ c \in Chars /\ p.state \in FreeStates
  BY QuietSelf DEF FreeStates
<1>2. CASE c = "/"
  <2>1. PICK b : b = <<>>
    OBVIOUS
  <2>2. PICK q : q = [p EXCEPT !.buffer = b]
    OBVIOUS
  <2>3. Quiet(p, q) /\ q.state = p.state
    BY <1>1, <2>2, QuietBuffer
  <2>4. PICK Y : Y = "script_data_double_escape_end_state"
    OBVIOUS
  <2>5. Y \in FreeStates /\ Y # p.state /\ Shown(c) = c
    BY <1>2, <2>4, ShownAsItIs DEF FreeStates
  <2>6. PICK a : a = SwitchToState(q, Y)
    OBVIOUS
  <2>7. r = EmitCharacters(a, <<Shown(c)>>)
    BY <1>2, <2>1, <2>2, <2>4, <2>5, <2>6
       DEF script_data_double_escaped_less_than_sign_state, EmitCharacter
  <2> QED BY <1>1, <2>3, <2>5, <2>6, <2>7, FreeGives
<1>3. CASE c # "/"
  <2>1. PICK Y : Y = "script_data_double_escaped_state"
    OBVIOUS
  <2>2. Y \in FreeStates /\ Y # p.state
    BY <2>1 DEF FreeStates
  <2>3. r = ReadAgain(p, Y, c)
    BY <1>3, <2>1 DEF script_data_double_escaped_less_than_sign_state
  <2> QED BY <1>1, <2>2, <2>3, FreeLeaves
<1> QED BY <1>2, <1>3

-------------------------------------------------------------------------------
(* Every text state, and every step.                                           *)

LEMMA EndTagsPass ==
    ASSUME NEW p, NEW c, Ready(p, c), NEW r, r.state \in Text,
           \/ p.state \in RCDATATagStates /\ r = RCDATA_end_tag(p, c)
           \/ p.state \in RAWTEXTTagStates /\ r = RAWTEXT_end_tag(p, c)
           \/ p.state \in ScriptTagStates /\ r = script_data_end_tag(p, c)
              /\ ~ (p.state = "script_data_less_than_sign_state" /\ c = "!")
    PROVE  Passes(p, c, r)
<1>1. p.state # "data_state"
  BY DEF RCDATATagStates, RAWTEXTTagStates, ScriptTagStates
<1>2. Fit(p, p.state)
  BY <1>1 DEF Ready
<1>3. CASE p.state \in RCDATATagStates /\ r = RCDATA_end_tag(p, c)
  <2>1. PICK text, less, open, name :
               /\ text = "RCDATA_state" /\ less = "RCDATA_less_than_sign_state"
               /\ open = "RCDATA_end_tag_open_state" /\ name = "RCDATA_end_tag_name_state"
    OBVIOUS
  <2>2. Around(text, less, open, name)
    BY <2>1 DEF Around, LessStates, OpenStates, NameStates
  <2>3. p.state = open => p.buffer = <<>>
    BY <1>2, <2>1, FittedText
  <2>4. p.state = name => p.tag.type = "end"
    BY <1>2, <2>1, FittedText
  <2>5. \/ p.state = less /\ r = LessThanSign(p, c, text, open)
        \/ p.state = open /\ r = EndTagOpen(p, c, text, name)
        \/ p.state = name /\ r = EndTagName(p, c, text)
    BY <1>3, <2>1 DEF RCDATATagStates, RCDATA_end_tag
  <2> QED BY <2>2, <2>3, <2>4, <2>5, EndTagPasses
<1>4. CASE p.state \in RAWTEXTTagStates /\ r = RAWTEXT_end_tag(p, c)
  <2>1. PICK text, less, open, name :
               /\ text = "RAWTEXT_state" /\ less = "RAWTEXT_less_than_sign_state"
               /\ open = "RAWTEXT_end_tag_open_state" /\ name = "RAWTEXT_end_tag_name_state"
    OBVIOUS
  <2>2. Around(text, less, open, name)
    BY <2>1 DEF Around, LessStates, OpenStates, NameStates
  <2>3. p.state = open => p.buffer = <<>>
    BY <1>2, <2>1, FittedText
  <2>4. p.state = name => p.tag.type = "end"
    BY <1>2, <2>1, FittedText
  <2>5. \/ p.state = less /\ r = LessThanSign(p, c, text, open)
        \/ p.state = open /\ r = EndTagOpen(p, c, text, name)
        \/ p.state = name /\ r = EndTagName(p, c, text)
    BY <1>4, <2>1 DEF RAWTEXTTagStates, RAWTEXT_end_tag
  <2> QED BY <2>2, <2>3, <2>4, <2>5, EndTagPasses
<1>5. CASE /\ p.state \in ScriptTagStates /\ r = script_data_end_tag(p, c)
           /\ ~ (p.state = "script_data_less_than_sign_state" /\ c = "!")
  <2>1. PICK text, less, open, name :
               /\ text = "script_data_state" /\ less = "script_data_less_than_sign_state"
               /\ open = "script_data_end_tag_open_state"
               /\ name = "script_data_end_tag_name_state"
    OBVIOUS
  <2>2. Around(text, less, open, name)
    BY <2>1 DEF Around, LessStates, OpenStates, NameStates
  <2>3. p.state = open => p.buffer = <<>>
    BY <1>2, <2>1, FittedText
  <2>4. p.state = name => p.tag.type = "end"
    BY <1>2, <2>1, FittedText DEF ScriptEndTagStates
  <2>5. \/ p.state = less /\ r = LessThanSign(p, c, text, open)
        \/ p.state = open /\ r = EndTagOpen(p, c, text, name)
        \/ p.state = name /\ r = EndTagName(p, c, text)
    BY <1>5, <2>1 DEF ScriptTagStates, script_data_end_tag
  <2> QED BY <2>2, <2>3, <2>4, <2>5, EndTagPasses
<1> QED BY <1>3, <1>4, <1>5

LEMMA TextPasses ==
    ASSUME NEW p, NEW c, Ready(p, c), p.state \in Text, NEW r, r = write_element(p, c),
           r.state \in Text
    PROVE  Passes(p, c, r)
<1> USE DEF RCDATATagStates, RAWTEXTTagStates, ScriptTagStates, EscapedStates, DoubleEscapedStates
<1>1. r = TextDispatch(p, c) /\ p.state \in TextStates
  BY DEF write_element, Text
<1>2. CASE p.state = "RCDATA_state"
  BY <1>1, <1>2, RCDATAPasses DEF TextDispatch
<1>3. CASE p.state = "PLAINTEXT_state"
  <2>1. p.state \notin HoldingStates
    BY <1>3 DEF HoldingStates, LessStates, OpenStates, NameStates
  <2>2. r = PlainText(p, c)
    BY <1>1, <1>3 DEF TextDispatch
  <2> QED BY <2>1, <2>2, PlainTextPasses
<1>4. CASE p.state \in {"RAWTEXT_state", "script_data_state"}
  BY <1>1, <1>4, RawTextPasses DEF TextDispatch
<1>5. CASE p.state \in RCDATATagStates
  <2>1. r = RCDATA_end_tag(p, c)
    BY <1>1, <1>5 DEF TextDispatch
  <2> QED BY <1>5, <2>1, EndTagsPass
<1>6. CASE p.state \in RAWTEXTTagStates
  <2>1. r = RAWTEXT_end_tag(p, c)
    BY <1>1, <1>6 DEF TextDispatch
  <2> QED BY <1>6, <2>1, EndTagsPass
<1>7. CASE p.state \in ScriptTagStates
  <2>1. r = script_data_end_tag(p, c)
    BY <1>1, <1>7 DEF TextDispatch
  <2>2. CASE p.state = "script_data_less_than_sign_state" /\ c = "!"
    BY <2>1, <2>2, ScriptLessThanPasses
  <2>3. CASE ~ (p.state = "script_data_less_than_sign_state" /\ c = "!")
    BY <1>7, <2>1, <2>3, EndTagsPass
  <2> QED BY <2>2, <2>3
<1>8. CASE p.state \in {"script_data_escape_start_state", "script_data_escape_start_dash_state"}
  <2>1. r = script_data_escape_start(p, c)
    BY <1>1, <1>8 DEF TextDispatch
  <2> QED BY <1>8, <2>1, EscapeStartPasses
<1>9. CASE p.state \in EscapedStates
  <2>1. r = script_data_escaped(p, c)
    BY <1>1, <1>9 DEF TextDispatch
  <2> QED BY <1>9, <2>1, EscapedPasses
<1>10. CASE p.state \in DoubleEscapedStates
  <2>1. r = script_data_double_escaped(p, c)
    BY <1>1, <1>10 DEF TextDispatch
  <2>2. p.state # "script_data_double_escaped_dash_state"
    BY DEF Text
  <2> QED BY <1>10, <2>1, <2>2, DoubleEscapedPasses
<1>11. CASE p.state = "script_data_escaped_less_than_sign_state"
  <2>1. r = script_data_escaped_less_than_sign_state(p, c)
    BY <1>1, <1>11 DEF TextDispatch
  <2> QED BY <1>11, <2>1, EscapedLessThanPasses
<1>12. CASE p.state = "script_data_double_escape_start_state"
  <2>1. r = EscapeWord(p, c, "script_data_double_escaped_state", "script_data_escaped_state")
    BY <1>1, <1>12 DEF TextDispatch, script_data_double_escape_start_state
  <2> QED BY <1>12, <2>1, EscapeWordPasses
<1>13. CASE p.state = "script_data_double_escape_end_state"
  <2>1. r = EscapeWord(p, c, "script_data_escaped_state", "script_data_double_escaped_state")
    BY <1>1, <1>13 DEF TextDispatch, script_data_double_escape_end_state
  <2> QED BY <1>13, <2>1, EscapeWordPasses
<1>14. CASE p.state = "script_data_double_escaped_less_than_sign_state"
  <2>1. r = script_data_double_escaped_less_than_sign_state(p, c)
    BY <1>1, <1>14 DEF TextDispatch
  <2> QED BY <1>14, <2>1, DoubleEscapedLessThanPasses
<1>15. p.state \notin {"data_state", "character_reference_in_data_state",
           "character_reference_in_RCDATA_state", "script_data_escaped_end_tag_open_state",
           "script_data_escaped_end_tag_name_state"}
  BY DEF Text
<1> QED BY <1>1, <1>2, <1>3, <1>4, <1>5, <1>6, <1>7, <1>8, <1>9, <1>10, <1>11, <1>12, <1>13,
           <1>14, <1>15 DEF TextStates, ScriptStates

\* A character in front of others.
LEMMA CharactersGrow ==
    ASSUME NEW c \in Chars, NEW q \in Seq(Chars)
    PROVE  /\ Characters(<<c>> \o q) = <<Shown(c)>> \o Characters(q)
           /\ Characters(q) \in Seq(Chars) /\ <<Shown(c)>> \in Seq(Chars)
           /\ Characters(<<c>> \o q) \in Seq(Chars)
<1>1. PICK d \in Seq(Chars) : d = <<c>>
  BY One
<1>2. PICK e \in Seq(Chars) : e = <<Shown(c)>>
  BY Alphabet
<1>3. /\ d \o q \in Seq(Chars) /\ Len(d \o q) = Len(d) + Len(q)
      /\ \A i \in 1 .. Len(d) + Len(q) :
           (d \o q)[i] = IF i <= Len(d) THEN d[i] ELSE q[i - Len(d)]
  BY ConcatProperties
<1>4. \A w \in Seq(Chars) : /\ Characters(w) \in Seq(Chars) /\ Len(Characters(w)) = Len(w)
                            /\ \A i \in 1 .. Len(w) : Characters(w)[i] = Shown(w[i])
  <2>1. ASSUME NEW w \in Seq(Chars)
        PROVE  /\ Characters(w) \in Seq(Chars) /\ Len(Characters(w)) = Len(w)
               /\ \A i \in 1 .. Len(w) : Characters(w)[i] = Shown(w[i])
    <3>1. PICK n \in Nat : n = Len(w) /\ DOMAIN w = 1 .. n
      OBVIOUS
    <3>2. \A i \in 1 .. n : Shown(w[i]) \in Chars
      BY <3>1, Alphabet
    <3>3. Characters(w) = [i \in 1 .. n |-> Shown(w[i])]
      BY <3>1 DEF Characters
    <3>4. Characters(w) \in [1 .. n -> Chars]
      BY <3>2, <3>3
    <3>5. Characters(w) \in Seq(Chars) /\ Len(Characters(w)) = n
      BY <3>4
    <3> QED BY <3>1, <3>3, <3>5
  <2> QED BY <2>1
<1>5. PICK f \in Seq(Chars) : f = Characters(q)
  BY <1>4
<1>6. PICK g \in Seq(Chars) : g = Characters(d \o q)
  BY <1>3, <1>4
<1>7. /\ e \o f \in Seq(Chars) /\ Len(e \o f) = Len(e) + Len(f)
      /\ \A i \in 1 .. Len(e) + Len(f) :
           (e \o f)[i] = IF i <= Len(e) THEN e[i] ELSE f[i - Len(e)]
  BY ConcatProperties
<1>8. Len(d) = 1 /\ d[1] = c /\ Len(e) = 1 /\ e[1] = Shown(c)
  BY <1>1, <1>2
<1>9. Len(g) = 1 + Len(q) /\ \A i \in 1 .. 1 + Len(q) : g[i] = Shown((d \o q)[i])
  <2>1. PICK w \in Seq(Chars) : w = d \o q
    BY <1>3
  <2>2. Len(w) = 1 + Len(q)
    BY <1>3, <1>8, <2>1
  <2>3. Len(g) = Len(w) /\ \A i \in 1 .. Len(w) : g[i] = Shown(w[i])
    BY <1>4, <1>6, <2>1
  <2> QED BY <2>1, <2>2, <2>3
<1>10. Len(f) = Len(q) /\ \A i \in 1 .. Len(q) : f[i] = Shown(q[i])
  BY <1>4, <1>5
<1>11. \A i \in 1 .. 1 + Len(q) : g[i] = (e \o f)[i]
  <2>1. ASSUME NEW i \in 1 .. 1 + Len(q) PROVE g[i] = (e \o f)[i]
    <3>1. CASE i = 1
      BY <1>3, <1>7, <1>8, <1>9, <1>10, <3>1
    <3>2. CASE i # 1
      <4>1. i - 1 \in 1 .. Len(q) /\ ~ (i <= 1)
        BY <3>2
      <4>2. (d \o q)[i] = q[i - 1] /\ (e \o f)[i] = f[i - 1]
        BY <1>3, <1>7, <1>8, <1>10, <4>1
      <4> QED BY <1>9, <1>10, <4>1, <4>2
    <3> QED BY <3>1, <3>2
  <2> QED BY <2>1
<1>12. g = e \o f
  BY <1>7, <1>8, <1>9, <1>10, <1>11, SeqEqual
<1> QED BY <1>1, <1>2, <1>5, <1>6, <1>12

\* What a text state has, before and after a character is read.
LEMMA HeldIsText ==
    ASSUME NEW s, s.buffer \in Seq(Chars)
    PROVE  Held(s) \in Seq(Chars)
<1>1. <<"<", "/">> \o s.buffer \in Seq(Chars)
  BY Literals
<1> QED BY <1>1, Literals, Holding DEF HoldingStates

LEMMA ReadsKeepsText ==
    ASSUME NEW c, NEW q, Reads(c, q), tokenizer.state \in Text, tokenizer'.state \in Text
    PROVE  Held(tokenizer) \o Characters(<<c>> \o q)
             = Given(tokenizer'.out) \o Held(tokenizer') \o Characters(tokenizer'.again)
<1>1. PICK p, r : /\ Ready(p, c) /\ Kept(p, c, r) /\ p.again = q
                  /\ p.state = tokenizer.state /\ p.buffer = tokenizer.buffer
                  /\ r = write_element(p, c)
                  /\ Same(tokenizer', r) /\ tokenizer'.again = r.again
  BY DEF Reads
<1>2. tokenizer'.state = r.state /\ tokenizer'.buffer = r.buffer /\ tokenizer'.out = r.out
  BY <1>1 DEF Same, Fields
<1>3. Held(tokenizer) = Held(p) /\ Held(tokenizer') = Held(r)
  BY <1>1, <1>2 DEF Held
<1>4. Passes(p, c, r)
  BY <1>1, <1>2, TextPasses
<1>5. c \in Chars /\ q \in Seq(Chars) /\ p.buffer \in Seq(Chars)
  BY <1>1, QuietSelf
<1>6. PICK h \in Seq(Chars) : h = Held(p)
  BY <1>5, HeldIsText
<1>7. PICK e \in Seq(Chars), f \in Seq(Chars), g \in Seq(Chars) :
            /\ e = <<Shown(c)>> /\ f = Characters(q)
            /\ g = Characters(<<c>> \o q) /\ g = e \o f
  <2>1. /\ <<Shown(c)>> \in Seq(Chars) /\ Characters(q) \in Seq(Chars)
        /\ Characters(<<c>> \o q) \in Seq(Chars)
        /\ Characters(<<c>> \o q) = <<Shown(c)>> \o Characters(q)
    BY <1>5, CharactersGrow
  <2> QED BY <2>1, Zenon
<1>8. CASE r.again = p.again /\ Held(p) \o <<Shown(c)>> = Given(r.out) \o Held(r)
  <2>1. (h \o e) \o f = h \o (e \o f)
    BY ConcatAssociative
  <2>2. Given(r.out) \o Held(r) = h \o e
    BY <1>6, <1>7, <1>8
  <2>3. Characters(tokenizer'.again) = f
    BY <1>1, <1>7, <1>8
  <2> QED BY <1>2, <1>3, <1>6, <1>7, <2>1, <2>2, <2>3
<1>9. CASE r.again = <<c>> \o p.again /\ Held(p) = Given(r.out) /\ Held(r) = <<>>
  <2>1. h \o <<>> = h
    BY ConcatEmptySeq
  <2>2. Given(r.out) \o Held(r) = h
    BY <1>6, <1>9, <2>1
  <2>3. Characters(tokenizer'.again) = g
    BY <1>1, <1>7, <1>9
  <2> QED BY <1>2, <1>3, <1>6, <1>7, <2>2, <2>3
<1> QED BY <1>4, <1>8, <1>9 DEF Passes

-------------------------------------------------------------------------------
(* The text of a document.                                                     *)

\* What the parser has read in a step, and what it keeps of the text.
Read == CASE closed' # closed -> <<"EOF">>
          [] input' # input /\ ~Dropped -> <<Preprocessed>>
          [] OTHER -> <<>>

KeepsText ==
    pieces' = pieces /\ tokenizer.state \in Text /\ tokenizer'.state \in Text
    => Held(tokenizer) \o Characters(tokenizer.again \o Read)
       = Given(tokenizer'.out) \o Held(tokenizer') \o Characters(tokenizer'.again)

LEMMA WriteKeepsText ==
    ASSUME IInv, Write
    PROVE  KeepsText
<1> SUFFICES ASSUME tokenizer.state \in Text, tokenizer'.state \in Text
             PROVE  Held(tokenizer) \o Characters(tokenizer.again \o Read)
                    = Given(tokenizer'.out) \o Held(tokenizer') \o Characters(tokenizer'.again)
  BY DEF KeepsText
<1>1. closed' = closed /\ tokenizer.again = <<>> /\ DOMAIN tokenizer = Fields
  BY WriteReads DEF Write, Returned, IInv, TokenizerInv
<1>2. input' # input
  <2>1. input \in Seq(STRING) /\ input # <<>> /\ input' = Tail(input)
    BY DEF IInv, Feeding, IsText, Write
  <2>2. Len(input') = Len(input) - 1 /\ Len(input) \in Nat
    BY <2>1
  <2> QED BY <2>2
<1>3. CASE Dropped /\ tokenizer' = [tokenizer EXCEPT !.out = <<>>]
  <2>1. Read = <<>>
    BY <1>1, <1>3 DEF Read
  <2>2. /\ tokenizer'.out = <<>> /\ tokenizer'.state = tokenizer.state
        /\ tokenizer'.buffer = tokenizer.buffer /\ tokenizer'.again = <<>>
    BY <1>1, <1>3 DEF Fields
  <2>3. Held(tokenizer') = Held(tokenizer)
    BY <2>2 DEF Held
  <2>4. PICK h \in Seq(Chars) : h = Held(tokenizer)
    <3>1. tokenizer.buffer \in Seq(Chars)
      BY WriteReads DEF IInv, TokenizerInv, Sound, Typed, Write, Returned
    <3> QED BY <3>1, HeldIsText
  <2>5. <<>> \o h = h
    BY ConcatEmptySeq
  <2>6. <<>> \o <<>> = <<>>
    BY Literals, ConcatEmptySeq
  <2> QED BY <1>1, <2>1, <2>2, <2>3, <2>4, <2>5, <2>6, NothingGiven
<1>4. CASE ~ Dropped /\ \E c \in Chars \ {"EOF"} : c = Preprocessed /\ Reads(c, <<>>)
  <2>1. PICK c \in Chars \ {"EOF"} : c = Preprocessed /\ Reads(c, <<>>)
    BY <1>4
  <2>2. Read = <<c>>
    BY <1>1, <1>2, <1>4, <2>1 DEF Read
  <2>3. tokenizer.again \o Read = <<c>> \o <<>>
    <3>1. PICK d \in Seq(Chars) : d = <<c>>
      BY One
    <3>2. <<>> \o d = d \o <<>>
      BY ConcatEmptySeq
    <3> QED BY <1>1, <2>2, <3>1, <3>2
  <2> QED BY <2>1, <2>3, ReadsKeepsText
<1> QED BY <1>3, <1>4, WriteReads

LEMMA EofKeepsText ==
    ASSUME IInv, write_eof
    PROVE  KeepsText
<1>1. Reads("EOF", <<>>) /\ closed' # closed /\ input' = input /\ tokenizer.again = <<>>
  BY EofReads DEF write_eof, Returned
<1>2. Read = <<"EOF">>
  BY <1>1 DEF Read
<1>3. tokenizer.again \o Read = <<"EOF">> \o <<>>
  BY <1>1, <1>2
<1> QED BY <1>1, <1>3, ReadsKeepsText DEF KeepsText

LEMMA RereadKeepsText ==
    ASSUME IInv, Reread
    PROVE  KeepsText
<1>1. PICK c \in Chars, q \in Seq(Chars) :
            c = Head(tokenizer.again) /\ q = Tail(tokenizer.again) /\ Reads(c, q)
  BY RereadReads
<1>2. Read = <<>>
  BY DEF Reread, Read
<1>3. tokenizer.again \in Seq(Chars) /\ tokenizer.again # <<>>
  BY DEF IInv, TokenizerInv, Reread, Sound, Over, Ending, Stuck, Typed
<1>4. PICK a \in Seq(Chars) : a = tokenizer.again /\ a # <<>>
  BY <1>3
<1>5. a \o <<>> = <<c>> \o q
  <2>1. a \o <<>> = a
    BY ConcatEmptySeq
  <2>2. a = <<Head(a)>> \o Tail(a)
    BY <1>4
  <2> QED BY <1>1, <1>4, <2>1, <2>2
<1> QED BY <1>1, <1>2, <1>4, <1>5, ReadsKeepsText DEF KeepsText

\* In the text of every document, and whatever is taken for the beginning of an end tag,
\* what was read is given to the tree constructor, kept back or to be read again: no
\* character is lost, doubled or out of order, and the end of the input comes last.
THEOREM TextConserved == Spec => TextKept
<1>1. Init => pieces \in Nat
  BY DEF Init
<1>2. pieces \in Nat /\ [Next]_vars => (pieces \in Nat)'
  BY DEF Next, vars, Come, Write, write_eof, Reread
<1>3. Spec => [](pieces \in Nat)
  BY <1>1, <1>2, PTL DEF Spec
<1>4. IInv /\ pieces \in Nat /\ [Next]_vars => [KeepsText]_vars
  <2> SUFFICES ASSUME IInv, pieces \in Nat, Next
               PROVE  KeepsText
    OBVIOUS
  <2>1. CASE Come
    BY <2>1 DEF Come, KeepsText
  <2> QED BY <2>1, WriteKeepsText, EofKeepsText, RereadKeepsText DEF Next
<1> QED BY <1>3, <1>4, Invariance, PTL DEF Spec, TextKept, KeepsText, Read

===============================================================================
