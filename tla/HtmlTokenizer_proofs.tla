------------------------- MODULE HtmlTokenizer_proofs -------------------------
(* What is proved about HtmlTokenizer for every document, every set of named     *)
(* character references and every choice of text elements.                       *)
EXTENDS HtmlTokenizer, SequenceTheorems, FiniteSetTheorems, WellFoundedInduction, TLAPS

-------------------------------------------------------------------------------
(* What each state takes for granted.                                          *)

\* Every string.  The provers do not know of the literals that they are strings.
Chars == STRING \cup {"EOF", "<", "/", "!", "-", "]", "&", "lf", "ref", "FFFD",
                      "a", "c", "d", "t", "x"}

Fields == {"state", "content", "last", "tag", "attribute_name", "attribute",
    "attribute_value_state", "buffer", "comment", "doctype", "declaration", "keyword", "ref",
    "again", "replaying", "behind", "out", "ended", "answer", "failure"}

\* The tokens a text state gives.
TextTokens == {T!Token("character", <<c>>, "data") : c \in Chars}

NoEof(q) == \A i \in 1 .. Len(q) : q[i] # "EOF"

Typed(s) ==
    /\ DOMAIN s = Fields
    /\ DOMAIN s.tag = {"type", "name", "attributes"}
    /\ DOMAIN s.doctype = {"given", "public", "system"}
    /\ DOMAIN s.ref = {"state", "hex", "digits", "value", "leftovers"}
    /\ s.again \in Seq(Chars) /\ s.declaration \in Seq(Chars) /\ s.keyword \in Seq(Chars)
    /\ s.buffer \in Seq(Chars) /\ s.attribute_name \in Seq(Chars)
    /\ s.ref.leftovers \in Seq(Chars) /\ s.ref.value \in Seq(Chars)

\* A tag is being built: of an element, or the end tag of the text that is read.
InTag(s) ==
    /\ s.tag.type \in {"start", "end"}
    /\ s.content = "data" \/ (s.content # "PLAINTEXT" /\ IsAppropriate(s))

InReferenceFrame(s) ==
    /\ s.ref.state \in {"start_state", "number_started_state", "receiving_number_state",
                        "matching_name_state"}
    /\ NoEof(s.ref.leftovers)

PlainStates == {"data_state", "tag_open_state", "end_tag_open_state", "cdata_section_state",
    "cdata_section_2_state", "cdata_section_3_state", "doctype_state",
    "before_doctype_name_state"}
BetweenStates == {"before_attribute_name_state", "after_attribute_value_quoted_state",
    "self_closing_start_tag_state"}
ValueStates == {"attribute_value_double_quoted_state", "attribute_value_single_quoted_state",
    "attribute_value_unquoted_state"}
AttributeStates == ValueStates \cup {"after_attribute_name_state", "before_attribute_value_state"}
DeclarationStates == {"markup_declaration_open_state", "markup_declaration_open_2_state"}
DoctypeStates == {"doctype_name_state", "after_doctype_name_state",
    "after_doctype_public_keyword_state", "before_doctype_public_identifier_state",
    "after_doctype_public_identifier_state", "between_doctype_public_and_system_identifiers_state",
    "after_doctype_system_keyword_state", "before_doctype_system_identifier_state",
    "after_doctype_system_identifier_state", "bogus_doctype_state"}
PublicStates == {"doctype_public_identifier_double_quoted_state",
    "doctype_public_identifier_single_quoted_state"}
SystemStates == {"doctype_system_identifier_double_quoted_state",
    "doctype_system_identifier_single_quoted_state"}
PlainRCDATAStates == {"RCDATA_state", "RCDATA_less_than_sign_state"}
PlainRAWTEXTStates == {"RAWTEXT_state", "RAWTEXT_less_than_sign_state"}
PlainScriptStates == {"script_data_state", "script_data_less_than_sign_state",
    "script_data_escape_start_state",
    "script_data_escape_start_dash_state", "script_data_escaped_state",
    "script_data_escaped_dash_state", "script_data_escaped_dash_dash_state",
    "script_data_escaped_less_than_sign_state", "script_data_escaped_end_tag_open_state",
    "script_data_double_escape_start_state", "script_data_double_escaped_state",
    "script_data_double_escaped_dash_state", "script_data_double_escaped_dash_dash_state",
    "script_data_double_escaped_less_than_sign_state", "script_data_double_escape_end_state"}
ScriptEndTagStates ==
    {"script_data_end_tag_name_state", "script_data_escaped_end_tag_name_state"}

\* What is built when the tokenizer is in a state, and what it is the content of.
Fit(s, state) ==
    \/ state \in PlainStates /\ s.content = "data"
    \/ state = "tag_name_state" /\ s.content = "data" /\ s.tag.type \in {"start", "end"}
    \/ state \in BetweenStates /\ InTag(s)
    \/ state = "attribute_name_state" /\ InTag(s) /\ s.attribute_name # <<>>
    \/ state \in AttributeStates /\ InTag(s) /\ s.attribute \in s.tag.attributes
    \/ /\ state = "character_reference_in_attribute_value_state"
       /\ InTag(s) /\ s.attribute \in s.tag.attributes
       /\ s.attribute_value_state \in ValueStates /\ InReferenceFrame(s)
    \/ state \in CommentStates \cup {"bogus_comment_state"} /\ s.content = "data" /\ s.comment
    \/ state \in DeclarationStates /\ s.content = "data" /\ NoEof(s.declaration)
    \/ state \in DoctypeStates /\ s.content = "data" /\ s.doctype.given
    \/ /\ state = "after_doctype_name_2_state"
       /\ s.content = "data" /\ s.doctype.given /\ NoEof(s.keyword)
    \/ state \in PublicStates /\ s.content = "data" /\ s.doctype.given /\ s.doctype.public
    \/ state \in SystemStates /\ s.content = "data" /\ s.doctype.given /\ s.doctype.system
    \/ state = "character_reference_in_data_state" /\ s.content = "data" /\ InReferenceFrame(s)
    \/ state \in PlainRCDATAStates /\ s.content = "RCDATA"
    \/ state = "RCDATA_end_tag_open_state" /\ s.content = "RCDATA" /\ s.buffer = <<>>
    \/ state = "RCDATA_end_tag_name_state" /\ s.content = "RCDATA" /\ s.tag.type = "end"
    \/ state = "character_reference_in_RCDATA_state" /\ s.content = "RCDATA" /\ InReferenceFrame(s)
    \/ state \in PlainRAWTEXTStates /\ s.content = "RAWTEXT"
    \/ state = "RAWTEXT_end_tag_open_state" /\ s.content = "RAWTEXT" /\ s.buffer = <<>>
    \/ state = "RAWTEXT_end_tag_name_state" /\ s.content = "RAWTEXT" /\ s.tag.type = "end"
    \/ state \in PlainScriptStates /\ s.content = "script_data"
    \/ state = "script_data_end_tag_open_state" /\ s.content = "script_data" /\ s.buffer = <<>>
    \/ state \in ScriptEndTagStates /\ s.content = "script_data" /\ s.tag.type = "end"
    \/ state = "PLAINTEXT_state" /\ s.content = "PLAINTEXT"

\* The tokenizer before it reads c.  At the end of the input it may be in the data state
\* whatever the content, and nothing else is to be read again.
Going(s) == Typed(s) /\ s.failure = "none" /\ ~ s.ended /\ s.out = <<>>

Ready(s, c) ==
    /\ Going(s)
    /\ Fit(s, s.state) \/ (s.state = "data_state" /\ c = "EOF")
    /\ c \in Chars
    /\ c = "EOF" => s.again = <<>>

\* What the tree constructor is told: characters, or one token that it may be given.
Stream(s) == [content |-> s.content, last |-> s.last, ended |-> s.ended]

ToldText(s, r) == r.out \in Seq(TextTokens) /\ Stream(r) = Stream(s)

Told(s, r) ==
    \/ ToldText(s, r)
    \/ \E t : /\ r.out = <<t>> /\ T!Legal(Stream(s), t)
              /\ Stream(r) = T!Given(Stream(s), t)

\* The end of the input is still to be read, and is the last.
Coming(q) == \E front \in Seq(Chars) : NoEof(front) /\ q = front \o <<"EOF">>

Moved(s, r) ==
    /\ Typed(r) /\ Fit(r, r.state) /\ r.failure = "none" /\ ~ r.ended
    /\ Told(s, r) /\ r.again = s.again

\* The three ways to end: the last token is given; the end of the input is in the data
\* state; or it was taken for one of the characters that a state gathers.
Over(r) == r.failure = "none" /\ r.ended /\ r.again = <<>>

Ending(r) ==
    /\ Typed(r) /\ r.failure = "none" /\ ~ r.ended
    /\ r.state = "data_state" /\ r.again = <<"EOF">>

Stuck(r) ==
    /\ r.failure = "none" /\ ~ r.ended /\ r.again = <<>> /\ r.content = "data"
    /\ r.state \in DeclarationStates \cup {"after_doctype_name_2_state"}

Sound(r) == Typed(r) /\ Fit(r, r.state) /\ r.failure = "none" /\ ~ r.ended

Kept(s, c, r) ==
    /\ DOMAIN r = Fields
    /\ Told(s, r)
    /\ \/ r.failure = "replay"
       \/ /\ c # "EOF" /\ Sound(r)
          /\ \E put \in Seq(Chars) : NoEof(put) /\ r.again = put \o s.again
       \/ c = "EOF" /\ (Over(r) \/ Ending(r) \/ Stuck(r))
       \/ c = "EOF" /\ Sound(r) /\ Coming(r.again)

-------------------------------------------------------------------------------
(* What the handlers are made of.                                              *)

\* A state is a state with what it changes taken from another.
Alike(s, q) ==
    /\ Typed(q) /\ q.failure = "none" /\ q.again = s.again
    /\ q.out \in Seq(TextTokens) /\ Stream(q) = Stream(s)

\* One state is another in all that matters but what is read again.
Same(r, q) ==
    /\ DOMAIN r = Fields
    /\ \A x \in Fields \ {"again", "answer", "replaying", "behind"} : r[x] = q[x]

\* A state is alike itself.
LEMMA AlikeSelf ==
    ASSUME NEW s, Going(s)
    PROVE  Alike(s, s)
BY DEF Going, Alike

\* The same fields fit the same states.
LEMMA SameFits ==
    ASSUME NEW q, Typed(q), NEW r, Same(r, q), r.again \in Seq(Chars)
    PROVE  /\ Typed(r) /\ Stream(r) = Stream(q) /\ r.out = q.out /\ r.failure = q.failure
           /\ r.ended = q.ended /\ r.state = q.state
           /\ \A Y : Fit(q, Y) => Fit(r, Y)
<1>1. /\ r.state = q.state /\ r.content = q.content /\ r.last = q.last /\ r.tag = q.tag
      /\ r.attribute_name = q.attribute_name /\ r.attribute = q.attribute
      /\ r.attribute_value_state = q.attribute_value_state /\ r.buffer = q.buffer
      /\ r.comment = q.comment /\ r.doctype = q.doctype /\ r.declaration = q.declaration
      /\ r.keyword = q.keyword /\ r.ref = q.ref /\ r.out = q.out /\ r.ended = q.ended
      /\ r.failure = q.failure
  BY DEF Same, Fields
<1>2. Typed(r)
  BY <1>1 DEF Same, Typed
<1>3. \A Y : Fit(q, Y) => Fit(r, Y)
  BY <1>1 DEF Fit, InTag, IsAppropriate, InReferenceFrame
<1> QED BY <1>1, <1>2, <1>3 DEF Stream

\* What is not read again leaves the rest to be read.
LEMMA MovedKept ==
    ASSUME NEW s, NEW c, Ready(s, c), c # "EOF", NEW r, Moved(s, r)
    PROVE  Kept(s, c, r)
<1>1. <<>> \in Seq(Chars) /\ NoEof(<<>>) /\ r.again = <<>> \o s.again
  BY DEF Ready, Going, Typed, Moved, NoEof
<1> QED BY <1>1 DEF Moved, Kept, Sound, Typed

\* What is read again comes before the rest, and the end of the input after it.
LEMMA ReadAllKept ==
    ASSUME NEW s, NEW c, Ready(s, c), NEW r, Moved(s, r), NEW cs \in Seq(Chars),
           c # "EOF" => NoEof(cs), c = "EOF" => Coming(cs)
    PROVE  Kept(s, c, ReadAll(r, cs))
<1> DEFINE a == ReadAll(r, cs)
<1> SUFFICES Kept(s, c, a) OBVIOUS
<1>1. DOMAIN a = Fields /\ a.again = cs \o s.again /\ Same(a, r)
  BY DEF Moved, Typed, ReadAll, Fields, Same
<1>2. s.again \in Seq(Chars) /\ a.again \in Seq(Chars)
  BY <1>1 DEF Ready, Going, Typed
<1> HIDE DEF a
<1>3. /\ Typed(a) /\ Fit(a, a.state) /\ Told(s, a) /\ Sound(a)
  BY <1>1, <1>2, SameFits DEF Moved, Told, ToldText, Sound
<1>4. CASE c # "EOF"
  BY <1>1, <1>3, <1>4 DEF Kept
<1>5. CASE c = "EOF"
  <2>1. a.again = cs
    BY <1>1, <1>5, ConcatEmptySeq DEF Ready
  <2> QED BY <1>1, <1>3, <1>5, <2>1 DEF Kept
<1> QED BY <1>4, <1>5

\* One character.
LEMMA One ==
    ASSUME NEW c \in Chars
    PROVE  <<c>> \in Seq(Chars) /\ (c # "EOF" => NoEof(<<c>>)) /\ (c = "EOF" => Coming(<<c>>))
<1>1. <<c>> \in Seq(Chars) /\ (c # "EOF" => NoEof(<<c>>))
  BY DEF NoEof
<1>2. ASSUME c = "EOF" PROVE Coming(<<c>>)
  <2>1. <<>> \in Seq(Chars) /\ NoEof(<<>>) /\ <<c>> = <<>> \o <<"EOF">>
    BY <1>2 DEF NoEof
  <2> QED BY <2>1 DEF Coming
<1> QED BY <1>1, <1>2

LEMMA AgainKept ==
    ASSUME NEW s, NEW c, Ready(s, c), NEW r, Moved(s, r)
    PROVE  Kept(s, c, Again(r, c))
<1>1. c \in Chars
  BY DEF Ready
<1> QED BY <1>1, One, ReadAllKept DEF Again

LEMMA Staying ==
    ASSUME NEW s, NEW q, Going(s), Alike(s, q), Fit(q, q.state)
    PROVE  Moved(s, q)
BY DEF Going, Alike, Moved, Told, ToldText, Stream

\* A state is entered from another.
LEMMA Switching ==
    ASSUME NEW s, NEW q, Going(s), Alike(s, q), NEW Y, Fit(q, Y), Y # q.state,
           Y # "character_reference_in_attribute_value_state", q.state # "attribute_name_state"
    PROVE  /\ Moved(s, SwitchToState(q, Y)) /\ Alike(s, SwitchToState(q, Y))
           /\ SwitchToState(q, Y) = [q EXCEPT !.state = Y]
           /\ SwitchToState(q, Y).state = Y /\ Fit(SwitchToState(q, Y), Y)
<1> DEFINE r == [q EXCEPT !.state = Y]
<1>1. SwitchToState(q, Y) = r
  BY DEF SwitchToState
<1>2. /\ DOMAIN r = Fields /\ r.state = Y /\ r.content = q.content /\ r.last = q.last /\ r.tag = q.tag
      /\ r.attribute_name = q.attribute_name /\ r.attribute = q.attribute
      /\ r.attribute_value_state = q.attribute_value_state /\ r.buffer = q.buffer
      /\ r.comment = q.comment /\ r.doctype = q.doctype /\ r.declaration = q.declaration
      /\ r.keyword = q.keyword /\ r.ref = q.ref /\ r.out = q.out /\ r.ended = q.ended
      /\ r.failure = q.failure /\ r.again = q.again
  BY DEF Alike, Typed, Fields
<1> HIDE DEF r
<1>3. Typed(r)
  BY <1>2 DEF Alike, Typed
<1>4. Fit(r, Y)
  BY <1>2 DEF Fit, InTag, IsAppropriate, InReferenceFrame
<1>5. Alike(s, r)
  BY <1>2, <1>3 DEF Alike, Stream
<1> QED BY <1>1, <1>2, <1>4, <1>5, Staying DEF r

\* Characters are given.
LEMMA Giving ==
    ASSUME NEW s, NEW q, Going(s), Alike(s, q), NEW cs \in Seq(Chars)
    PROVE  /\ Alike(s, EmitCharacters(q, cs)) /\ EmitCharacters(q, cs).state = q.state
           /\ \A Y : Fit(q, Y) => Fit(EmitCharacters(q, cs), Y)
           /\ Fit(q, q.state) => Moved(s, EmitCharacters(q, cs))
<1> DEFINE r == EmitCharacters(q, cs)
           given == [i \in DOMAIN cs |-> T!Token("character", <<cs[i]>>, "data")]
<1>1. given \in Seq(TextTokens)
  BY DEF TextTokens
<1>2. q.out \o given \in Seq(TextTokens)
  BY <1>1 DEF Alike
<1>3. /\ DOMAIN r = Fields /\ r.state = q.state /\ r.content = q.content /\ r.last = q.last /\ r.tag = q.tag
      /\ r.attribute_name = q.attribute_name /\ r.attribute = q.attribute
      /\ r.attribute_value_state = q.attribute_value_state /\ r.buffer = q.buffer
      /\ r.comment = q.comment /\ r.doctype = q.doctype /\ r.declaration = q.declaration
      /\ r.keyword = q.keyword /\ r.ref = q.ref /\ r.out = q.out \o given /\ r.ended = q.ended
      /\ r.failure = q.failure /\ r.again = q.again
  BY DEF Alike, Typed, Fields, EmitCharacters
<1> HIDE DEF r
<1>4. Typed(r)
  BY <1>3 DEF Alike, Typed
<1>5. \A Y : Fit(q, Y) => Fit(r, Y)
  BY <1>3 DEF Fit, InTag, IsAppropriate, InReferenceFrame
<1>6. Alike(s, r)
  BY <1>2, <1>3, <1>4 DEF Alike, Stream
<1> QED BY <1>3, <1>5, <1>6, Staying DEF r

\* Characters of the alphabet.
LEMMA Alphabet ==
    /\ Letters = LowerLetters \cup {"A", "C", "D", "T", "X"}
    /\ \A c \in Chars : Lower(c) \in Chars /\ Shown(c) \in Chars /\ <<Shown(c)>> \in Seq(Chars)
    /\ Lower("EOF") = "EOF" /\ Shown("EOF") = "EOF" /\ Lower("[") = "["
<1>1. DOMAIN LowerCase = {"A", "C", "D", "T", "X"}
  BY DEF LowerCase
<1>2. /\ LowerCase["A"] \in Chars /\ LowerCase["C"] \in Chars /\ LowerCase["D"] \in Chars
      /\ LowerCase["T"] \in Chars /\ LowerCase["X"] \in Chars
  BY DEF LowerCase, Chars
<1>3. ASSUME NEW c \in Chars PROVE Lower(c) \in Chars
  BY <1>1, <1>2 DEF Lower
<1>4. ASSUME NEW c \in Chars PROVE Shown(c) \in Chars /\ <<Shown(c)>> \in Seq(Chars)
  BY DEF Shown, Chars
<1>5. Lower("EOF") = "EOF" /\ Shown("EOF") = "EOF" /\ Lower("[") = "["
  BY <1>1 DEF Lower, Shown
<1>6. Letters = LowerLetters \cup {"A", "C", "D", "T", "X"}
  BY <1>1 DEF Letters
<1> QED BY <1>3, <1>4, <1>5, <1>6

-------------------------------------------------------------------------------
(* Leaving a tag, a comment, a DOCTYPE or the input.                           *)

\* One token is given.
LEMMA GiveFields ==
    ASSUME NEW q, Typed(q), q.out = <<>>, q.failure = "none", ~ q.ended, NEW type, NEW name, NEW content,
           NEW t, t = T!Token(type, name, content), NEW g, g = Give(q, t)
    PROVE  /\ DOMAIN g = Fields /\ g.out = <<t>>
           /\ g.content = CASE type = "start" -> content
                            [] type = "end"   -> "data"
                            [] OTHER          -> q.content
           /\ g.last = (IF type = "start" THEN name ELSE q.last)
           /\ g.ended <=> type = "eof"
           /\ Stream(g) = T!Given(Stream(q), t)
           /\ g.state = q.state /\ g.tag = q.tag /\ g.answer = q.answer
           /\ g.attribute_name = q.attribute_name /\ g.attribute = q.attribute
           /\ g.attribute_value_state = q.attribute_value_state /\ g.buffer = q.buffer
           /\ g.comment = q.comment /\ g.doctype = q.doctype
           /\ g.declaration = q.declaration /\ g.keyword = q.keyword /\ g.ref = q.ref
           /\ g.failure = q.failure /\ g.again = q.again
           /\ Typed(g)
<1> DEFINE given == T!Given(Stream(q), t)
<1>1. g = [q EXCEPT !.out = Append(@, t), !.content = given.content, !.last = given.last,
                    !.ended = given.ended]
  BY DEF Give, Stream
<1>2. /\ DOMAIN g = Fields /\ g.out = <<t>>
      /\ g.content = given.content /\ g.last = given.last /\ g.ended = given.ended
      /\ g.state = q.state /\ g.tag = q.tag /\ g.answer = q.answer
      /\ g.attribute_name = q.attribute_name /\ g.attribute = q.attribute
      /\ g.attribute_value_state = q.attribute_value_state /\ g.buffer = q.buffer
      /\ g.comment = q.comment /\ g.doctype = q.doctype
      /\ g.declaration = q.declaration /\ g.keyword = q.keyword /\ g.ref = q.ref
      /\ g.failure = q.failure /\ g.again = q.again
  BY <1>1 DEF Typed, Fields
<1>3. /\ given.content = CASE type = "start" -> content
                           [] type = "end"   -> "data"
                           [] OTHER          -> q.content
      /\ given.last = (IF type = "start" THEN name ELSE q.last)
      /\ given.ended <=> type = "eof"
      /\ given = [content |-> given.content, last |-> given.last, ended |-> given.ended]
  BY DEF T!Given, T!Token, Stream
<1> HIDE DEF given
<1>4. Stream(g) = given
  BY <1>2, <1>3 DEF Stream
<1>5. Typed(g)
  BY <1>2 DEF Typed
<1> QED BY <1>2, <1>3, <1>4, <1>5 DEF given

\* The end of the input.
LEMMA Ended ==
    ASSUME NEW s, NEW c, Ready(s, c), c = "EOF"
    PROVE  Kept(s, c, Emit(s, "eof", <<>>))
<1>1. PICK t : t = T!Token("eof", <<>>, "data")
  OBVIOUS
<1>2. PICK g : g = Give(s, t)
  OBVIOUS
<1>3. Emit(s, "eof", <<>>) = g
  BY <1>1, <1>2 DEF Emit, Switched
<1>4. Typed(s) /\ s.out = <<>> /\ s.failure = "none" /\ ~ s.ended /\ s.again = <<>>
  BY DEF Ready, Going
<1>5. /\ DOMAIN g = Fields /\ g.out = <<t>> /\ g.ended /\ Stream(g) = T!Given(Stream(s), t)
      /\ g.failure = "none" /\ g.again = <<>>
  BY <1>1, <1>2, <1>4, GiveFields
<1>6. T!Legal(Stream(s), t)
  BY <1>1 DEF T!Legal, T!Token, Stream, Ready, Going
<1> QED BY <1>3, <1>5, <1>6 DEF Kept, Told, Over

\* A state is left for the data state.
LEMMA ToData ==
    ASSUME NEW q, Typed(q), q.state # "data_state",
           q.state = "attribute_name_state" => q.attribute_name # <<>> /\ q.tag # NoTag
    PROVE  LET r == SwitchToState(q, "data_state")
           IN  /\ DOMAIN r = Fields /\ Typed(r) /\ r.state = "data_state"
               /\ r.tag.type = q.tag.type /\ r.tag.name = q.tag.name
               /\ r.content = q.content /\ r.last = q.last /\ r.answer = q.answer
               /\ r.comment = q.comment /\ r.doctype = q.doctype /\ r.out = q.out
               /\ r.ended = q.ended /\ r.failure = q.failure /\ r.again = q.again
<1>1. CASE q.state # "attribute_name_state"
  BY <1>1 DEF SwitchToState, Typed, Fields
<1>2. CASE q.state = "attribute_name_state"
  <2> DEFINE tag == [q.tag EXCEPT !.attributes = @ \cup {q.attribute_name}]
             r == [q EXCEPT !.tag = tag, !.attribute = q.attribute_name, !.attribute_name = <<>>,
                            !.state = "data_state"]
  <2>1. SwitchToState(q, "data_state") = r
    BY <1>2 DEF SwitchToState, InsertAttribute, Typed, Fields
  <2>2. DOMAIN tag = DOMAIN q.tag /\ tag.type = q.tag.type /\ tag.name = q.tag.name
    BY DEF Typed
  <2> HIDE DEF tag
  <2>3. /\ DOMAIN r = Fields /\ r.tag = tag /\ r.state = "data_state" /\ r.attribute_name = <<>>
        /\ r.content = q.content /\ r.last = q.last /\ r.answer = q.answer
        /\ r.comment = q.comment /\ r.doctype = q.doctype /\ r.out = q.out
        /\ r.declaration = q.declaration /\ r.keyword = q.keyword /\ r.buffer = q.buffer
        /\ r.ref = q.ref
        /\ r.ended = q.ended /\ r.failure = q.failure /\ r.again = q.again
    BY DEF Typed, Fields
  <2> HIDE DEF r
  <2>4. Typed(r)
    BY <2>2, <2>3 DEF Typed
  <2> QED BY <2>1, <2>2, <2>3, <2>4
<1> QED BY <1>1, <1>2

\* What is cut short by the end of the input reads it in the data state.
LEMMA Abandoning ==
    ASSUME NEW s, NEW c, Ready(s, c), c = "EOF", s.state # "data_state",
           s.state = "attribute_name_state" => s.attribute_name # <<>> /\ s.tag # NoTag
    PROVE  Kept(s, c, Abandon(s))
<1> DEFINE r == SwitchToState(s, "data_state")
           a == Again(r, "EOF")
<1>1. Abandon(s) = a
  BY DEF Abandon, ReadAgain
<1>2. /\ DOMAIN r = Fields /\ Typed(r) /\ r.state = "data_state" /\ r.content = s.content
      /\ r.last = s.last /\ r.out = <<>> /\ r.ended = s.ended /\ ~ s.ended
      /\ r.failure = "none" /\ r.again = <<>>
  BY ToData DEF Ready, Going
<1> HIDE DEF r
<1>3. DOMAIN a = Fields /\ a.again = <<"EOF">> /\ Same(a, r)
  BY <1>2 DEF Typed, Again, ReadAll, Fields, Same
<1>4. <<"EOF">> \in Seq(Chars)
  BY DEF Chars
<1> HIDE DEF a
<1>5. Typed(a) /\ Stream(a) = Stream(s) /\ a.out = <<>> /\ a.failure = "none" /\ ~ a.ended
      /\ a.state = "data_state"
  <2>1. Typed(a) /\ Stream(a) = Stream(r) /\ a.out = <<>> /\ a.failure = "none"
        /\ a.ended = s.ended /\ a.state = "data_state"
    <3>1. a.again \in Seq(Chars)
      BY <1>3, <1>4
    <3> QED BY <1>2, <1>3, <3>1, SameFits
  <2>2. Stream(r) = Stream(s)
    BY <1>2 DEF Stream
  <2> QED BY <2>1, <2>2, <1>2
<1>6. Told(s, a)
  BY <1>5 DEF Told, ToldText
<1> QED BY <1>1, <1>3, <1>5, <1>6 DEF Kept, Ending

\* The text that the tree constructor may switch to.
LEMMA TextChosen ==
    ASSUME NEW name \in DOMAIN TextOf
    PROVE  \/ TextOf[name] = "RCDATA"      /\ Texts[TextOf[name]] = "RCDATA_state"
           \/ TextOf[name] = "RAWTEXT"     /\ Texts[TextOf[name]] = "RAWTEXT_state"
           \/ TextOf[name] = "script_data" /\ Texts[TextOf[name]] = "script_data_state"
           \/ TextOf[name] = "PLAINTEXT"   /\ Texts[TextOf[name]] = "PLAINTEXT_state"
BY TokenizerAssumption DEF Texts

\* At rest: in the text that is read.
AtRest(r) ==
    \/ r.state = "data_state"        /\ r.content = "data"
    \/ r.state = "RCDATA_state"      /\ r.content = "RCDATA"
    \/ r.state = "RAWTEXT_state"     /\ r.content = "RAWTEXT"
    \/ r.state = "script_data_state" /\ r.content = "script_data"
    \/ r.state = "PLAINTEXT_state"   /\ r.content = "PLAINTEXT"

LEMMA RestFits ==
    ASSUME NEW r, AtRest(r)
    PROVE  Fit(r, r.state)
<1>1. CASE r.state = "data_state" /\ r.content = "data"
  BY <1>1 DEF Fit, PlainStates
<1>2. CASE r.state = "RCDATA_state" /\ r.content = "RCDATA"
  BY <1>2 DEF Fit, PlainRCDATAStates
<1>3. CASE r.state = "RAWTEXT_state" /\ r.content = "RAWTEXT"
  BY <1>3 DEF Fit, PlainRAWTEXTStates
<1>4. CASE r.state = "script_data_state" /\ r.content = "script_data"
  BY <1>4 DEF Fit, PlainScriptStates
<1>5. CASE r.state = "PLAINTEXT_state" /\ r.content = "PLAINTEXT"
  BY <1>5 DEF Fit
<1> QED BY <1>1, <1>2, <1>3, <1>4, <1>5 DEF AtRest

\* A token that may be given is given from the data state, and a start tag may be answered.
LEMMA Emitting ==
    ASSUME NEW q, Typed(q), q.out = <<>>, q.failure = "none", ~ q.ended, q.state = "data_state",
           NEW type \in {"start", "end", "comment", "doctype"}, NEW name,
           type # "end" => q.content = "data",
           type = "end" => q.content = "data" \/ (q.content # "PLAINTEXT" /\ name = q.last),
           NEW e, e = Emit(q, type, name)
    PROVE  /\ Typed(e) /\ AtRest(e) /\ e.failure = "none" /\ ~ e.ended /\ e.again = q.again
           /\ \E t : /\ e.out = <<t>> /\ T!Legal(Stream(q), t)
                     /\ Stream(e) = T!Given(Stream(q), t)
<1>1. CASE Switched(q, type, name)
  <2>1. type = "start" /\ name \in DOMAIN TextOf
    BY <1>1 DEF Switched
  <2>2. PICK t : t = T!Token(type, name, TextOf[name])
    OBVIOUS
  <2>3. PICK g : g = Give(q, t)
    OBVIOUS
  <2>4. /\ DOMAIN g = Fields /\ g.out = <<t>> /\ g.content = TextOf[name] /\ ~ g.ended
        /\ Stream(g) = T!Given(Stream(q), t) /\ g.state = "data_state" /\ g.again = q.again
        /\ g.failure = "none" /\ Typed(g)
    BY <2>1, <2>2, <2>3, GiveFields
  <2>5. PICK X : X = Texts[TextOf[name]]
    OBVIOUS
  <2>6. \/ g.content = "RCDATA"      /\ X = "RCDATA_state"
        \/ g.content = "RAWTEXT"     /\ X = "RAWTEXT_state"
        \/ g.content = "script_data" /\ X = "script_data_state"
        \/ g.content = "PLAINTEXT"   /\ X = "PLAINTEXT_state"
    BY <2>1, <2>4, <2>5, TextChosen
  <2>7. e = [g EXCEPT !.state = X]
    <3>1. e = SwitchToState(g, X)
      BY <1>1, <2>2, <2>3, <2>5 DEF Emit
    <3> QED BY <2>4, <2>6, <3>1 DEF SwitchToState
  <2>8. /\ DOMAIN e = Fields /\ e.state = X /\ e.out = g.out /\ e.content = g.content
        /\ e.last = g.last /\ e.ended = g.ended /\ e.again = g.again /\ e.failure = g.failure
        /\ e.tag = g.tag /\ e.doctype = g.doctype /\ e.ref = g.ref
        /\ e.attribute_name = g.attribute_name /\ e.buffer = g.buffer
        /\ e.declaration = g.declaration /\ e.keyword = g.keyword
    BY <2>4, <2>7 DEF Fields
  <2>9. Typed(e)
    BY <2>4, <2>8 DEF Typed
  <2>10. AtRest(e)
    BY <2>6, <2>8 DEF AtRest
  <2>11. Stream(e) = T!Given(Stream(q), t)
    BY <2>4, <2>8 DEF Stream
  <2>12. T!Legal(Stream(q), t)
    BY <2>1, <2>2 DEF T!Legal, T!Token, Stream
  <2> QED BY <2>4, <2>8, <2>9, <2>10, <2>11, <2>12
<1>2. CASE ~ Switched(q, type, name)
  <2>1. PICK t : t = T!Token(type, name, "data")
    OBVIOUS
  <2>2. e = Give(q, t)
    BY <1>2, <2>1 DEF Emit
  <2>3. /\ DOMAIN e = Fields /\ e.out = <<t>> /\ e.content = "data" /\ ~ e.ended
        /\ Stream(e) = T!Given(Stream(q), t) /\ e.state = "data_state" /\ e.again = q.again
        /\ e.failure = "none" /\ Typed(e)
    BY <2>1, <2>2, GiveFields
  <2>4. T!Legal(Stream(q), t)
    BY <2>1 DEF T!Legal, T!Token, Stream
  <2> QED BY <2>3, <2>4 DEF AtRest
<1> QED BY <1>1, <1>2

\* What was built is given, and forgotten.
LEMMA Forgetting ==
    ASSUME NEW s, Going(s), NEW q, Stream(q) = Stream(s), NEW e, Typed(e), AtRest(e),
           e.failure = "none", ~ e.ended, e.again = s.again,
           \E t : /\ e.out = <<t>> /\ T!Legal(Stream(q), t)
                  /\ Stream(e) = T!Given(Stream(q), t),
           NEW r,
           \/ r = [e EXCEPT !.tag = NoTag]
           \/ r = [e EXCEPT !.comment = FALSE]
           \/ r = [e EXCEPT !.doctype = NoDocType]
    PROVE  Moved(s, r)
<1>1. /\ DOMAIN r = Fields /\ r.state = e.state /\ r.out = e.out /\ r.content = e.content
      /\ r.last = e.last /\ r.ended = e.ended /\ r.again = e.again /\ r.failure = e.failure
      /\ r.ref = e.ref /\ r.attribute_name = e.attribute_name /\ r.buffer = e.buffer
      /\ r.declaration = e.declaration /\ r.keyword = e.keyword
      /\ r.tag \in {e.tag, NoTag} /\ r.doctype \in {e.doctype, NoDocType}
  <2>1. DOMAIN e = Fields
    BY DEF Typed
  <2>2. CASE r = [e EXCEPT !.tag = NoTag]
    BY <2>1, <2>2 DEF Fields
  <2>3. CASE r = [e EXCEPT !.comment = FALSE]
    BY <2>1, <2>3 DEF Fields
  <2>4. CASE r = [e EXCEPT !.doctype = NoDocType]
    BY <2>1, <2>4 DEF Fields
  <2> QED BY <2>2, <2>3, <2>4
<1>2. /\ DOMAIN NoTag = {"type", "name", "attributes"}
      /\ DOMAIN NoDocType = {"given", "public", "system"}
  BY DEF NoTag, NoDocType
<1>3. Typed(r)
  BY <1>1, <1>2 DEF Typed
<1>4. Fit(r, r.state)
  BY <1>1, RestFits DEF AtRest
<1>5. Told(s, r)
  <2>1. PICK t : /\ e.out = <<t>> /\ T!Legal(Stream(q), t)
                 /\ Stream(e) = T!Given(Stream(q), t)
    OBVIOUS
  <2>2. Stream(r) = Stream(e)
    BY <1>1 DEF Stream
  <2> QED BY <1>1, <2>1, <2>2 DEF Told
<1> QED BY <1>1, <1>3, <1>4, <1>5 DEF Moved

\* A tag.
LEMMA TagGiven ==
    ASSUME NEW s, Going(s), s.state # "data_state", InTag(s),
           s.state = "attribute_name_state" => s.attribute_name # <<>>
    PROVE  Moved(s, EndTag(s))
<1>1. s.tag # NoTag
  BY DEF InTag, NoTag
<1>2. PICK q : q = SwitchToState(s, "data_state")
  OBVIOUS
<1>3. /\ Typed(q) /\ q.state = "data_state" /\ q.tag.type = s.tag.type /\ q.tag.name = s.tag.name
      /\ q.content = s.content /\ q.last = s.last /\ q.out = <<>> /\ q.ended = s.ended
      /\ q.failure = "none" /\ q.again = s.again
  BY <1>1, <1>2, ToData DEF Going
<1>4. PICK e : e = Emit(q, q.tag.type, q.tag.name)
  OBVIOUS
<1>5. /\ Typed(e) /\ AtRest(e) /\ e.failure = "none" /\ ~ e.ended /\ e.again = q.again
      /\ \E t : /\ e.out = <<t>> /\ T!Legal(Stream(q), t)
                /\ Stream(e) = T!Given(Stream(q), t)
  <2>1. q.tag.type \in {"start", "end", "comment", "doctype"}
    BY <1>3 DEF InTag
  <2>2. q.tag.type # "end" => q.content = "data"
    BY <1>3 DEF InTag, IsAppropriate
  <2>3. q.tag.type = "end" => q.content = "data" \/ (q.content # "PLAINTEXT" /\ q.tag.name = q.last)
    BY <1>3 DEF InTag, IsAppropriate
  <2>4. ~ q.ended
    BY <1>3 DEF Going
  <2> QED BY <1>3, <1>4, <2>1, <2>2, <2>3, <2>4, Emitting
<1>6. EndTag(s) = [e EXCEPT !.tag = NoTag]
  <2>1. q.tag # NoTag
    BY <1>3 DEF InTag, NoTag
  <2> QED BY <1>2, <1>4, <2>1 DEF EndTag, EmitCurrentTagToken
<1>7. Stream(q) = Stream(s)
  BY <1>3 DEF Stream
<1> QED BY <1>3, <1>5, <1>6, <1>7, Forgetting

\* A comment.
LEMMA CommentGiven ==
    ASSUME NEW s, Going(s), s.state \notin {"data_state", "attribute_name_state"},
           s.content = "data", s.comment
    PROVE  Moved(s, EndComment(s))
<1>1. PICK q : q = SwitchToState(s, "data_state")
  OBVIOUS
<1>2. /\ Typed(q) /\ q.state = "data_state" /\ q.content = s.content /\ q.last = s.last
      /\ q.out = <<>> /\ q.ended = s.ended /\ q.failure = "none" /\ q.again = s.again
  BY <1>1, ToData DEF Going
<1>3. PICK e : e = Emit(q, "comment", <<>>)
  OBVIOUS
<1>4. ~ q.ended
  BY <1>2 DEF Going
<1>5. /\ Typed(e) /\ AtRest(e) /\ e.failure = "none" /\ ~ e.ended /\ e.again = q.again
      /\ \E t : /\ e.out = <<t>> /\ T!Legal(Stream(q), t)
                /\ Stream(e) = T!Given(Stream(q), t)
  BY <1>2, <1>3, <1>4, Emitting
<1>6. EndComment(s) = [e EXCEPT !.comment = FALSE]
  BY <1>1, <1>3 DEF EndComment
<1>7. Stream(q) = Stream(s)
  BY <1>2 DEF Stream
<1> QED BY <1>2, <1>5, <1>6, <1>7, Forgetting

\* A DOCTYPE, of a state with what it changes.
LEMMA DocTypeGiven ==
    ASSUME NEW s, Going(s), NEW d, Alike(s, d), d.out = <<>>,
           d.state \notin {"data_state", "attribute_name_state"}, d.content = "data",
           d.doctype.given
    PROVE  Moved(s, EndDocType(d))
<1>1. PICK q : q = SwitchToState(d, "data_state")
  OBVIOUS
<1>2. /\ Typed(q) /\ q.state = "data_state" /\ q.content = d.content /\ q.last = d.last
      /\ q.out = <<>> /\ q.ended = d.ended /\ q.failure = "none" /\ q.again = s.again
  BY <1>1, ToData DEF Alike
<1>3. PICK e : e = Emit(q, "doctype", <<>>)
  OBVIOUS
<1>4. Stream(q) = Stream(s)
  <2>1. Stream(q) = Stream(d)
    BY <1>2 DEF Stream
  <2> QED BY <2>1 DEF Alike
<1>5. ~ q.ended
  BY <1>4 DEF Going, Stream
<1>6. /\ Typed(e) /\ AtRest(e) /\ e.failure = "none" /\ ~ e.ended /\ e.again = q.again
      /\ \E t : /\ e.out = <<t>> /\ T!Legal(Stream(q), t)
                /\ Stream(e) = T!Given(Stream(q), t)
  BY <1>2, <1>3, <1>5, Emitting
<1>7. EndDocType(d) = [e EXCEPT !.doctype = NoDocType]
  BY <1>1, <1>3 DEF EndDocType
<1> QED BY <1>2, <1>4, <1>6, <1>7, Forgetting

\* The name of an attribute ends.
LEMMA Leaving ==
    ASSUME NEW s, Going(s), s.state = "attribute_name_state", InTag(s), s.attribute_name # <<>>,
           NEW Y \in {"after_attribute_name_state", "before_attribute_value_state",
                      "self_closing_start_tag_state"}
    PROVE  Moved(s, SwitchToState(s, Y))
<1> DEFINE tag == [s.tag EXCEPT !.attributes = @ \cup {s.attribute_name}]
           r == [s EXCEPT !.tag = tag, !.attribute = s.attribute_name, !.attribute_name = <<>>,
                          !.state = Y]
<1>1. s.tag # NoTag
  BY DEF InTag, NoTag
<1>2. SwitchToState(s, Y) = r
  BY <1>1 DEF SwitchToState, InsertAttribute, Going, Typed, Fields
<1>3. /\ DOMAIN tag = DOMAIN s.tag /\ tag.type = s.tag.type /\ tag.name = s.tag.name
      /\ s.attribute_name \in tag.attributes
  BY DEF Going, Typed
<1> HIDE DEF tag
<1>4. /\ DOMAIN r = Fields /\ r.tag = tag /\ r.state = Y /\ r.attribute_name = <<>>
      /\ r.attribute = s.attribute_name /\ r.content = s.content /\ r.last = s.last
      /\ r.doctype = s.doctype /\ r.out = s.out
      /\ r.declaration = s.declaration /\ r.keyword = s.keyword /\ r.buffer = s.buffer
      /\ r.ref = s.ref
      /\ r.ended = s.ended /\ r.failure = s.failure /\ r.again = s.again
  BY DEF Going, Typed, Fields
<1> HIDE DEF r
<1>5. Alike(s, r)
  BY <1>3, <1>4 DEF Going, Typed, Alike, Stream
<1>6. InTag(r) /\ r.attribute \in r.tag.attributes
  BY <1>3, <1>4 DEF InTag, IsAppropriate
<1>7. Fit(r, r.state)
  BY <1>4, <1>6 DEF Fit, AttributeStates, BetweenStates
<1> QED BY <1>2, <1>5, <1>7, Staying

\* A value has a reference, and is gone back to.
LEMMA Referring ==
    ASSUME NEW s, Going(s), s.state \in ValueStates, InTag(s), s.attribute \in s.tag.attributes
    PROVE  Moved(s, InReference(s))
<1> DEFINE Y == "character_reference_in_attribute_value_state"
           r == [s EXCEPT !.state = Y, !.attribute_value_state = s.state, !.ref = Referred]
<1>1. InReference(s) = r
  BY DEF InReference, SwitchToState, ValueStates
<1>2. /\ DOMAIN r = Fields /\ r.tag = s.tag /\ r.state = Y /\ r.attribute_name = s.attribute_name
      /\ r.attribute = s.attribute /\ r.content = s.content /\ r.last = s.last
      /\ r.attribute_value_state = s.state
      /\ r.doctype = s.doctype /\ r.out = s.out
      /\ r.declaration = s.declaration /\ r.keyword = s.keyword /\ r.buffer = s.buffer
      /\ r.ref = Referred
      /\ r.ended = s.ended /\ r.failure = s.failure /\ r.again = s.again
  BY DEF Going, Typed, Fields
<1> HIDE DEF r
<1>3. /\ DOMAIN Referred = {"state", "hex", "digits", "value", "leftovers"}
      /\ Referred.state = "start_state" /\ Referred.leftovers = <<>> /\ Referred.value = <<>>
  BY DEF Referred
<1>4. Alike(s, r)
  BY <1>2, <1>3 DEF Going, Typed, Alike, Stream
<1>5. InTag(r) /\ r.attribute \in r.tag.attributes /\ InReferenceFrame(r)
  BY <1>2, <1>3 DEF InTag, IsAppropriate, InReferenceFrame, NoEof
<1>6. Fit(r, r.state)
  BY <1>2, <1>5 DEF Fit
<1> QED BY <1>1, <1>4, <1>6, Staying

-------------------------------------------------------------------------------
(* Character references.                                                       *)

\* Of characters without the end of the input and one more, a rest that has that one.
LEMMA EofLast ==
    ASSUME NEW old \in Seq(Chars), NoEof(old), NEW c \in Chars,
           NEW k \in 0 .. Len(old) + 1, c = "EOF" => k <= Len(old)
    PROVE  LET rest == SubSeq(Append(old, c), k + 1, Len(old) + 1)
           IN  /\ rest \in Seq(Chars)
               /\ c # "EOF" => NoEof(rest)
               /\ c = "EOF" => Coming(rest)
<1> DEFINE all == Append(old, c)
           rest == SubSeq(all, k + 1, Len(old) + 1)
           front == SubSeq(old, k + 1, Len(old))
<1>1. /\ all \in Seq(Chars) /\ Len(all) = Len(old) + 1 /\ all[Len(old) + 1] = c
      /\ \A i \in 1 .. Len(old) : all[i] = old[i]
  OBVIOUS
<1> HIDE DEF all
<1>2. /\ rest \in Seq(Chars) /\ Len(rest) = Len(old) + 1 - k
      /\ \A i \in 1 .. Len(old) + 1 - k : rest[i] = all[k + i]
  BY <1>1
<1>3. ASSUME c # "EOF" PROVE NoEof(rest)
  BY <1>1, <1>2, <1>3 DEF NoEof
<1>4. ASSUME c = "EOF" PROVE Coming(rest)
  <2>1. k <= Len(old)
    BY <1>4
  <2>2. /\ front \in Seq(Chars) /\ Len(front) = Len(old) - k
        /\ \A i \in 1 .. Len(old) - k : front[i] = old[k + i]
    BY <2>1
  <2> HIDE DEF rest, front
  <2>3. NoEof(front)
    BY <2>1, <2>2 DEF NoEof
  <2>4. PICK e \in Seq(Chars) : e = <<"EOF">>
    <3>1. <<"EOF">> \in Seq(Chars)
      BY DEF Chars
    <3> QED BY <3>1
  <2>5. rest = front \o e
    <3>1. Len(e) = 1 /\ e[1] = "EOF"
      BY <2>4
    <3> DEFINE joined == front \o e
    <3>2. /\ joined \in Seq(Chars) /\ Len(joined) = Len(rest)
          /\ \A i \in 1 .. Len(front) : joined[i] = front[i]
          /\ joined[Len(front) + 1] = "EOF"
      <4>1. /\ joined \in Seq(Chars) /\ Len(joined) = Len(front) + Len(e)
            /\ \A i \in 1 .. Len(front) + Len(e) :
                 joined[i] = IF i <= Len(front) THEN front[i] ELSE e[i - Len(front)]
        BY <2>2, ConcatProperties
      <4> HIDE DEF joined
      <4>2. Len(front) \in Nat /\ (Len(front) + 1) - Len(front) = 1
        BY <2>1, <2>2
      <4>3. Len(joined) = Len(rest)
        BY <1>2, <2>1, <2>2, <3>1, <4>1
      <4>4. \A i \in 1 .. Len(front) : joined[i] = front[i]
        BY <4>2, <3>1, <4>1
      <4>5. joined[Len(front) + 1] = "EOF"
        BY <4>2, <3>1, <4>1
      <4> QED BY <4>1, <4>3, <4>4, <4>5
    <3> HIDE DEF joined
    <3>3. \A i \in 1 .. Len(old) - k : rest[i] = joined[i]
      BY <1>1, <1>2, <2>1, <2>2, <3>2
    <3>4. rest[Len(rest)] = joined[Len(rest)]
      BY <1>1, <1>2, <1>4, <2>1, <2>2, <3>2
    <3>5. \A i \in 1 .. Len(rest) : rest[i] = joined[i]
      BY <1>2, <2>1, <3>3, <3>4
    <3>6. rest = joined
      BY <1>2, <3>2, <3>5, SeqEqual
    <3> QED BY <3>6 DEF joined
  <2> QED BY <2>2, <2>3, <2>4, <2>5 DEF Coming
<1> QED BY <1>2, <1>3, <1>4 DEF all

LEMMA EofAppended ==
    ASSUME NEW old \in Seq(Chars), NoEof(old), NEW c \in Chars
    PROVE  /\ Append(old, c) \in Seq(Chars)
           /\ c # "EOF" => NoEof(Append(old, c))
           /\ c = "EOF" => Coming(Append(old, c))
<1>1. SubSeq(Append(old, c), 0 + 1, Len(old) + 1) = Append(old, c)
  OBVIOUS
<1>2. 0 \in 0 .. Len(old) + 1 /\ 0 <= Len(old)
  OBVIOUS
<1> QED BY <1>1, <1>2, EofLast

\* Of the names that some characters begin with, one is the longest.
LEMMA Longest ==
    ASSUME NEW word, NEW found, found = {n \in Names : IsPrefix(n, word)}, found # {},
           word \in Seq(Chars)
    PROVE  \E n \in found : \A m \in found : Len(m) <= Len(n)
<1> DEFINE Spans == {0 .. Len(word) - Len(n) : n \in found}
<1>1. \A n \in found : Len(n) \in Nat /\ Len(n) <= Len(word)
  BY TokenizerAssumption DEF IsText, IsPrefix
<1>2. Spans \subseteq FiniteSubsetsOf(Nat) /\ Spans # {}
  <2>1. \A n \in found : 0 .. Len(word) - Len(n) \in FiniteSubsetsOf(Nat)
    <3>1. \A n \in found : Len(word) - Len(n) \in Int
      BY <1>1
    <3>2. \A y \in Int : 0 .. y \in FiniteSubsetsOf(Nat)
      BY FS_Interval DEF FiniteSubsetsOf
    <3> QED BY <3>1, <3>2
  <2> QED BY <2>1
<1>3. PICK X \in Spans : \A Y \in Spans : <<Y, X>> \notin StrictSubsetOrdering(Nat)
  BY <1>2, FS_StrictSubsetOrderingWellFounded, WFMin
<1>4. PICK n \in found : X = 0 .. Len(word) - Len(n)
  OBVIOUS
<1>5. ASSUME NEW m \in found PROVE Len(m) <= Len(n)
  <2>1. CASE Len(n) < Len(m)
    <3> DEFINE x == Len(word) - Len(n)
               y == Len(word) - Len(m)
    <3>1. x \in Nat /\ y \in Nat /\ y < x
      BY <1>1, <2>1
    <3>2. 0 .. y \in Spans
      OBVIOUS
    <3>3. <<0 .. y, 0 .. x>> \in StrictSubsetOrdering(Nat)
      <4> HIDE DEF x, y
      <4>1. 0 .. y \subseteq 0 .. x /\ x \notin 0 .. y /\ x \in 0 .. x
        BY <3>1
      <4> QED BY <4>1, <3>1 DEF StrictSubsetOrdering
    <3> QED BY <1>3, <1>4, <3>2, <3>3
  <2> QED BY <1>1, <2>1
<1> QED BY <1>5

RefFields == {"state", "hex", "digits", "value", "leftovers"}

\* What the frame makes of one more character.
Answered(c, new) ==
    /\ DOMAIN new = RefFields /\ new.leftovers \in Seq(Chars) /\ new.value \in Seq(Chars)
    /\ new.state \in {"start_state", "number_started_state", "receiving_number_state",
                      "matching_name_state", "done_state"}
    /\ c # "EOF" => NoEof(new.leftovers)
    /\ c = "EOF" => new.state = "done_state" /\ Coming(new.leftovers)

LEMMA Matching ==
    ASSUME NEW ref, DOMAIN ref = RefFields, NEW old \in Seq(Chars), NoEof(old), NEW c \in Chars,
           ref.leftovers = Append(old, c), ref.value \in Seq(Chars),
           ref.state = "matching_name_state"
    PROVE  Answered(c, MatchFrame(ref))
<1> DEFINE word == Append(old, c)
           found == {n \in Names : IsPrefix(n, word)}
<1>0. \A n \in Names : n \in Seq(STRING) /\ \A i \in 1 .. Len(n) : n[i] # "EOF"
  BY TokenizerAssumption DEF IsText
<1>1. /\ word \in Seq(Chars) /\ Len(word) = Len(old) + 1 /\ word[Len(word)] = c
      /\ c # "EOF" => NoEof(word)
      /\ c = "EOF" => Coming(word)
  BY EofAppended
<1>2. CASE \E n \in Names : IsProperPrefixOf(word, n)
  <2>1. PICK n \in Names : IsProperPrefixOf(word, n)
    BY <1>2
  <2>2. c # "EOF"
    <3>1. /\ n \in Seq(STRING) /\ Len(word) \in 1 .. Len(n)
          /\ SubSeq(word, 1, Len(word)) = SubSeq(n, 1, Len(word))
      BY <1>0, <1>1, <2>1 DEF IsProperPrefixOf, IsPrefix
    <3> HIDE DEF word
    <3>2. SubSeq(word, 1, Len(word))[Len(word)] = word[Len(word)]
      BY <1>1, <3>1
    <3>3. SubSeq(n, 1, Len(word))[Len(word)] = n[Len(word)]
      BY <3>1
    <3> QED BY <1>0, <1>1, <3>1, <3>2, <3>3
  <2>3. MatchFrame(ref) = ref
    BY <1>2 DEF MatchFrame
  <2> QED BY <1>1, <2>2, <2>3 DEF Answered
<1>3. CASE ~ (\E n \in Names : IsProperPrefixOf(word, n)) /\ found = {}
  <2>1. MatchFrame(ref) = [ref EXCEPT !.state = "done_state"]
    BY <1>3 DEF MatchFrame
  <2> QED BY <1>1, <2>1 DEF Answered, RefFields
<1>4. CASE ~ (\E n \in Names : IsProperPrefixOf(word, n)) /\ found # {}
  <2> DEFINE best == CHOOSE n \in found : \A m \in found : Len(m) <= Len(n)
             rest == SubSeq(word, Len(best) + 1, Len(word))
  <2>1. best \in found
    BY <1>1, <1>4, Longest
  <2>2. MatchFrame(ref) = [ref EXCEPT !.state = "done_state", !.value = <<"ref">>,
                                      !.leftovers = rest]
    BY <1>4 DEF MatchFrame
  <2> HIDE DEF best
  <2>3. /\ best \in Seq(STRING) /\ Len(best) \in 0 .. Len(word)
        /\ SubSeq(best, 1, Len(best)) = SubSeq(word, 1, Len(best))
    BY <1>0, <1>1, <2>1 DEF IsPrefix
  <2>4. c = "EOF" => Len(best) <= Len(old)
    <3>1. SUFFICES ASSUME Len(best) = Len(word) PROVE c # "EOF"
      BY <1>1, <2>3
    <3> HIDE DEF word
    <3>2. SubSeq(word, 1, Len(best))[Len(best)] = word[Len(word)]
      BY <1>1, <3>1
    <3>3. SubSeq(best, 1, Len(best))[Len(best)] = best[Len(best)]
      BY <1>1, <2>3, <3>1
    <3>4. best[Len(best)] # "EOF"
      <4>1. best \in Names
        BY <2>1
      <4> QED BY <4>1, <1>0, <1>1, <3>1, <2>3
    <3> QED BY <1>1, <2>3, <3>2, <3>3, <3>4
  <2>5. /\ rest \in Seq(Chars) /\ (c # "EOF" => NoEof(rest)) /\ (c = "EOF" => Coming(rest))
    BY <1>1, <2>3, <2>4, EofLast
  <2> HIDE DEF rest
  <2>6. <<"ref">> \in Seq(Chars)
    BY DEF Chars
  <2> QED BY <2>2, <2>5, <2>6 DEF Answered, RefFields
<1> QED BY <1>2, <1>3, <1>4

LEMMA Numbering ==
    ASSUME NEW ref, DOMAIN ref = RefFields, NEW old \in Seq(Chars), NoEof(old), NEW c \in Chars,
           ref.leftovers = Append(old, c), ref.value \in Seq(Chars)
    PROVE  Answered(c, NumberFrame(ref, c))
<1>1. CASE c \in (IF ref.hex THEN HexDigits ELSE Digits)
  <2>1. NumberFrame(ref, c) = [ref EXCEPT !.state = "receiving_number_state", !.digits = 1]
    BY <1>1 DEF NumberFrame
  <2>2. c # "EOF"
    BY <1>1 DEF HexDigits, Digits
  <2>3. ref.leftovers \in Seq(Chars) /\ NoEof(ref.leftovers)
    BY <2>2, EofAppended
  <2> QED BY <2>1, <2>2, <2>3 DEF Answered, RefFields
<1>2. CASE c \notin (IF ref.hex THEN HexDigits ELSE Digits)
  <2> DEFINE value == IF ref.digits > 0 THEN <<"ref">> ELSE <<>>
             rest  == IF c = ";" THEN <<>> ELSE <<c>>
  <2>1. NumberFrame(ref, c) = [ref EXCEPT !.state = "done_state", !.value = value,
                                          !.leftovers = rest]
    BY <1>2 DEF NumberFrame
  <2>2. value \in Seq(Chars)
    <3>1. <<"ref">> \in Seq(Chars) /\ <<>> \in Seq(Chars)
      BY DEF Chars
    <3> QED BY <3>1
  <2>3. /\ rest \in Seq(Chars) /\ (c # "EOF" => NoEof(rest)) /\ (c = "EOF" => Coming(rest))
    <3>1. <<>> \in Seq(Chars) /\ NoEof(<<>>)
      BY DEF NoEof
    <3>2. CASE c = ";"
      BY <3>1, <3>2
    <3>3. CASE c # ";"
      <4>1. rest = <<c>>
        BY <3>3
      <4> QED BY <4>1, One
    <3> QED BY <3>2, <3>3
  <2> HIDE DEF value, rest
  <2> QED BY <2>1, <2>2, <2>3 DEF Answered, RefFields
<1> QED BY <1>1, <1>2

LEMMA Referenced ==
    ASSUME NEW old, DOMAIN old = RefFields, NoEof(old.leftovers), old.leftovers \in Seq(Chars),
           old.value \in Seq(Chars),
           old.state \in {"start_state", "number_started_state", "receiving_number_state",
                          "matching_name_state"},
           NEW c \in Chars
    PROVE  Answered(c, CharacterReference(old, c))
<1> DEFINE ref == [old EXCEPT !.leftovers = Append(@, c)]
<1>1. /\ DOMAIN ref = RefFields /\ ref.leftovers = Append(old.leftovers, c)
      /\ ref.value = old.value /\ ref.state = old.state
  BY DEF RefFields
<1>2. /\ ref.leftovers \in Seq(Chars)
      /\ c # "EOF" => NoEof(ref.leftovers)
      /\ c = "EOF" => Coming(ref.leftovers)
  BY <1>1, EofAppended
<1>3. CASE old.state = "start_state"
  <2>1. CASE c \in Space \cup {"<", "&", "EOF"}
    <3>1. CharacterReference(old, c) = [ref EXCEPT !.state = "done_state"]
      BY <1>1, <1>3, <2>1 DEF CharacterReference, Space
    <3> HIDE DEF ref
    <3> QED BY <1>1, <1>2, <3>1 DEF Answered, RefFields
  <2>2. CASE c = "#"
    <3>1. CharacterReference(old, c) = [ref EXCEPT !.state = "number_started_state"]
      BY <1>1, <1>3, <2>2 DEF CharacterReference, Space
    <3> HIDE DEF ref
    <3> QED BY <1>1, <1>2, <2>2, <3>1 DEF Answered, RefFields
  <2>3. CASE c \notin Space \cup {"<", "&", "EOF"} /\ c # "#"
    <3> DEFINE m == [ref EXCEPT !.state = "matching_name_state"]
    <3>1. CharacterReference(old, c) = MatchFrame(m)
      BY <1>1, <1>3, <2>3 DEF CharacterReference
    <3>2. /\ DOMAIN m = RefFields /\ m.leftovers = Append(old.leftovers, c)
          /\ m.value \in Seq(Chars) /\ m.state = "matching_name_state"
      <4> HIDE DEF ref
      <4> QED BY <1>1 DEF RefFields
    <3> HIDE DEF m, ref
    <3> QED BY <3>1, <3>2, Matching
  <2> QED BY <2>1, <2>2, <2>3
<1>4. CASE old.state = "number_started_state"
  <2>1. CASE c \in {"x", "X"}
    <3>1. CharacterReference(old, c) = [ref EXCEPT !.hex = TRUE, !.state = "receiving_number_state"]
      BY <1>1, <1>4, <2>1 DEF CharacterReference
    <3>2. c # "EOF"
      BY <2>1
    <3> HIDE DEF ref
    <3> QED BY <1>1, <1>2, <3>1, <3>2 DEF Answered, RefFields
  <2>2. CASE c \notin {"x", "X"}
    <3>1. CharacterReference(old, c) = NumberFrame(ref, c)
      BY <1>1, <1>4, <2>2 DEF CharacterReference
    <3> HIDE DEF ref
    <3> QED BY <1>1, <3>1, Numbering
  <2> QED BY <2>1, <2>2
<1>5. CASE old.state = "receiving_number_state"
  <2>1. CharacterReference(old, c) = NumberFrame(ref, c)
    BY <1>1, <1>5 DEF CharacterReference
  <2> HIDE DEF ref
  <2> QED BY <1>1, <2>1, Numbering
<1>6. CASE old.state = "matching_name_state"
  <2>1. CharacterReference(old, c) = MatchFrame(ref)
    BY <1>1, <1>6 DEF CharacterReference
  <2> HIDE DEF ref
  <2> QED BY <1>1, <1>6, <2>1, Matching
<1> QED BY <1>3, <1>4, <1>5, <1>6

\* A state with one more character in its reference frame.
WithCharacter(s, c) == [s EXCEPT !.ref = CharacterReference(@, c)]

LEMMA Framed ==
    ASSUME NEW s, NEW c \in Chars, Going(s), InReferenceFrame(s), NEW r, r = WithCharacter(s, c)
    PROVE  /\ Answered(c, r.ref) /\ Alike(s, r) /\ r.out = <<>>
           /\ r.state = s.state /\ r.content = s.content /\ r.last = s.last /\ r.tag = s.tag
           /\ r.attribute = s.attribute /\ r.attribute_value_state = s.attribute_value_state
           /\ r.attribute_name = s.attribute_name
           /\ r.ref.state # "done_state" => InReferenceFrame(r) /\ c # "EOF"
<1>1. PICK new : new = CharacterReference(s.ref, c)
  OBVIOUS
<1>2. Answered(c, new)
  BY <1>1, Referenced DEF Going, Typed, InReferenceFrame, RefFields
<1>3. /\ DOMAIN r = Fields /\ r.ref = new
      /\ r.state = s.state /\ r.content = s.content /\ r.last = s.last /\ r.tag = s.tag
      /\ r.attribute = s.attribute /\ r.attribute_value_state = s.attribute_value_state
      /\ r.attribute_name = s.attribute_name /\ r.buffer = s.buffer /\ r.doctype = s.doctype
      /\ r.declaration = s.declaration /\ r.keyword = s.keyword /\ r.out = s.out
      /\ r.ended = s.ended /\ r.failure = s.failure /\ r.again = s.again
  BY <1>1 DEF Going, Typed, Fields, WithCharacter
<1>4. Alike(s, r)
  <2>1. Typed(r)
    <3>1. /\ DOMAIN new = {"state", "hex", "digits", "value", "leftovers"}
          /\ new.leftovers \in Seq(Chars) /\ new.value \in Seq(Chars)
      BY <1>2 DEF Answered, RefFields
    <3> QED BY <1>3, <3>1 DEF Going, Typed
  <2>2. r.out \in Seq(TextTokens) /\ r.failure = "none" /\ r.again = s.again
    <3>1. <<>> \in Seq(TextTokens)
      OBVIOUS
    <3> QED BY <1>3, <3>1 DEF Going
  <2>3. Stream(r) = Stream(s)
    BY <1>3 DEF Stream
  <2> QED BY <2>1, <2>2, <2>3 DEF Alike
<1>5. r.ref.state # "done_state" => InReferenceFrame(r) /\ c # "EOF"
  BY <1>2, <1>3 DEF InReferenceFrame, Answered
<1> QED BY <1>2, <1>3, <1>4, <1>5 DEF Going

\* A reference in text.
LEMMA ReferenceRead ==
    ASSUME NEW s, NEW c, Ready(s, c), InReferenceFrame(s), NEW text,
           \/ /\ s.state = "character_reference_in_data_state"
              /\ s.content = "data" /\ text = "data_state"
           \/ /\ s.state = "character_reference_in_RCDATA_state"
              /\ s.content = "RCDATA" /\ text = "RCDATA_state"
    PROVE  Kept(s, c, ReferenceIn(s, c, text))
<1>1. c \in Chars /\ Going(s)
  BY DEF Ready
<1>2. PICK r : r = WithCharacter(s, c)
  OBVIOUS
<1>3. /\ Answered(c, r.ref) /\ Alike(s, r) /\ r.state = s.state /\ r.content = s.content
      /\ r.ref.state # "done_state" => InReferenceFrame(r) /\ c # "EOF"
  BY <1>1, <1>2, Framed
<1>4. CASE r.ref.state # "done_state"
  <2>1. Fit(r, r.state)
    BY <1>3, <1>4 DEF Fit
  <2>2. ReferenceIn(s, c, text) = r
    BY <1>2, <1>4 DEF ReferenceIn, WithCharacter
  <2> QED BY <1>1, <1>3, <1>4, <2>1, <2>2, Staying, MovedKept
<1>5. CASE r.ref.state = "done_state"
  <2>1. PICK shown \in Seq(Chars) : shown = IF r.ref.value = <<>> THEN <<"&">> ELSE r.ref.value
    <3>1. <<"&">> \in Seq(Chars)
      BY DEF Chars
    <3> QED BY <1>3, <3>1 DEF Answered
  <2>2. PICK e : e = EmitCharacters(r, shown)
    OBVIOUS
  <2>3. Alike(s, e) /\ e.state = s.state /\ \A Y : Fit(r, Y) => Fit(e, Y)
    BY <1>1, <1>3, <2>2, Giving
  <2>4. Fit(e, text) /\ text # e.state
    <3>1. Fit(r, text)
      BY <1>3 DEF Fit, PlainStates, PlainRCDATAStates
    <3> QED BY <2>3, <3>1
  <2>5. PICK t : t = SwitchToState(e, text)
    OBVIOUS
  <2>6. Moved(s, t) /\ t = [e EXCEPT !.state = text]
    BY <1>1, <2>3, <2>4, <2>5, Switching
  <2>7. t.ref = r.ref
    <3>1. e.ref = r.ref
      BY <1>3, <2>2 DEF EmitCharacters, Alike, Typed, Fields
    <3> QED BY <2>3, <2>6, <3>1 DEF Alike, Typed, Fields
  <2>8. ReferenceIn(s, c, text) = ReadAll(t, r.ref.leftovers)
    BY <1>2, <1>5, <2>1, <2>2, <2>5, <2>7 DEF ReferenceIn, consume_leftovers, WithCharacter
  <2> QED BY <1>3, <2>6, <2>8, ReadAllKept DEF Answered
<1> QED BY <1>4, <1>5

\* A reference in the value of an attribute.
LEMMA ReferenceInValueRead ==
    ASSUME NEW s, NEW c, Ready(s, c), s.state = "character_reference_in_attribute_value_state"
    PROVE  Kept(s, c, character_reference_in_attribute_value_state(s, c))
<1>1. c \in Chars /\ Going(s)
  BY DEF Ready
<1>2. /\ InTag(s) /\ s.attribute \in s.tag.attributes
      /\ s.attribute_value_state \in ValueStates /\ InReferenceFrame(s)
  BY DEF Ready, Fit, PlainStates, BetweenStates, AttributeStates, ValueStates, CommentStates,
         DeclarationStates, DoctypeStates, PublicStates, SystemStates, PlainRCDATAStates,
         PlainRAWTEXTStates, PlainScriptStates, ScriptEndTagStates
<1>3. PICK r : r = WithCharacter(s, c)
  OBVIOUS
<1>4. /\ Answered(c, r.ref) /\ Alike(s, r) /\ r.state = s.state /\ r.content = s.content
      /\ r.last = s.last /\ r.tag = s.tag /\ r.attribute = s.attribute
      /\ r.attribute_value_state = s.attribute_value_state
      /\ r.ref.state # "done_state" => InReferenceFrame(r) /\ c # "EOF"
  <2>1. InReferenceFrame(s)
    BY <1>2
  <2>2. Answered(c, r.ref) /\ Alike(s, r)
    BY <1>1, <1>3, <2>1, Framed
  <2>3. r.state = s.state /\ r.content = s.content
    BY <1>1, <1>3, <2>1, Framed
  <2>4. r.ref.state # "done_state" => InReferenceFrame(r) /\ c # "EOF"
    BY <1>1, <1>3, <2>1, Framed
  <2>5. /\ r.last = s.last /\ r.tag = s.tag /\ r.attribute = s.attribute
        /\ r.attribute_value_state = s.attribute_value_state
    BY <1>1, <1>3, <2>1, Framed
  <2> QED BY <2>2, <2>3, <2>4, <2>5
<1>5. InTag(r) /\ r.attribute \in r.tag.attributes /\ r.attribute_value_state \in ValueStates
  BY <1>2, <1>4 DEF InTag, IsAppropriate
<1>6. CASE r.ref.state # "done_state"
  <2>1. Fit(r, r.state)
    BY <1>4, <1>5, <1>6 DEF Fit
  <2>2. character_reference_in_attribute_value_state(s, c) = r
    BY <1>3, <1>6 DEF character_reference_in_attribute_value_state, WithCharacter
  <2> QED BY <1>1, <1>4, <1>6, <2>1, <2>2, Staying, MovedKept
<1>7. CASE r.ref.state = "done_state"
  <2>1. PICK Y : Y = r.attribute_value_state
    OBVIOUS
  <2>2. /\ Fit(r, Y) /\ Y # r.state /\ Y # "character_reference_in_attribute_value_state"
        /\ r.state # "attribute_name_state"
    BY <1>4, <1>5, <2>1 DEF Fit, AttributeStates, ValueStates
  <2>3. PICK t : t = SwitchToState(r, Y)
    OBVIOUS
  <2>4. Moved(s, t) /\ t = [r EXCEPT !.state = Y]
    BY <1>1, <1>4, <2>2, <2>3, Switching
  <2>5. t.ref = r.ref
    BY <1>4, <2>4 DEF Alike, Typed, Fields
  <2>6. character_reference_in_attribute_value_state(s, c) = ReadAll(t, r.ref.leftovers)
    <3>1. ValueGrows(r) = r
      BY <1>5 DEF ValueGrows
    <3> QED BY <1>3, <1>7, <2>1, <2>3, <2>5, <3>1
            DEF character_reference_in_attribute_value_state, consume_leftovers, WithCharacter
  <2> QED BY <1>4, <2>4, <2>6, ReadAllKept DEF Answered
<1> QED BY <1>6, <1>7

-------------------------------------------------------------------------------
(* What a handler changes.                                                     *)

\* A reference is begun.
LEMMA NewReference ==
    ASSUME NEW s, NEW q, Alike(s, q),
           NEW r, r = [q EXCEPT !.ref = Referred]
    PROVE  /\ Alike(s, r) /\ InReferenceFrame(r)
           /\ r.state = q.state /\ r.content = q.content /\ r.last = q.last /\ r.tag = q.tag
           /\ r.attribute_name = q.attribute_name /\ r.attribute = q.attribute
           /\ r.attribute_value_state = q.attribute_value_state /\ r.buffer = q.buffer
           /\ r.comment = q.comment /\ r.doctype = q.doctype /\ r.declaration = q.declaration
           /\ r.keyword = q.keyword /\ r.again = q.again /\ r.out = q.out /\ r.ended = q.ended
           /\ r.failure = q.failure
<1>1. /\ DOMAIN r = Fields /\ r.ref = Referred
      /\ r.state = q.state /\ r.content = q.content /\ r.last = q.last /\ r.tag = q.tag
      /\ r.attribute_name = q.attribute_name /\ r.attribute = q.attribute
      /\ r.attribute_value_state = q.attribute_value_state /\ r.buffer = q.buffer
      /\ r.comment = q.comment /\ r.doctype = q.doctype /\ r.declaration = q.declaration
      /\ r.keyword = q.keyword /\ r.again = q.again /\ r.out = q.out /\ r.ended = q.ended
      /\ r.failure = q.failure
  BY DEF Alike, Typed, Fields, Referred
<1>2. Typed(r)
  <2>1. /\ DOMAIN Referred = {"state", "hex", "digits", "value", "leftovers"}
        /\ Referred.leftovers = <<>> /\ Referred.value = <<>>
    BY DEF Referred
  <2>2. r.ref.leftovers \in Seq(Chars) /\ r.ref.value \in Seq(Chars)
    <3>1. <<>> \in Seq(Chars)
      OBVIOUS
    <3> QED BY <1>1, <2>1, <3>1
  <2>3. DOMAIN r.ref = {"state", "hex", "digits", "value", "leftovers"}
    BY <1>1, <2>1
  <2>4. /\ r.again \in Seq(Chars) /\ r.declaration \in Seq(Chars) /\ r.keyword \in Seq(Chars)
        /\ r.buffer \in Seq(Chars) /\ r.attribute_name \in Seq(Chars)
    BY <1>1 DEF Alike, Typed
  <2>5. /\ DOMAIN r.tag = {"type", "name", "attributes"}
        /\ DOMAIN r.doctype = {"given", "public", "system"}
    BY <1>1 DEF Alike, Typed
  <2> QED BY <1>1, <2>2, <2>3, <2>4, <2>5 DEF Typed
<1>3. Stream(r) = Stream(q)
  BY <1>1 DEF Stream
<1>4. InReferenceFrame(r)
  BY <1>1 DEF InReferenceFrame, Referred, NoEof
<1> QED BY <1>1, <1>2, <1>3, <1>4 DEF Alike

\* The buffer of a text state.
LEMMA NewBuffer ==
    ASSUME NEW s, NEW q, Alike(s, q), NEW b \in Seq(Chars),
           NEW r, r = [q EXCEPT !.buffer = b]
    PROVE  /\ Alike(s, r) /\ r.buffer = b
           /\ r.state = q.state /\ r.content = q.content /\ r.last = q.last /\ r.tag = q.tag
           /\ r.attribute_name = q.attribute_name /\ r.attribute = q.attribute
           /\ r.attribute_value_state = q.attribute_value_state /\ r.comment = q.comment
           /\ r.doctype = q.doctype /\ r.declaration = q.declaration /\ r.keyword = q.keyword
           /\ r.ref = q.ref /\ r.again = q.again /\ r.out = q.out /\ r.ended = q.ended
           /\ r.failure = q.failure
<1>1. /\ DOMAIN r = Fields /\ r.buffer = b
      /\ r.state = q.state /\ r.content = q.content /\ r.last = q.last /\ r.tag = q.tag
      /\ r.attribute_name = q.attribute_name /\ r.attribute = q.attribute
      /\ r.attribute_value_state = q.attribute_value_state /\ r.comment = q.comment
      /\ r.doctype = q.doctype /\ r.declaration = q.declaration /\ r.keyword = q.keyword
      /\ r.ref = q.ref /\ r.again = q.again /\ r.out = q.out /\ r.ended = q.ended
      /\ r.failure = q.failure
  BY DEF Alike, Typed, Fields
<1>2. Typed(r)
  BY <1>1 DEF Alike, Typed
<1>3. Stream(r) = Stream(q)
  BY <1>1 DEF Stream
<1> QED BY <1>1, <1>2, <1>3 DEF Alike

LEMMA EmptyBuffer ==
    ASSUME NEW s, NEW q, Alike(s, q)
    PROVE  LET r == [q EXCEPT !.buffer = <<>>]
           IN  Alike(s, r) /\ r.state = q.state /\ r.content = q.content /\ r.buffer = <<>>
<1>1. PICK b \in Seq(Chars) : b = <<>>
  <2>1. <<>> \in Seq(Chars)
    OBVIOUS
  <2> QED BY <2>1
<1>2. PICK r : r = [q EXCEPT !.buffer = b]
  OBVIOUS
<1>3. Alike(s, r) /\ r.state = q.state /\ r.content = q.content /\ r.buffer = b
  BY <1>2, NewBuffer
<1> QED BY <1>1, <1>2, <1>3

\* A tag is begun.
LEMMA Tagged ==
    ASSUME NEW s, NEW q, Alike(s, q), NEW type, NEW c,
           NEW r, r = NewTag(q, type, c)
    PROVE  /\ Alike(s, r) /\ r.tag.type = type
           /\ r.state = q.state /\ r.content = q.content /\ r.last = q.last
           /\ r.attribute_name = q.attribute_name
           /\ r.attribute_value_state = q.attribute_value_state /\ r.buffer = q.buffer
           /\ r.comment = q.comment /\ r.doctype = q.doctype /\ r.declaration = q.declaration
           /\ r.keyword = q.keyword /\ r.ref = q.ref /\ r.again = q.again /\ r.out = q.out
           /\ r.ended = q.ended /\ r.failure = q.failure
<1>1. /\ DOMAIN r = Fields
      /\ r.tag = [type |-> type, name |-> <<Lower(c)>>, attributes |-> {}]
      /\ r.state = q.state /\ r.content = q.content /\ r.last = q.last
      /\ r.attribute_name = q.attribute_name
      /\ r.attribute_value_state = q.attribute_value_state /\ r.buffer = q.buffer
      /\ r.comment = q.comment /\ r.doctype = q.doctype /\ r.declaration = q.declaration
      /\ r.keyword = q.keyword /\ r.ref = q.ref /\ r.again = q.again /\ r.out = q.out
      /\ r.ended = q.ended /\ r.failure = q.failure
  BY DEF Alike, Typed, Fields, NewTag
<1>2. Typed(r)
  BY <1>1 DEF Alike, Typed, NewTag
<1>3. Stream(r) = Stream(q)
  BY <1>1 DEF Stream
<1> QED BY <1>1, <1>2, <1>3 DEF Alike

\* The name of a tag grows.
LEMMA Named ==
    ASSUME NEW s, NEW q, Alike(s, q), q.tag # NoTag, NEW c,
           NEW r, r = NameGrows(q, c)
    PROVE  /\ Alike(s, r) /\ r.tag.type = q.tag.type
           /\ r.state = q.state /\ r.content = q.content /\ r.last = q.last
           /\ r.attribute_name = q.attribute_name /\ r.attribute = q.attribute
           /\ r.attribute_value_state = q.attribute_value_state /\ r.buffer = q.buffer
           /\ r.comment = q.comment /\ r.doctype = q.doctype /\ r.declaration = q.declaration
           /\ r.keyword = q.keyword /\ r.ref = q.ref /\ r.again = q.again /\ r.out = q.out
           /\ r.ended = q.ended /\ r.failure = q.failure
<1>1. /\ DOMAIN r = Fields
      /\ r.tag = [q.tag EXCEPT !.name = Append(@, c)]
      /\ r.state = q.state /\ r.content = q.content /\ r.last = q.last
      /\ r.attribute_name = q.attribute_name /\ r.attribute = q.attribute
      /\ r.attribute_value_state = q.attribute_value_state /\ r.buffer = q.buffer
      /\ r.comment = q.comment /\ r.doctype = q.doctype /\ r.declaration = q.declaration
      /\ r.keyword = q.keyword /\ r.ref = q.ref /\ r.again = q.again /\ r.out = q.out
      /\ r.ended = q.ended /\ r.failure = q.failure
  BY DEF Alike, Typed, Fields, NameGrows
<1>2. Typed(r)
  BY <1>1 DEF Alike, Typed, NameGrows
<1>3. Stream(r) = Stream(q)
  BY <1>1 DEF Stream
<1> QED BY <1>1, <1>2, <1>3 DEF Alike

\* A comment is begun.
LEMMA Commented ==
    ASSUME NEW s, NEW q, Alike(s, q),
           NEW r, r = NewComment(q)
    PROVE  /\ Alike(s, r) /\ r.comment
           /\ r.state = q.state /\ r.content = q.content /\ r.last = q.last /\ r.tag = q.tag
           /\ r.attribute_name = q.attribute_name /\ r.attribute = q.attribute
           /\ r.attribute_value_state = q.attribute_value_state /\ r.buffer = q.buffer
           /\ r.doctype = q.doctype /\ r.declaration = q.declaration /\ r.keyword = q.keyword
           /\ r.ref = q.ref /\ r.again = q.again /\ r.out = q.out /\ r.ended = q.ended
           /\ r.failure = q.failure
<1>1. /\ DOMAIN r = Fields /\ r.comment
      /\ r.state = q.state /\ r.content = q.content /\ r.last = q.last /\ r.tag = q.tag
      /\ r.attribute_name = q.attribute_name /\ r.attribute = q.attribute
      /\ r.attribute_value_state = q.attribute_value_state /\ r.buffer = q.buffer
      /\ r.doctype = q.doctype /\ r.declaration = q.declaration /\ r.keyword = q.keyword
      /\ r.ref = q.ref /\ r.again = q.again /\ r.out = q.out /\ r.ended = q.ended
      /\ r.failure = q.failure
  BY DEF Alike, Typed, Fields, NewComment
<1>2. Typed(r)
  BY <1>1 DEF Alike, Typed, NewComment
<1>3. Stream(r) = Stream(q)
  BY <1>1 DEF Stream
<1> QED BY <1>1, <1>2, <1>3 DEF Alike

\* The characters of a declaration.
LEMMA Declared ==
    ASSUME NEW s, NEW q, Alike(s, q), NEW d \in Seq(Chars),
           NEW r, r = [q EXCEPT !.declaration = d]
    PROVE  /\ Alike(s, r) /\ r.declaration = d
           /\ r.state = q.state /\ r.content = q.content /\ r.last = q.last /\ r.tag = q.tag
           /\ r.attribute_name = q.attribute_name /\ r.attribute = q.attribute
           /\ r.attribute_value_state = q.attribute_value_state /\ r.buffer = q.buffer
           /\ r.comment = q.comment /\ r.doctype = q.doctype /\ r.keyword = q.keyword
           /\ r.ref = q.ref /\ r.again = q.again /\ r.out = q.out /\ r.ended = q.ended
           /\ r.failure = q.failure
<1>1. /\ DOMAIN r = Fields /\ r.declaration = d
      /\ r.state = q.state /\ r.content = q.content /\ r.last = q.last /\ r.tag = q.tag
      /\ r.attribute_name = q.attribute_name /\ r.attribute = q.attribute
      /\ r.attribute_value_state = q.attribute_value_state /\ r.buffer = q.buffer
      /\ r.comment = q.comment /\ r.doctype = q.doctype /\ r.keyword = q.keyword
      /\ r.ref = q.ref /\ r.again = q.again /\ r.out = q.out /\ r.ended = q.ended
      /\ r.failure = q.failure
  BY DEF Alike, Typed, Fields
<1>2. Typed(r)
  BY <1>1 DEF Alike, Typed
<1>3. Stream(r) = Stream(q)
  BY <1>1 DEF Stream
<1> QED BY <1>1, <1>2, <1>3 DEF Alike

\* The name of an attribute.
LEMMA AttributeNamed ==
    ASSUME NEW s, NEW q, Alike(s, q), NEW a \in Seq(Chars),
           NEW r, r = [q EXCEPT !.attribute_name = a]
    PROVE  /\ Alike(s, r) /\ r.attribute_name = a
           /\ r.state = q.state /\ r.content = q.content /\ r.last = q.last /\ r.tag = q.tag
           /\ r.attribute = q.attribute /\ r.attribute_value_state = q.attribute_value_state
           /\ r.buffer = q.buffer /\ r.comment = q.comment /\ r.doctype = q.doctype
           /\ r.declaration = q.declaration /\ r.keyword = q.keyword /\ r.ref = q.ref
           /\ r.again = q.again /\ r.out = q.out /\ r.ended = q.ended /\ r.failure = q.failure
<1>1. /\ DOMAIN r = Fields /\ r.attribute_name = a
      /\ r.state = q.state /\ r.content = q.content /\ r.last = q.last /\ r.tag = q.tag
      /\ r.attribute = q.attribute /\ r.attribute_value_state = q.attribute_value_state
      /\ r.buffer = q.buffer /\ r.comment = q.comment /\ r.doctype = q.doctype
      /\ r.declaration = q.declaration /\ r.keyword = q.keyword /\ r.ref = q.ref
      /\ r.again = q.again /\ r.out = q.out /\ r.ended = q.ended /\ r.failure = q.failure
  BY DEF Alike, Typed, Fields
<1>2. Typed(r)
  BY <1>1 DEF Alike, Typed
<1>3. Stream(r) = Stream(q)
  BY <1>1 DEF Stream
<1> QED BY <1>1, <1>2, <1>3 DEF Alike

\* A DOCTYPE.
LEMMA NewDoctype ==
    ASSUME NEW s, NEW q, Alike(s, q), NEW d, DOMAIN d = {"given", "public", "system"},
           NEW r, r = [q EXCEPT !.doctype = d]
    PROVE  /\ Alike(s, r) /\ r.doctype = d
           /\ r.state = q.state /\ r.content = q.content /\ r.last = q.last /\ r.tag = q.tag
           /\ r.attribute_name = q.attribute_name /\ r.attribute = q.attribute
           /\ r.attribute_value_state = q.attribute_value_state /\ r.buffer = q.buffer
           /\ r.comment = q.comment /\ r.declaration = q.declaration /\ r.keyword = q.keyword
           /\ r.ref = q.ref /\ r.again = q.again /\ r.out = q.out /\ r.ended = q.ended
           /\ r.failure = q.failure
<1>1. /\ DOMAIN r = Fields /\ r.doctype = d
      /\ r.state = q.state /\ r.content = q.content /\ r.last = q.last /\ r.tag = q.tag
      /\ r.attribute_name = q.attribute_name /\ r.attribute = q.attribute
      /\ r.attribute_value_state = q.attribute_value_state /\ r.buffer = q.buffer
      /\ r.comment = q.comment /\ r.declaration = q.declaration /\ r.keyword = q.keyword
      /\ r.ref = q.ref /\ r.again = q.again /\ r.out = q.out /\ r.ended = q.ended
      /\ r.failure = q.failure
  BY DEF Alike, Typed, Fields
<1>2. Typed(r)
  BY <1>1 DEF Alike, Typed
<1>3. Stream(r) = Stream(q)
  BY <1>1 DEF Stream
<1> QED BY <1>1, <1>2, <1>3 DEF Alike

\* The characters of a keyword.
LEMMA Keyword ==
    ASSUME NEW s, NEW q, Alike(s, q), NEW k \in Seq(Chars),
           NEW r, r = [q EXCEPT !.keyword = k]
    PROVE  /\ Alike(s, r) /\ r.keyword = k
           /\ r.state = q.state /\ r.content = q.content /\ r.last = q.last /\ r.tag = q.tag
           /\ r.attribute_name = q.attribute_name /\ r.attribute = q.attribute
           /\ r.attribute_value_state = q.attribute_value_state /\ r.buffer = q.buffer
           /\ r.comment = q.comment /\ r.doctype = q.doctype /\ r.declaration = q.declaration
           /\ r.ref = q.ref /\ r.again = q.again /\ r.out = q.out /\ r.ended = q.ended
           /\ r.failure = q.failure
<1>1. /\ DOMAIN r = Fields /\ r.keyword = k
      /\ r.state = q.state /\ r.content = q.content /\ r.last = q.last /\ r.tag = q.tag
      /\ r.attribute_name = q.attribute_name /\ r.attribute = q.attribute
      /\ r.attribute_value_state = q.attribute_value_state /\ r.buffer = q.buffer
      /\ r.comment = q.comment /\ r.doctype = q.doctype /\ r.declaration = q.declaration
      /\ r.ref = q.ref /\ r.again = q.again /\ r.out = q.out /\ r.ended = q.ended
      /\ r.failure = q.failure
  BY DEF Alike, Typed, Fields
<1>2. Typed(r)
  BY <1>1 DEF Alike, Typed
<1>3. Stream(r) = Stream(q)
  BY <1>1 DEF Stream
<1> QED BY <1>1, <1>2, <1>3 DEF Alike

-------------------------------------------------------------------------------
(* How a handler ends.                                                         *)

\* A state that may be entered.
Enters(s, q, Y) ==
    /\ Alike(s, q) /\ Fit(q, Y) /\ Y # q.state
    /\ Y # "character_reference_in_attribute_value_state" /\ q.state # "attribute_name_state"

\* The character is done with.
LEMMA StayKept ==
    ASSUME NEW s, NEW c, Ready(s, c), c # "EOF", NEW q, Alike(s, q), Fit(q, q.state)
    PROVE  Kept(s, c, q)
BY Staying, MovedKept DEF Ready

LEMMA SwitchKept ==
    ASSUME NEW s, NEW c, Ready(s, c), c # "EOF", NEW q, NEW Y, Enters(s, q, Y)
    PROVE  Kept(s, c, SwitchToState(q, Y))
BY Switching, MovedKept DEF Ready, Enters

LEMMA GiveKept ==
    ASSUME NEW s, NEW c, Ready(s, c), c # "EOF", NEW q, Alike(s, q), Fit(q, q.state),
           NEW cs \in Seq(Chars)
    PROVE  Kept(s, c, EmitCharacters(q, cs))
BY Giving, MovedKept DEF Ready

\* Characters are given in the new state.
LEMMA SwitchGiveMoved ==
    ASSUME NEW s, NEW c, Ready(s, c), NEW q, NEW Y, Enters(s, q, Y), NEW cs \in Seq(Chars)
    PROVE  Moved(s, EmitCharacters(SwitchToState(q, Y), cs))
<1>1. PICK t : t = SwitchToState(q, Y)
  OBVIOUS
<1>2. Going(s) /\ Alike(s, t) /\ t.state = Y /\ Fit(t, Y)
  BY <1>1, Switching DEF Ready, Enters
<1> QED BY <1>1, <1>2, Giving

LEMMA SwitchGiveKept ==
    ASSUME NEW s, NEW c, Ready(s, c), NEW q, NEW Y, Enters(s, q, Y), NEW cs \in Seq(Chars)
    PROVE  /\ c # "EOF" => Kept(s, c, EmitCharacters(SwitchToState(q, Y), cs))
           /\ Kept(s, c, Again(EmitCharacters(SwitchToState(q, Y), cs), c))
BY SwitchGiveMoved, MovedKept, AgainKept

\* The character is read again in the new state.
LEMMA ReadAgainKept ==
    ASSUME NEW s, NEW c, Ready(s, c), NEW q, NEW Y, Enters(s, q, Y)
    PROVE  Kept(s, c, ReadAgain(q, Y, c))
<1>1. Moved(s, SwitchToState(q, Y))
  BY Switching DEF Ready, Enters
<1> QED BY <1>1, AgainKept DEF ReadAgain

LEMMA GiveReadAgainKept ==
    ASSUME NEW s, NEW c, Ready(s, c), NEW Y, Enters(s, s, Y), NEW cs \in Seq(Chars)
    PROVE  Kept(s, c, ReadAgain(EmitCharacters(s, cs), Y, c))
<1>1. PICK e : e = EmitCharacters(s, cs)
  OBVIOUS
<1>2. Alike(s, e) /\ e.state = s.state /\ Fit(e, Y)
  BY <1>1, Giving DEF Ready, Enters
<1>3. Enters(s, e, Y)
  BY <1>2 DEF Enters
<1> QED BY <1>1, <1>3, ReadAgainKept

\* A state that others go to and that stays.
LEMMA StayInGiveKept ==
    ASSUME NEW s, NEW c, Ready(s, c), c # "EOF", NEW Y, Fit(s, Y),
           Y # "character_reference_in_attribute_value_state", s.state # "attribute_name_state",
           NEW cs \in Seq(Chars)
    PROVE  Kept(s, c, EmitCharacters(StayIn(s, Y), cs)) /\ Kept(s, c, StayIn(s, Y))
<1>1. Alike(s, s)
  BY AlikeSelf DEF Ready
<1>2. CASE Y = s.state
  BY <1>1, <1>2, GiveKept, StayKept DEF StayIn
<1>3. CASE Y # s.state
  <2>1. Enters(s, s, Y)
    BY <1>1, <1>3 DEF Enters
  <2>2. StayIn(s, Y) = SwitchToState(s, Y)
    BY <1>3 DEF StayIn
  <2> QED BY <2>1, <2>2, SwitchKept, SwitchGiveKept
<1> QED BY <1>2, <1>3

\* Characters that handlers give.
LEMMA Literals ==
    /\ <<>> \in Seq(Chars) /\ <<"<">> \in Seq(Chars) /\ <<"<", "/">> \in Seq(Chars)
    /\ <<"<", "!">> \in Seq(Chars) /\ <<"]">> \in Seq(Chars) /\ <<"]", "]">> \in Seq(Chars)
<1>1. <<>> \in Seq(Chars)
  OBVIOUS
<1>2. <<"<">> \in Seq(Chars)
  BY DEF Chars
<1>3. <<"<", "/">> \in Seq(Chars)
  BY DEF Chars
<1>4. <<"<", "!">> \in Seq(Chars)
  BY DEF Chars
<1>5. <<"]">> \in Seq(Chars) /\ <<"]", "]">> \in Seq(Chars)
  BY DEF Chars
<1> QED BY <1>1, <1>2, <1>3, <1>4, <1>5

-------------------------------------------------------------------------------
(* Text.                                                                       *)

LEMMA DataRead ==
    ASSUME NEW s, NEW c, Ready(s, c), s.state = "data_state"
    PROVE  Kept(s, c, data_state(s, c))
<1>1. CASE c = "EOF"
  BY <1>1, Ended DEF data_state
<1>2. CASE c # "EOF"
  <2>1. s.content = "data"
    BY <1>2 DEF Ready, Fit, BetweenStates, AttributeStates, ValueStates, CommentStates,
           DeclarationStates, DoctypeStates, PublicStates, SystemStates, PlainRCDATAStates,
           PlainRAWTEXTStates, PlainScriptStates, ScriptEndTagStates
  <2>2. Alike(s, s) /\ c \in Chars
    BY AlikeSelf DEF Ready
  <2>3. CASE c = "&"
    <3>1. PICK q : q = [s EXCEPT !.ref = Referred]
      OBVIOUS
    <3>2. Alike(s, q) /\ InReferenceFrame(q) /\ q.state = s.state /\ q.content = s.content
      BY <2>2, <3>1, NewReference
    <3>3. Enters(s, q, "character_reference_in_data_state")
      BY <2>1, <3>2 DEF Enters, Fit
    <3>4. Kept(s, c, SwitchToState(q, "character_reference_in_data_state"))
      BY <1>2, <3>3, SwitchKept
    <3> QED BY <2>3, <3>1, <3>4 DEF data_state
  <2>4. CASE c = "<"
    <3>1. Enters(s, s, "tag_open_state")
      BY <2>1, <2>2 DEF Enters, Fit, PlainStates
    <3> QED BY <1>2, <2>4, <3>1, SwitchKept DEF data_state
  <2>5. CASE c \notin {"&", "<"}
    <3>1. Fit(s, s.state)
      BY <2>1 DEF Fit, PlainStates
    <3>2. <<c>> \in Seq(Chars)
      BY <2>2
    <3>3. data_state(s, c) = EmitCharacters(s, <<c>>)
      BY <1>2, <2>5 DEF data_state, EmitCharacter
    <3> QED BY <1>2, <2>2, <3>1, <3>2, <3>3, GiveKept
  <2> QED BY <2>3, <2>4, <2>5
<1> QED BY <1>1, <1>2

-------------------------------------------------------------------------------
(* What is known in a state.                                                   *)

USE DEF PlainStates, BetweenStates, ValueStates, AttributeStates, CommentStates,
        DeclarationStates, DoctypeStates, PublicStates, SystemStates, PlainRCDATAStates,
        PlainRAWTEXTStates, PlainScriptStates, ScriptEndTagStates

LEMMA FittedData ==
    ASSUME NEW s, Fit(s, s.state)
    PROVE  /\ s.state \in PlainStates \cup {"tag_name_state", "character_reference_in_data_state"}
                => s.content = "data"
           /\ s.state = "tag_name_state" => InTag(s)
           /\ s.state = "character_reference_in_data_state" => InReferenceFrame(s)
           /\ s.state \in CommentStates \cup {"bogus_comment_state"}
                => s.content = "data" /\ s.comment
           /\ s.state \in DeclarationStates => s.content = "data" /\ NoEof(s.declaration)
<1>1. s.state \in PlainStates => s.content = "data"
  BY DEF Fit
<1>2. s.state = "tag_name_state" => s.content = "data" /\ InTag(s)
  BY DEF Fit, InTag
<1>3. s.state = "character_reference_in_data_state" => s.content = "data" /\ InReferenceFrame(s)
  BY DEF Fit
<1>4. s.state \in CommentStates \cup {"bogus_comment_state"} => s.content = "data" /\ s.comment
  BY DEF Fit
<1>5. s.state \in DeclarationStates => s.content = "data" /\ NoEof(s.declaration)
  BY DEF Fit
<1> QED BY <1>1, <1>2, <1>3, <1>4, <1>5

LEMMA FittedTag ==
    ASSUME NEW s, Fit(s, s.state)
    PROVE  /\ s.state \in BetweenStates => InTag(s)
           /\ s.state = "attribute_name_state" => InTag(s) /\ s.attribute_name # <<>>
           /\ s.state \in AttributeStates => InTag(s) /\ s.attribute \in s.tag.attributes
<1>1. s.state \in BetweenStates => InTag(s)
  BY DEF Fit
<1>2. s.state = "attribute_name_state" => InTag(s) /\ s.attribute_name # <<>>
  BY DEF Fit
<1>3. s.state \in AttributeStates => InTag(s) /\ s.attribute \in s.tag.attributes
  BY DEF Fit
<1> QED BY <1>1, <1>2, <1>3

LEMMA FittedDoctype ==
    ASSUME NEW s, Fit(s, s.state)
    PROVE  /\ s.state \in DoctypeStates \cup PublicStates \cup SystemStates
                \cup {"after_doctype_name_2_state"} => s.content = "data" /\ s.doctype.given
           /\ s.state = "after_doctype_name_2_state" => NoEof(s.keyword)
           /\ s.state \in PublicStates => s.doctype.public
           /\ s.state \in SystemStates => s.doctype.system
<1>1. s.state \in DoctypeStates => s.content = "data" /\ s.doctype.given
  BY DEF Fit
<1>2. s.state \in PublicStates => s.content = "data" /\ s.doctype.given /\ s.doctype.public
  BY DEF Fit
<1>3. s.state \in SystemStates => s.content = "data" /\ s.doctype.given /\ s.doctype.system
  BY DEF Fit
<1>4. s.state = "after_doctype_name_2_state"
        => s.content = "data" /\ s.doctype.given /\ NoEof(s.keyword)
  BY DEF Fit
<1> QED BY <1>1, <1>2, <1>3, <1>4

LEMMA FittedText ==
    ASSUME NEW s, Fit(s, s.state)
    PROVE  /\ s.state \in PlainRCDATAStates \cup {"RCDATA_end_tag_name_state",
                             "character_reference_in_RCDATA_state"} => s.content = "RCDATA"
           /\ s.state = "RCDATA_end_tag_open_state" => s.content = "RCDATA" /\ s.buffer = <<>>
           /\ s.state = "RAWTEXT_end_tag_open_state" => s.content = "RAWTEXT" /\ s.buffer = <<>>
           /\ s.state = "script_data_end_tag_open_state"
                => s.content = "script_data" /\ s.buffer = <<>>
           /\ s.state = "character_reference_in_RCDATA_state" => InReferenceFrame(s)
           /\ s.state \in PlainRAWTEXTStates \cup {"RAWTEXT_end_tag_name_state"}
                => s.content = "RAWTEXT"
           /\ s.state \in PlainScriptStates \cup ScriptEndTagStates => s.content = "script_data"
           /\ s.state \in {"RCDATA_end_tag_name_state", "RAWTEXT_end_tag_name_state"}
                \cup ScriptEndTagStates => s.tag.type = "end"
           /\ s.state = "PLAINTEXT_state" => s.content = "PLAINTEXT"
<1>1. s.state \in PlainRCDATAStates => s.content = "RCDATA"
  BY DEF Fit
<1>2. s.state = "RCDATA_end_tag_name_state" => s.content = "RCDATA" /\ s.tag.type = "end"
  BY DEF Fit
<1>3. s.state = "character_reference_in_RCDATA_state" => s.content = "RCDATA" /\ InReferenceFrame(s)
  BY DEF Fit
<1>4. s.state \in PlainRAWTEXTStates => s.content = "RAWTEXT"
  BY DEF Fit
<1>5. s.state = "RAWTEXT_end_tag_name_state" => s.content = "RAWTEXT" /\ s.tag.type = "end"
  BY DEF Fit
<1>6. s.state \in PlainScriptStates => s.content = "script_data"
  BY DEF Fit
<1>7. s.state \in ScriptEndTagStates => s.content = "script_data" /\ s.tag.type = "end"
  BY DEF Fit
<1>8. s.state = "PLAINTEXT_state" => s.content = "PLAINTEXT"
  BY DEF Fit
<1>9. /\ s.state = "RCDATA_end_tag_open_state" => s.content = "RCDATA" /\ s.buffer = <<>>
      /\ s.state = "RAWTEXT_end_tag_open_state" => s.content = "RAWTEXT" /\ s.buffer = <<>>
      /\ s.state = "script_data_end_tag_open_state" => s.content = "script_data" /\ s.buffer = <<>>
  BY DEF Fit
<1> QED BY <1>1, <1>2, <1>3, <1>4, <1>5, <1>6, <1>7, <1>8, <1>9

HIDE DEF PlainStates, BetweenStates, ValueStates, AttributeStates, CommentStates,
         DeclarationStates, DoctypeStates, PublicStates, SystemStates, PlainRCDATAStates,
         PlainRAWTEXTStates, PlainScriptStates, ScriptEndTagStates

-------------------------------------------------------------------------------
(* Text elements.                                                              *)

LEMMA RCDATARead ==
    ASSUME NEW s, NEW c, Ready(s, c), s.state = "RCDATA_state"
    PROVE  Kept(s, c, RCDATA_state(s, c))
<1>1. s.content = "RCDATA" /\ Alike(s, s) /\ c \in Chars
  BY FittedText, AlikeSelf DEF Ready, PlainRCDATAStates
<1>2. CASE c = "EOF"
  BY <1>2, Ended DEF RCDATA_state
<1>3. CASE c = "&"
  <2>1. PICK q : q = [s EXCEPT !.ref = Referred]
    OBVIOUS
  <2>2. Alike(s, q) /\ InReferenceFrame(q) /\ q.state = s.state /\ q.content = s.content
    BY <1>1, <2>1, NewReference
  <2>3. Enters(s, q, "character_reference_in_RCDATA_state")
    BY <1>1, <2>2 DEF Enters, Fit
  <2>4. Kept(s, c, SwitchToState(q, "character_reference_in_RCDATA_state"))
    BY <1>3, <2>3, SwitchKept
  <2> QED BY <1>3, <2>1, <2>4 DEF RCDATA_state
<1>4. CASE c = "<"
  <2>1. Enters(s, s, "RCDATA_less_than_sign_state")
    BY <1>1 DEF Enters, Fit, PlainRCDATAStates
  <2> QED BY <1>4, <2>1, SwitchKept DEF RCDATA_state
<1>5. CASE c \notin {"EOF", "&", "<"}
  <2>1. Fit(s, s.state)
    BY <1>1 DEF Fit, PlainRCDATAStates
  <2>2. <<Shown(c)>> \in Seq(Chars)
    BY <1>1, Alphabet
  <2>3. RCDATA_state(s, c) = EmitCharacters(s, <<Shown(c)>>)
    BY <1>5 DEF RCDATA_state, EmitCharacter
  <2> QED BY <1>1, <1>5, <2>1, <2>2, <2>3, GiveKept
<1> QED BY <1>2, <1>3, <1>4, <1>5

\* Text without markup.
LEMMA PlainTextRead ==
    ASSUME NEW s, NEW c, Ready(s, c),
           s.state \in {"PLAINTEXT_state", "RAWTEXT_state", "script_data_state"}
    PROVE  Kept(s, c, PlainText(s, c))
<1>1. Fit(s, s.state) /\ Alike(s, s) /\ c \in Chars
  BY AlikeSelf DEF Ready
<1>2. CASE c = "EOF"
  BY <1>2, Ended DEF PlainText
<1>3. CASE c # "EOF"
  <2>1. <<Shown(c)>> \in Seq(Chars)
    BY <1>1, Alphabet
  <2>2. PlainText(s, c) = EmitCharacters(s, <<Shown(c)>>)
    BY <1>3 DEF PlainText, EmitCharacter
  <2> QED BY <1>1, <1>3, <2>1, <2>2, GiveKept
<1> QED BY <1>2, <1>3

LEMMA RawTextRead ==
    ASSUME NEW s, NEW c, Ready(s, c), s.state \in {"RAWTEXT_state", "script_data_state"}
    PROVE  Kept(s, c, RawText(s, c))
<1>1. CASE c # "<"
  BY <1>1, PlainTextRead DEF RawText
<1>2. CASE c = "<" /\ s.state = "RAWTEXT_state"
  <2>1. s.content = "RAWTEXT" /\ Alike(s, s)
    BY <1>2, FittedText, AlikeSelf DEF Ready, PlainRAWTEXTStates
  <2>2. Enters(s, s, "RAWTEXT_less_than_sign_state")
    BY <1>2, <2>1 DEF Enters, Fit, PlainRAWTEXTStates
  <2> QED BY <1>2, <2>2, SwitchKept DEF RawText
<1>3. CASE c = "<" /\ s.state = "script_data_state"
  <2>1. s.content = "script_data" /\ Alike(s, s)
    BY <1>3, FittedText, AlikeSelf DEF Ready, PlainScriptStates
  <2>2. Enters(s, s, "script_data_less_than_sign_state")
    BY <1>3, <2>1 DEF Enters, Fit, PlainScriptStates
  <2> QED BY <1>3, <2>2, SwitchKept DEF RawText
<1> QED BY <1>1, <1>2, <1>3

\* The end tags of text elements.
EndTags(content, text, open, name) ==
    \/ /\ content = "RCDATA" /\ text = "RCDATA_state"
       /\ open = "RCDATA_end_tag_open_state" /\ name = "RCDATA_end_tag_name_state"
    \/ /\ content = "RAWTEXT" /\ text = "RAWTEXT_state"
       /\ open = "RAWTEXT_end_tag_open_state" /\ name = "RAWTEXT_end_tag_name_state"
    \/ /\ content = "script_data" /\ text = "script_data_state"
       /\ open = "script_data_end_tag_open_state" /\ name = "script_data_end_tag_name_state"
    \/ /\ content = "script_data" /\ text = "script_data_escaped_state"
       /\ open = "script_data_escaped_end_tag_open_state"
       /\ name = "script_data_escaped_end_tag_name_state"

LEMMA EndTagFits ==
    ASSUME NEW content, NEW text, NEW open, NEW name, EndTags(content, text, open, name),
           NEW r, r.content = content
    PROVE  Fit(r, text) /\ (r.buffer = <<>> => Fit(r, open)) /\ (r.tag.type = "end" => Fit(r, name))
<1>1. CASE content = "RCDATA"
  BY <1>1 DEF EndTags, Fit, PlainRCDATAStates
<1>2. CASE content = "RAWTEXT"
  BY <1>2 DEF EndTags, Fit, PlainRAWTEXTStates
<1>3. CASE content = "script_data"
  BY <1>3 DEF EndTags, Fit, PlainScriptStates, ScriptEndTagStates
<1> QED BY <1>1, <1>2, <1>3 DEF EndTags

LEMMA EndTagStates ==
    ASSUME NEW content, NEW text, NEW open, NEW name, EndTags(content, text, open, name)
    PROVE  /\ text # open /\ open # name /\ text # name
           /\ {text, open, name} \cap {"data_state", "attribute_name_state", "tag_name_state",
                  "character_reference_in_attribute_value_state", "before_attribute_name_state",
                  "self_closing_start_tag_state"} = {}
           /\ content \notin {"data", "PLAINTEXT"}
BY DEF EndTags

LEMMA LessThanRead ==
    ASSUME NEW content, NEW text, NEW open, NEW name, EndTags(content, text, open, name),
           NEW s, NEW c, Ready(s, c), s.content = content,
           s.state \notin {text, open, "attribute_name_state"}
    PROVE  Kept(s, c, LessThanSign(s, c, text, open))
<1>1. Alike(s, s) /\ c \in Chars
  BY AlikeSelf DEF Ready
<1>2. CASE c = "/"
  <2>1. PICK q : q = [s EXCEPT !.buffer = <<>>]
    OBVIOUS
  <2>2. Alike(s, q) /\ q.state = s.state /\ q.content = s.content /\ q.buffer = <<>>
    BY <1>1, <2>1, EmptyBuffer
  <2>3. Enters(s, q, open)
    BY <2>2, EndTagFits, EndTagStates DEF Enters
  <2>4. c # "EOF"
    BY <1>2
  <2>5. Kept(s, c, SwitchToState(q, open))
    BY <2>3, <2>4, SwitchKept
  <2> QED BY <1>2, <2>1, <2>5 DEF LessThanSign
<1>3. CASE c # "/"
  <2>1. Enters(s, s, text)
    BY <1>1, EndTagFits, EndTagStates DEF Enters
  <2>2. LessThanSign(s, c, text, open) = Again(EmitCharacters(SwitchToState(s, text), <<"<">>), c)
    BY <1>3 DEF LessThanSign, EmitCharacter
  <2> QED BY <2>1, <2>2, Literals, SwitchGiveKept
<1> QED BY <1>2, <1>3

LEMMA EndTagOpenRead ==
    ASSUME NEW content, NEW text, NEW open, NEW name, EndTags(content, text, open, name),
           NEW s, NEW c, Ready(s, c), s.content = content, s.state = open
    PROVE  Kept(s, c, EndTagOpen(s, c, text, name))
<1>1. Alike(s, s) /\ c \in Chars
  BY AlikeSelf DEF Ready
<1>2. CASE c \in Letters
  <2>1. PICK t : t = NewTag(s, "end", c)
    OBVIOUS
  <2>2. Alike(s, t) /\ t.tag.type = "end" /\ t.state = s.state /\ t.content = s.content
    BY <1>1, <2>1, Tagged
  <2>3. PICK b : b = Append(t.buffer, c)
    OBVIOUS
  <2>4. b \in Seq(Chars)
    BY <1>1, <2>2, <2>3 DEF Alike, Typed
  <2>5. PICK q : q = [t EXCEPT !.buffer = b]
    OBVIOUS
  <2>6. Alike(s, q) /\ q.tag.type = "end" /\ q.state = s.state /\ q.content = s.content
    BY <2>2, <2>4, <2>5, NewBuffer
  <2>7. Enters(s, q, name)
    BY <2>6, EndTagFits, EndTagStates DEF Enters
  <2>8. c # "EOF"
    BY <1>2, Alphabet DEF LowerLetters
  <2>9. EndTagOpen(s, c, text, name) = SwitchToState(q, name)
    BY <1>2, <2>1, <2>3, <2>5 DEF EndTagOpen
  <2> QED BY <2>7, <2>8, <2>9, SwitchKept
<1>3. CASE c \notin Letters
  <2>1. Enters(s, s, text)
    BY <1>1, EndTagFits, EndTagStates DEF Enters
  <2>2. EndTagOpen(s, c, text, name) = Again(EmitCharacters(SwitchToState(s, text), <<"<", "/">>), c)
    BY <1>3 DEF EndTagOpen
  <2> QED BY <2>1, <2>2, Literals, SwitchGiveKept
<1> QED BY <1>2, <1>3

LEMMA EndTagNameRead ==
    ASSUME NEW content, NEW text, NEW open, NEW name, EndTags(content, text, open, name),
           NEW s, NEW c, Ready(s, c), s.content = content, s.state = name, s.tag.type = "end"
    PROVE  Kept(s, c, EndTagName(s, c, text))
<1>1. Alike(s, s) /\ c \in Chars /\ Going(s) /\ s.tag # NoTag
  BY AlikeSelf DEF Ready, NoTag
<1>2. CASE c \in Letters
  <2>1. PICK t : t = NameGrows(s, Lower(c))
    OBVIOUS
  <2>2. Alike(s, t) /\ t.tag.type = "end" /\ t.state = s.state /\ t.content = s.content
    BY <1>1, <2>1, Named
  <2>3. PICK b : b = Append(t.buffer, c)
    OBVIOUS
  <2>4. b \in Seq(Chars)
    BY <1>1, <2>2, <2>3 DEF Alike, Typed
  <2>5. PICK q : q = [t EXCEPT !.buffer = b]
    OBVIOUS
  <2>6. Alike(s, q) /\ q.tag.type = "end" /\ q.state = s.state /\ q.content = s.content
    BY <2>2, <2>4, <2>5, NewBuffer
  <2>7. Fit(q, q.state)
    BY <2>6, EndTagFits
  <2>8. c # "EOF"
    BY <1>2, Alphabet DEF LowerLetters
  <2>9. EndTagName(s, c, text) = q
    BY <1>2, <2>1, <2>3, <2>5, Alphabet DEF EndTagName, LowerLetters, Space
  <2> QED BY <2>6, <2>7, <2>8, <2>9, StayKept
<1>3. CASE c \notin Letters /\ IsAppropriate(s) /\ c \in Space \cup {"/", ">"}
  <2>1. InTag(s)
    BY <1>3, EndTagStates DEF InTag
  <2>2. c # "EOF"
    BY <1>3 DEF Space
  <2>3. CASE c \in Space
    <3>1. Enters(s, s, "before_attribute_name_state")
      BY <1>1, <2>1, EndTagStates DEF Enters, Fit, BetweenStates
    <3>2. EndTagName(s, c, text) = SwitchToState(s, "before_attribute_name_state")
      BY <1>3, <2>3 DEF EndTagName, Space
    <3> QED BY <2>2, <3>1, <3>2, SwitchKept
  <2>4. CASE c = "/"
    <3>1. Enters(s, s, "self_closing_start_tag_state")
      BY <1>1, <2>1, EndTagStates DEF Enters, Fit, BetweenStates
    <3>2. EndTagName(s, c, text) = SwitchToState(s, "self_closing_start_tag_state")
      BY <1>3, <2>4 DEF EndTagName, Space
    <3> QED BY <2>2, <3>1, <3>2, SwitchKept
  <2>5. CASE c = ">"
    <3>1. Moved(s, EndTag(s))
      <4>1. s.state # "data_state" /\ s.state # "attribute_name_state"
        BY EndTagStates
      <4> QED BY <1>1, <2>1, <4>1, TagGiven
    <3>2. EndTagName(s, c, text) = EndTag(s)
      BY <1>3, <2>5 DEF EndTagName, Space
    <3> QED BY <2>2, <3>1, <3>2, MovedKept
  <2> QED BY <1>3, <2>3, <2>4, <2>5
<1>4. CASE c \notin Letters /\ ~ (IsAppropriate(s) /\ c \in Space \cup {"/", ">"})
  <2>1. Enters(s, s, text)
    BY <1>1, EndTagFits, EndTagStates DEF Enters
  <2>2. PICK cs : cs = <<"<", "/">> \o s.buffer
    OBVIOUS
  <2>3. cs \in Seq(Chars)
    BY <1>1, <2>2, Literals DEF Going, Typed
  <2>4. EndTagName(s, c, text) = Again(EmitCharacters(SwitchToState(s, text), cs), c)
    BY <1>4, <2>2 DEF EndTagName
  <2> QED BY <2>1, <2>3, <2>4, SwitchGiveKept
<1> QED BY <1>2, <1>3, <1>4

LEMMA RCDATAEndTagRead ==
    ASSUME NEW s, NEW c, Ready(s, c), s.state \in RCDATATagStates
    PROVE  Kept(s, c, RCDATA_end_tag(s, c))
<1>1. EndTags("RCDATA", "RCDATA_state", "RCDATA_end_tag_open_state", "RCDATA_end_tag_name_state")
  BY DEF EndTags
<1>2. Fit(s, s.state)
  BY DEF Ready, RCDATATagStates
<1>3. s.content = "RCDATA" /\ (s.state = "RCDATA_end_tag_name_state" => s.tag.type = "end")
  BY <1>2, FittedText DEF RCDATATagStates, PlainRCDATAStates
<1>4. CASE s.state = "RCDATA_less_than_sign_state"
  BY <1>1, <1>3, <1>4, LessThanRead DEF RCDATA_end_tag
<1>5. CASE s.state = "RCDATA_end_tag_open_state"
  BY <1>1, <1>3, <1>5, EndTagOpenRead DEF RCDATA_end_tag
<1>6. CASE s.state = "RCDATA_end_tag_name_state"
  BY <1>1, <1>3, <1>6, EndTagNameRead DEF RCDATA_end_tag
<1> QED BY <1>4, <1>5, <1>6 DEF RCDATATagStates

LEMMA RAWTEXTEndTagRead ==
    ASSUME NEW s, NEW c, Ready(s, c), s.state \in RAWTEXTTagStates
    PROVE  Kept(s, c, RAWTEXT_end_tag(s, c))
<1>1. EndTags("RAWTEXT", "RAWTEXT_state", "RAWTEXT_end_tag_open_state",
              "RAWTEXT_end_tag_name_state")
  BY DEF EndTags
<1>2. Fit(s, s.state)
  BY DEF Ready, RAWTEXTTagStates
<1>3. s.content = "RAWTEXT" /\ (s.state = "RAWTEXT_end_tag_name_state" => s.tag.type = "end")
  BY <1>2, FittedText DEF RAWTEXTTagStates, PlainRAWTEXTStates
<1>4. CASE s.state = "RAWTEXT_less_than_sign_state"
  BY <1>1, <1>3, <1>4, LessThanRead DEF RAWTEXT_end_tag
<1>5. CASE s.state = "RAWTEXT_end_tag_open_state"
  BY <1>1, <1>3, <1>5, EndTagOpenRead DEF RAWTEXT_end_tag
<1>6. CASE s.state = "RAWTEXT_end_tag_name_state"
  BY <1>1, <1>3, <1>6, EndTagNameRead DEF RAWTEXT_end_tag
<1> QED BY <1>4, <1>5, <1>6 DEF RAWTEXTTagStates

LEMMA ScriptEndTagRead ==
    ASSUME NEW s, NEW c, Ready(s, c), s.state \in ScriptTagStates
    PROVE  Kept(s, c, script_data_end_tag(s, c))
<1>1. EndTags("script_data", "script_data_state", "script_data_end_tag_open_state",
              "script_data_end_tag_name_state")
  BY DEF EndTags
<1>2. Fit(s, s.state) /\ Alike(s, s)
  BY AlikeSelf DEF Ready, ScriptTagStates
<1>3. /\ s.content = "script_data"
      /\ s.state = "script_data_end_tag_name_state" => s.tag.type = "end"
  BY <1>2, FittedText DEF ScriptTagStates, PlainScriptStates, ScriptEndTagStates
<1>4. CASE s.state = "script_data_less_than_sign_state" /\ c # "!"
  BY <1>1, <1>3, <1>4, LessThanRead DEF script_data_end_tag
<1>5. CASE s.state = "script_data_less_than_sign_state" /\ c = "!"
  <2>1. Enters(s, s, "script_data_escape_start_state")
    BY <1>2, <1>3, <1>5 DEF Enters, Fit, PlainScriptStates
  <2>2. script_data_end_tag(s, c)
          = EmitCharacters(SwitchToState(s, "script_data_escape_start_state"), <<"<", "!">>)
    BY <1>5 DEF script_data_end_tag
  <2> QED BY <1>5, <2>1, <2>2, Literals, SwitchGiveKept
<1>6. CASE s.state = "script_data_end_tag_open_state"
  BY <1>1, <1>3, <1>6, EndTagOpenRead DEF script_data_end_tag
<1>7. CASE s.state = "script_data_end_tag_name_state"
  BY <1>1, <1>3, <1>7, EndTagNameRead DEF script_data_end_tag
<1> QED BY <1>4, <1>5, <1>6, <1>7 DEF ScriptTagStates

-------------------------------------------------------------------------------
(* Scripts.                                                                    *)

\* A state of a script may go to any other but those that read the name of an end tag.
LEMMA ScriptFits ==
    ASSUME NEW s, NEW q, Alike(s, q), q.content = "script_data",
           q.state \in PlainScriptStates, NEW Y \in PlainScriptStates
    PROVE  Fit(q, Y) /\ (Y # q.state => Enters(s, q, Y))
<1>1. Fit(q, Y)
  BY DEF Fit
<1>2. /\ Y # "character_reference_in_attribute_value_state" /\ q.state # "attribute_name_state"
  BY DEF PlainScriptStates
<1> QED BY <1>1, <1>2 DEF Enters

LEMMA InScript ==
    ASSUME NEW s, NEW c, Ready(s, c), s.state \in PlainScriptStates
    PROVE  /\ Alike(s, s) /\ Going(s) /\ c \in Chars /\ Fit(s, s.state)
           /\ s.content = "script_data" /\ s.state \notin {"data_state", "attribute_name_state"}
           /\ <<c>> \in Seq(Chars) /\ <<Shown(c)>> \in Seq(Chars)
<1>1. Fit(s, s.state) /\ s.state \notin {"data_state", "attribute_name_state"}
  BY DEF Ready, PlainScriptStates
<1> QED BY <1>1, FittedText, AlikeSelf, Alphabet DEF Ready

LEMMA EscapeStartRead ==
    ASSUME NEW s, NEW c, Ready(s, c),
           s.state \in {"script_data_escape_start_state", "script_data_escape_start_dash_state"}
    PROVE  Kept(s, c, script_data_escape_start(s, c))
<1>1. s.state \in PlainScriptStates
  BY DEF PlainScriptStates
<1>2. PICK Y : Y = IF s.state = "script_data_escape_start_state"
                   THEN "script_data_escape_start_dash_state"
                   ELSE "script_data_escaped_dash_dash_state"
  OBVIOUS
<1>3. Y \in PlainScriptStates /\ Y # s.state
  BY <1>2 DEF PlainScriptStates
<1>4. "script_data_state" \in PlainScriptStates /\ "script_data_state" # s.state
  BY DEF PlainScriptStates
<1>5. Enters(s, s, Y) /\ Enters(s, s, "script_data_state")
  BY <1>1, <1>3, <1>4, InScript, ScriptFits
<1>6. CASE c = "-"
  <2>1. script_data_escape_start(s, c) = EmitCharacters(SwitchToState(s, Y), <<c>>)
    BY <1>2, <1>6 DEF script_data_escape_start, EmitCharacter
  <2> QED BY <1>1, <1>5, <1>6, <2>1, InScript, SwitchGiveKept
<1>7. CASE c # "-"
  <2>1. script_data_escape_start(s, c) = ReadAgain(s, "script_data_state", c)
    BY <1>7 DEF script_data_escape_start
  <2> QED BY <1>5, <2>1, ReadAgainKept
<1> QED BY <1>6, <1>7

LEMMA EscapedRead ==
    ASSUME NEW s, NEW c, Ready(s, c), s.state \in EscapedStates
    PROVE  Kept(s, c, script_data_escaped(s, c))
<1>1. s.state \in PlainScriptStates
  BY DEF PlainScriptStates, EscapedStates
<1>2. /\ Alike(s, s) /\ Fit(s, s.state) /\ s.content = "script_data"
      /\ s.state \notin {"data_state", "attribute_name_state"}
      /\ <<c>> \in Seq(Chars) /\ <<Shown(c)>> \in Seq(Chars)
  BY <1>1, InScript
<1>3. CASE c = "-"
  <2>1. PICK Y : Y = AfterDash[s.state]
    OBVIOUS
  <2>2. Y \in {"script_data_escaped_dash_state", "script_data_escaped_dash_dash_state"}
    BY <2>1 DEF AfterDash, EscapedStates
  <2>3. Fit(s, Y) /\ Y # "character_reference_in_attribute_value_state"
    BY <1>1, <1>2, <2>2, ScriptFits DEF PlainScriptStates
  <2>4. script_data_escaped(s, c) = EmitCharacters(StayIn(s, Y), <<c>>)
    BY <1>3, <2>1 DEF script_data_escaped, EmitCharacter
  <2> QED BY <1>2, <1>3, <2>3, <2>4, StayInGiveKept
<1>4. CASE c = "<"
  <2>1. Enters(s, s, "script_data_escaped_less_than_sign_state")
    BY <1>1, <1>2, ScriptFits DEF PlainScriptStates, EscapedStates
  <2>2. script_data_escaped(s, c) = SwitchToState(s, "script_data_escaped_less_than_sign_state")
    BY <1>4 DEF script_data_escaped
  <2> QED BY <1>4, <2>1, <2>2, SwitchKept
<1>5. CASE c = ">" /\ s.state = "script_data_escaped_dash_dash_state"
  <2>1. Enters(s, s, "script_data_state")
    BY <1>1, <1>2, <1>5, ScriptFits DEF PlainScriptStates
  <2>2. script_data_escaped(s, c) = EmitCharacters(SwitchToState(s, "script_data_state"), <<c>>)
    BY <1>5 DEF script_data_escaped, EmitCharacter
  <2> QED BY <1>2, <1>5, <2>1, <2>2, SwitchGiveKept
<1>6. CASE c = "EOF"
  <2>1. script_data_escaped(s, c) = Abandon(s)
    BY <1>6 DEF script_data_escaped
  <2> QED BY <1>2, <1>6, <2>1, Abandoning
<1>7. CASE c \notin {"-", "<", "EOF"} /\ ~ (c = ">" /\ s.state = "script_data_escaped_dash_dash_state")
  <2>1. Fit(s, "script_data_escaped_state")
    BY <1>1, <1>2, ScriptFits DEF PlainScriptStates
  <2>2. script_data_escaped(s, c)
          = EmitCharacters(StayIn(s, "script_data_escaped_state"), <<Shown(c)>>)
    BY <1>7 DEF script_data_escaped, EmitCharacter
  <2> QED BY <1>2, <1>7, <2>1, <2>2, StayInGiveKept
<1> QED BY <1>3, <1>4, <1>5, <1>6, <1>7

LEMMA EscapedLessThanRead ==
    ASSUME NEW s, NEW c, Ready(s, c), s.state = "script_data_escaped_less_than_sign_state"
    PROVE  Kept(s, c, script_data_escaped_less_than_sign_state(s, c))
<1>1. s.state \in PlainScriptStates
  BY DEF PlainScriptStates
<1>2. Alike(s, s) /\ c \in Chars /\ s.content = "script_data"
  BY <1>1, InScript
<1>3. CASE c \in Letters
  <2>1. PICK b : b = <<Lower(c)>>
    OBVIOUS
  <2>2. b \in Seq(Chars) /\ c # "EOF"
    BY <1>2, <1>3, <2>1, Alphabet DEF LowerLetters
  <2>3. PICK q : q = [s EXCEPT !.buffer = b]
    OBVIOUS
  <2>4. Alike(s, q) /\ q.state = s.state /\ q.content = s.content
    BY <1>2, <2>2, <2>3, NewBuffer
  <2>5. Enters(s, q, "script_data_double_escape_start_state")
    BY <1>1, <1>2, <2>4, ScriptFits DEF PlainScriptStates
  <2>6. PICK cs : cs = <<"<", c>>
    OBVIOUS
  <2>7. cs \in Seq(Chars)
    BY <1>2, <2>6 DEF Chars
  <2>8. script_data_escaped_less_than_sign_state(s, c)
          = EmitCharacters(SwitchToState(q, "script_data_double_escape_start_state"), cs)
    BY <1>3, <2>1, <2>3, <2>6, Alphabet
       DEF script_data_escaped_less_than_sign_state, LowerLetters
  <2> QED BY <2>2, <2>5, <2>7, <2>8, SwitchGiveKept
<1>4. CASE c = "-"
  <2>1. PICK q : q = [s EXCEPT !.buffer = <<>>]
    OBVIOUS
  <2>2. Alike(s, q) /\ q.state = s.state /\ q.content = s.content
    BY <1>2, <2>1, EmptyBuffer
  <2>3. Enters(s, q, "script_data_escaped_end_tag_open_state")
    BY <1>1, <1>2, <2>2, ScriptFits DEF PlainScriptStates
  <2>4. script_data_escaped_less_than_sign_state(s, c)
          = SwitchToState(q, "script_data_escaped_end_tag_open_state")
    BY <1>4, <2>1, Alphabet DEF script_data_escaped_less_than_sign_state, LowerLetters
  <2>5. c # "EOF"
    BY <1>4
  <2> QED BY <2>3, <2>4, <2>5, SwitchKept
<1>5. CASE c \notin Letters /\ c # "-"
  <2>1. Enters(s, s, "script_data_escaped_state")
    BY <1>1, <1>2, ScriptFits DEF PlainScriptStates
  <2>2. script_data_escaped_less_than_sign_state(s, c)
          = Again(EmitCharacters(SwitchToState(s, "script_data_escaped_state"), <<"<">>), c)
    BY <1>5 DEF script_data_escaped_less_than_sign_state, EmitCharacter
  <2> QED BY <2>1, <2>2, Literals, SwitchGiveKept
<1> QED BY <1>3, <1>4, <1>5

LEMMA EscapedEndTagRead ==
    ASSUME NEW s, NEW c, Ready(s, c),
           s.state \in {"script_data_escaped_end_tag_open_state",
                        "script_data_escaped_end_tag_name_state"}
    PROVE  Kept(s, c, script_data_escaped_end_tag(s, c))
<1>1. EndTags("script_data", "script_data_escaped_state",
              "script_data_escaped_end_tag_open_state", "script_data_escaped_end_tag_name_state")
  BY DEF EndTags
<1>2. Fit(s, s.state)
  BY DEF Ready
<1>3. /\ s.content = "script_data"
      /\ s.state = "script_data_escaped_end_tag_name_state" => s.tag.type = "end"
  BY <1>2, FittedText DEF PlainScriptStates, ScriptEndTagStates
<1>4. CASE s.state = "script_data_escaped_end_tag_open_state"
  BY <1>1, <1>3, <1>4, EndTagOpenRead DEF script_data_escaped_end_tag
<1>5. CASE s.state = "script_data_escaped_end_tag_name_state"
  BY <1>1, <1>3, <1>5, EndTagNameRead DEF script_data_escaped_end_tag
<1> QED BY <1>4, <1>5

\* The word that decides between the two kinds of escape.
LEMMA EscapeWordRead ==
    ASSUME NEW s, NEW c, Ready(s, c),
           s.state \in {"script_data_double_escape_start_state",
                        "script_data_double_escape_end_state"},
           NEW if_script \in {"script_data_escaped_state", "script_data_double_escaped_state"},
           NEW otherwise \in {"script_data_escaped_state", "script_data_double_escaped_state"}
    PROVE  Kept(s, c, EscapeWord(s, c, if_script, otherwise))
<1>1. s.state \in PlainScriptStates
  BY DEF PlainScriptStates
<1>2. Alike(s, s) /\ c \in Chars /\ s.content = "script_data" /\ <<c>> \in Seq(Chars)
      /\ Fit(s, s.state)
  BY <1>1, InScript
<1>3. \A Y \in {"script_data_escaped_state", "script_data_double_escaped_state"} : Enters(s, s, Y)
  BY <1>1, <1>2, ScriptFits DEF PlainScriptStates
<1>4. CASE c \in Letters
  <2>1. PICK b : b = Append(s.buffer, Lower(c))
    OBVIOUS
  <2>2. b \in Seq(Chars)
    BY <1>2, <2>1, Alphabet DEF Alike, Typed
  <2>3. PICK q : q = [s EXCEPT !.buffer = b]
    OBVIOUS
  <2>4. Alike(s, q) /\ q.state = s.state /\ q.content = s.content
    BY <1>2, <2>2, <2>3, NewBuffer
  <2>5. Fit(q, q.state)
    BY <1>1, <1>2, <2>4, ScriptFits
  <2>6. EscapeWord(s, c, if_script, otherwise) = EmitCharacters(q, <<c>>)
    BY <1>4, <2>1, <2>3, Alphabet DEF EscapeWord, EmitCharacter, LowerLetters, Space
  <2>7. c # "EOF"
    BY <1>4, Alphabet DEF LowerLetters
  <2> QED BY <1>2, <2>4, <2>5, <2>6, <2>7, GiveKept
<1>5. CASE c \notin Letters /\ c \in Space \cup {"/", ">"}
  <2>1. PICK Y : Y = IF s.buffer = script THEN if_script ELSE otherwise
    OBVIOUS
  <2>2. Enters(s, s, Y)
    BY <1>3, <2>1
  <2>3. EscapeWord(s, c, if_script, otherwise) = EmitCharacters(SwitchToState(s, Y), <<c>>)
    BY <1>5, <2>1 DEF EscapeWord, EmitCharacter
  <2>4. c # "EOF"
    BY <1>5 DEF Space
  <2> QED BY <1>2, <2>2, <2>3, <2>4, SwitchGiveKept
<1>6. CASE c \notin Letters /\ c \notin Space \cup {"/", ">"}
  <2>1. PICK Y : Y = IF s.state = "script_data_double_escape_start_state"
                     THEN "script_data_escaped_state"
                     ELSE "script_data_double_escaped_state"
    OBVIOUS
  <2>2. Enters(s, s, Y)
    BY <1>3, <2>1
  <2>3. EscapeWord(s, c, if_script, otherwise) = ReadAgain(s, Y, c)
    BY <1>6, <2>1 DEF EscapeWord
  <2> QED BY <2>2, <2>3, ReadAgainKept
<1> QED BY <1>4, <1>5, <1>6

LEMMA DoubleEscapedRead ==
    ASSUME NEW s, NEW c, Ready(s, c), s.state \in DoubleEscapedStates
    PROVE  Kept(s, c, script_data_double_escaped(s, c))
<1>1. s.state \in PlainScriptStates
  BY DEF PlainScriptStates, DoubleEscapedStates
<1>2. /\ Alike(s, s) /\ Fit(s, s.state) /\ s.content = "script_data"
      /\ s.state \notin {"data_state", "attribute_name_state"}
      /\ <<c>> \in Seq(Chars) /\ <<Shown(c)>> \in Seq(Chars)
  BY <1>1, InScript
<1>3. CASE c = "-"
  <2>1. PICK Y : Y = AfterDash[s.state]
    OBVIOUS
  <2>2. Y \in {"script_data_double_escaped_dash_state",
               "script_data_double_escaped_dash_dash_state"}
    BY <2>1 DEF AfterDash, DoubleEscapedStates
  <2>3. Fit(s, Y) /\ Y # "character_reference_in_attribute_value_state"
    BY <1>1, <1>2, <2>2, ScriptFits DEF PlainScriptStates
  <2>4. script_data_double_escaped(s, c) = EmitCharacters(StayIn(s, Y), <<c>>)
    BY <1>3, <2>1 DEF script_data_double_escaped, EmitCharacter
  <2> QED BY <1>2, <1>3, <2>3, <2>4, StayInGiveKept
<1>4. CASE c = "<"
  <2>1. Enters(s, s, "script_data_double_escaped_less_than_sign_state")
    BY <1>1, <1>2, ScriptFits DEF PlainScriptStates, DoubleEscapedStates
  <2>2. script_data_double_escaped(s, c)
          = EmitCharacters(SwitchToState(s, "script_data_double_escaped_less_than_sign_state"), <<c>>)
    BY <1>4 DEF script_data_double_escaped, EmitCharacter
  <2> QED BY <1>2, <1>4, <2>1, <2>2, SwitchGiveKept
<1>5. CASE c = ">" /\ s.state = "script_data_double_escaped_dash_dash_state"
  <2>1. Enters(s, s, "script_data_state")
    BY <1>1, <1>2, <1>5, ScriptFits DEF PlainScriptStates
  <2>2. script_data_double_escaped(s, c)
          = EmitCharacters(SwitchToState(s, "script_data_state"), <<c>>)
    BY <1>5 DEF script_data_double_escaped, EmitCharacter
  <2> QED BY <1>2, <1>5, <2>1, <2>2, SwitchGiveKept
<1>6. CASE c = "EOF"
  <2>1. script_data_double_escaped(s, c) = Abandon(s)
    BY <1>6 DEF script_data_double_escaped
  <2> QED BY <1>2, <1>6, <2>1, Abandoning
<1>7. CASE c \notin {"-", "<", "EOF"}
           /\ ~ (c = ">" /\ s.state = "script_data_double_escaped_dash_dash_state")
  <2>1. Fit(s, "script_data_double_escaped_state")
    BY <1>1, <1>2, ScriptFits DEF PlainScriptStates
  <2>2. PICK back : back = StayIn(s, "script_data_double_escaped_state")
    OBVIOUS
  <2>3. Kept(s, c, back) /\ Kept(s, c, EmitCharacters(back, <<Shown(c)>>))
    BY <1>2, <1>7, <2>1, <2>2, StayInGiveKept
  <2>4. script_data_double_escaped(s, c) \in {back, EmitCharacters(back, <<Shown(c)>>)}
    BY <1>7, <2>2 DEF script_data_double_escaped, EmitCharacter
  <2> QED BY <2>3, <2>4
<1> QED BY <1>3, <1>4, <1>5, <1>6, <1>7

LEMMA DoubleEscapedLessThanRead ==
    ASSUME NEW s, NEW c, Ready(s, c), s.state = "script_data_double_escaped_less_than_sign_state"
    PROVE  Kept(s, c, script_data_double_escaped_less_than_sign_state(s, c))
<1>1. s.state \in PlainScriptStates
  BY DEF PlainScriptStates
<1>2. Alike(s, s) /\ s.content = "script_data" /\ <<c>> \in Seq(Chars)
  BY <1>1, InScript
<1>3. CASE c = "/"
  <2>1. PICK q : q = [s EXCEPT !.buffer = <<>>]
    OBVIOUS
  <2>2. Alike(s, q) /\ q.state = s.state /\ q.content = s.content
    BY <1>2, <2>1, EmptyBuffer
  <2>3. Enters(s, q, "script_data_double_escape_end_state")
    BY <1>1, <1>2, <2>2, ScriptFits DEF PlainScriptStates
  <2>4. script_data_double_escaped_less_than_sign_state(s, c)
          = EmitCharacters(SwitchToState(q, "script_data_double_escape_end_state"), <<c>>)
    BY <1>3, <2>1 DEF script_data_double_escaped_less_than_sign_state, EmitCharacter
  <2>5. c # "EOF"
    BY <1>3
  <2> QED BY <1>2, <2>3, <2>4, <2>5, SwitchGiveKept
<1>4. CASE c # "/"
  <2>1. Enters(s, s, "script_data_double_escaped_state")
    BY <1>1, <1>2, ScriptFits DEF PlainScriptStates
  <2>2. script_data_double_escaped_less_than_sign_state(s, c)
          = ReadAgain(s, "script_data_double_escaped_state", c)
    BY <1>4 DEF script_data_double_escaped_less_than_sign_state
  <2> QED BY <2>1, <2>2, ReadAgainKept
<1> QED BY <1>3, <1>4

-------------------------------------------------------------------------------
(* Tags.                                                                       *)

\* The states whose content is data.
LEMMA InData ==
    ASSUME NEW s, NEW c, Ready(s, c), s.state \in PlainStates \ {"data_state"}
    PROVE  /\ Alike(s, s) /\ Going(s) /\ c \in Chars /\ Fit(s, s.state)
           /\ s.content = "data" /\ <<c>> \in Seq(Chars)
           /\ s.state # "attribute_name_state"
<1>1. Fit(s, s.state) /\ s.state # "attribute_name_state"
  BY DEF Ready, PlainStates
<1> QED BY <1>1, FittedData, AlikeSelf DEF Ready

\* Any of them may be entered.
LEMMA DataEnters ==
    ASSUME NEW s, NEW q, Alike(s, q), q.content = "data", q.state # "attribute_name_state",
           NEW Y \in PlainStates, Y # q.state
    PROVE  Enters(s, q, Y)
<1>1. Fit(q, Y)
  BY DEF Fit
<1>2. Y # "character_reference_in_attribute_value_state"
  BY DEF PlainStates
<1> QED BY <1>1, <1>2 DEF Enters

\* A step that fails because the characters of a declaration are read again.
LEMMA ReplayFails ==
    ASSUME NEW s, NEW c, Ready(s, c)
    PROVE  Kept(s, c, Fail(s, "replay"))
<1> DEFINE r == Fail(s, "replay")
<1>1. /\ DOMAIN r = Fields /\ r.failure = "replay" /\ r.out = <<>> /\ r.content = s.content
      /\ r.last = s.last /\ r.ended = s.ended
  BY DEF Fail, Ready, Going, Typed, Fields
<1>2. <<>> \in Seq(TextTokens)
  OBVIOUS
<1> HIDE DEF r
<1>3. Told(s, r)
  BY <1>1, <1>2 DEF Told, ToldText, Stream
<1> QED BY <1>1, <1>3 DEF Kept, r

LEMMA TagOpenRead ==
    ASSUME NEW s, NEW c, Ready(s, c), s.state = "tag_open_state"
    PROVE  Kept(s, c, tag_open_state(s, c))
<1>1. s.state \in PlainStates \ {"data_state"}
  BY DEF PlainStates
<1>2. Alike(s, s) /\ c \in Chars /\ s.content = "data"
  BY <1>1, InData
<1>3. CASE c \in Letters
  <2>1. PICK q : q = NewTag(s, "start", c)
    OBVIOUS
  <2>2. Alike(s, q) /\ q.tag.type = "start" /\ q.state = s.state /\ q.content = s.content
    BY <1>2, <2>1, Tagged
  <2>3. Enters(s, q, "tag_name_state")
    BY <1>2, <2>2 DEF Enters, Fit
  <2>4. c # "EOF" /\ tag_open_state(s, c) = SwitchToState(q, "tag_name_state")
    BY <1>3, <2>1, Alphabet DEF tag_open_state, LowerLetters
  <2> QED BY <2>3, <2>4, SwitchKept
<1>4. CASE c = "!" /\ s.replaying
  <2>1. tag_open_state(s, c) = Fail(s, "replay")
    BY <1>4, Alphabet DEF tag_open_state, LowerLetters
  <2> QED BY <2>1, ReplayFails
<1>5. CASE c = "!" /\ ~ s.replaying
  <2>1. PICK d \in Seq(Chars) : d = <<>>
    BY Literals
  <2>2. PICK q : q = [s EXCEPT !.declaration = d]
    OBVIOUS
  <2>3. Alike(s, q) /\ q.declaration = d /\ q.state = s.state /\ q.content = s.content
    BY <1>2, <2>2, Declared
  <2>4. NoEof(q.declaration)
    BY <2>1, <2>3 DEF NoEof
  <2>5. Enters(s, q, "markup_declaration_open_state")
    BY <1>2, <2>3, <2>4 DEF Enters, Fit, DeclarationStates
  <2>6. tag_open_state(s, c) = SwitchToState(q, "markup_declaration_open_state")
    BY <1>5, <2>1, <2>2, Alphabet DEF tag_open_state, LowerLetters
  <2> QED BY <1>5, <2>5, <2>6, SwitchKept
<1>6. CASE c = "/"
  <2>1. Enters(s, s, "end_tag_open_state")
    BY <1>2, DataEnters DEF PlainStates
  <2>2. tag_open_state(s, c) = SwitchToState(s, "end_tag_open_state")
    BY <1>6, Alphabet DEF tag_open_state, LowerLetters
  <2> QED BY <1>6, <2>1, <2>2, SwitchKept
<1>7. CASE c = "?"
  <2>1. PICK q : q = NewComment(s)
    OBVIOUS
  <2>2. Alike(s, q) /\ q.comment /\ q.state = s.state /\ q.content = s.content
    BY <1>2, <2>1, Commented
  <2>3. Enters(s, q, "bogus_comment_state")
    BY <1>2, <2>2 DEF Enters, Fit
  <2>4. tag_open_state(s, c) = SwitchToState(q, "bogus_comment_state")
    BY <1>7, <2>1, Alphabet DEF tag_open_state, LowerLetters
  <2> QED BY <1>7, <2>3, <2>4, SwitchKept
<1>8. CASE c \notin Letters \cup {"!", "/", "?"}
  <2>1. Enters(s, s, "data_state")
    BY <1>2, DataEnters DEF PlainStates
  <2>2. tag_open_state(s, c) = Again(EmitCharacters(SwitchToState(s, "data_state"), <<"<">>), c)
    BY <1>8 DEF tag_open_state, EmitCharacter
  <2> QED BY <2>1, <2>2, Literals, SwitchGiveKept
<1> QED BY <1>3, <1>4, <1>5, <1>6, <1>7, <1>8

LEMMA EndTagOpenStateRead ==
    ASSUME NEW s, NEW c, Ready(s, c), s.state = "end_tag_open_state"
    PROVE  Kept(s, c, end_tag_open_state(s, c))
<1>1. s.state \in PlainStates \ {"data_state"}
  BY DEF PlainStates
<1>2. Alike(s, s) /\ c \in Chars /\ s.content = "data"
  BY <1>1, InData
<1>3. Enters(s, s, "data_state")
  BY <1>2, DataEnters DEF PlainStates
<1>4. CASE c \in Letters
  <2>1. PICK q : q = NewTag(s, "end", c)
    OBVIOUS
  <2>2. Alike(s, q) /\ q.tag.type = "end" /\ q.state = s.state /\ q.content = s.content
    BY <1>2, <2>1, Tagged
  <2>3. Enters(s, q, "tag_name_state")
    BY <1>2, <2>2 DEF Enters, Fit
  <2>4. c # "EOF" /\ end_tag_open_state(s, c) = SwitchToState(q, "tag_name_state")
    BY <1>4, <2>1, Alphabet DEF end_tag_open_state, LowerLetters
  <2> QED BY <2>3, <2>4, SwitchKept
<1>5. CASE c = ">"
  <2>1. end_tag_open_state(s, c) = SwitchToState(s, "data_state")
    BY <1>5, Alphabet DEF end_tag_open_state, LowerLetters
  <2> QED BY <1>3, <1>5, <2>1, SwitchKept
<1>6. CASE c = "EOF"
  <2>1. end_tag_open_state(s, c)
          = Again(EmitCharacters(SwitchToState(s, "data_state"), <<"<", "/">>), c)
    BY <1>6, Alphabet DEF end_tag_open_state, LowerLetters
  <2> QED BY <1>3, <2>1, Literals, SwitchGiveKept
<1>7. CASE c \notin Letters \cup {">", "EOF"}
  <2>1. PICK q : q = NewComment(s)
    OBVIOUS
  <2>2. Alike(s, q) /\ q.comment /\ q.state = s.state /\ q.content = s.content
    BY <1>2, <2>1, Commented
  <2>3. Enters(s, q, "bogus_comment_state")
    BY <1>2, <2>2 DEF Enters, Fit
  <2>4. end_tag_open_state(s, c) = SwitchToState(q, "bogus_comment_state")
    BY <1>7, <2>1 DEF end_tag_open_state
  <2> QED BY <1>7, <2>3, <2>4, SwitchKept
<1> QED BY <1>4, <1>5, <1>6, <1>7

\* What ends the name or the value of a tag.
LEMMA DelimitedRead ==
    ASSUME NEW s, NEW c, Ready(s, c), InTag(s), s.state # "data_state",
           s.state = "attribute_name_state" => s.attribute_name # <<>>,
           c \in Delimiters, c = "/" => s.state # "self_closing_start_tag_state"
    PROVE  Kept(s, c, Delimited(s, c))
<1>1. Going(s) /\ Alike(s, s) /\ s.tag # NoTag
  BY AlikeSelf DEF Ready, InTag, NoTag
<1>2. CASE c = "/"
  <2>1. Moved(s, SwitchToState(s, "self_closing_start_tag_state"))
    <3>1. CASE s.state = "attribute_name_state"
      BY <1>1, <3>1, Leaving
    <3>2. CASE s.state # "attribute_name_state"
      <4>1. Enters(s, s, "self_closing_start_tag_state")
        BY <1>1, <1>2, <3>2 DEF Enters, Fit, BetweenStates
      <4> QED BY <1>1, <4>1, Switching DEF Enters
    <3> QED BY <3>1, <3>2
  <2>2. Delimited(s, c) = SwitchToState(s, "self_closing_start_tag_state")
    BY <1>2 DEF Delimited
  <2> QED BY <1>2, <2>1, <2>2, MovedKept
<1>3. CASE c = ">"
  <2>1. Delimited(s, c) = EndTag(s)
    BY <1>3 DEF Delimited
  <2> QED BY <1>1, <1>3, <2>1, TagGiven, MovedKept
<1>4. CASE c = "EOF"
  <2>1. Delimited(s, c) = Abandon(s)
    BY <1>4 DEF Delimited
  <2> QED BY <1>1, <1>4, <2>1, Abandoning
<1> QED BY <1>2, <1>3, <1>4 DEF Delimiters

LEMMA TagNameRead ==
    ASSUME NEW s, NEW c, Ready(s, c), s.state = "tag_name_state"
    PROVE  Kept(s, c, tag_name_state(s, c))
<1>1. /\ Fit(s, s.state) /\ s.content = "data" /\ InTag(s) /\ Alike(s, s) /\ c \in Chars
      /\ s.tag # NoTag
  <2>1. Fit(s, s.state)
    BY DEF Ready
  <2>2. InTag(s) /\ s.content = "data"
    BY <2>1, FittedData
  <2> QED BY <2>1, <2>2, AlikeSelf DEF Ready, InTag, NoTag
<1>2. CASE c \in Space
  <2>1. Enters(s, s, "before_attribute_name_state")
    BY <1>1 DEF Enters, Fit, BetweenStates
  <2>2. c # "EOF" /\ tag_name_state(s, c) = SwitchToState(s, "before_attribute_name_state")
    BY <1>2 DEF tag_name_state, Space, Delimiters
  <2> QED BY <2>1, <2>2, SwitchKept
<1>3. CASE c \in Delimiters
  <2>1. tag_name_state(s, c) = Delimited(s, c)
    BY <1>3 DEF tag_name_state, Space, Delimiters
  <2> QED BY <1>1, <1>3, <2>1, DelimitedRead
<1>4. CASE c \notin Space \cup Delimiters
  <2>1. PICK q : q = NameGrows(s, Shown(Lower(c)))
    OBVIOUS
  <2>2. Alike(s, q) /\ q.tag.type = s.tag.type /\ q.state = s.state /\ q.content = s.content
    BY <1>1, <2>1, Named
  <2>3. Fit(q, q.state)
    BY <1>1, <2>2 DEF Fit, InTag
  <2>4. c # "EOF" /\ tag_name_state(s, c) = q
    BY <1>4, <2>1 DEF tag_name_state, Delimiters
  <2> QED BY <2>2, <2>3, <2>4, StayKept
<1> QED BY <1>2, <1>3, <1>4

\* The states of a tag that has its name.
LEMMA InAttributes ==
    ASSUME NEW s, NEW c, Ready(s, c),
           s.state \in BetweenStates \cup AttributeStates \cup {"attribute_name_state"}
    PROVE  /\ Alike(s, s) /\ Going(s) /\ c \in Chars /\ Fit(s, s.state) /\ InTag(s)
           /\ s.state # "data_state"
           /\ s.state = "attribute_name_state" => s.attribute_name # <<>>
           /\ s.state \in AttributeStates => s.attribute \in s.tag.attributes
<1>1. Fit(s, s.state) /\ s.state # "data_state"
  BY DEF Ready, BetweenStates, AttributeStates, ValueStates
<1>2. InTag(s)
  BY <1>1, FittedTag
<1> QED BY <1>1, <1>2, FittedTag, AlikeSelf DEF Ready

LEMMA NewNameKept ==
    ASSUME NEW s, NEW c, Ready(s, c), c # "EOF",
           s.state \in {"before_attribute_name_state", "after_attribute_name_state"}
    PROVE  Kept(s, c, NewName(s, c))
<1>1. Alike(s, s) /\ c \in Chars /\ InTag(s)
  BY InAttributes DEF BetweenStates, AttributeStates
<1>2. PICK a : a = <<Shown(Lower(c))>>
  OBVIOUS
<1>3. a \in Seq(Chars) /\ a # <<>>
  BY <1>1, <1>2, Alphabet
<1>4. PICK q : q = [s EXCEPT !.attribute_name = a]
  OBVIOUS
<1>5. /\ Alike(s, q) /\ q.attribute_name = a /\ q.state = s.state /\ q.content = s.content
      /\ q.last = s.last /\ q.tag = s.tag
  BY <1>1, <1>3, <1>4, AttributeNamed
<1>6. Enters(s, q, "attribute_name_state")
  BY <1>1, <1>3, <1>5 DEF Enters, Fit, InTag, IsAppropriate
<1>7. NewName(s, c) = SwitchToState(q, "attribute_name_state")
  BY <1>2, <1>4 DEF NewName
<1> QED BY <1>6, <1>7, SwitchKept

LEMMA BeforeAttributeNameRead ==
    ASSUME NEW s, NEW c, Ready(s, c), s.state = "before_attribute_name_state"
    PROVE  Kept(s, c, before_attribute_name_state(s, c))
<1>1. Alike(s, s) /\ Fit(s, s.state) /\ InTag(s)
  BY InAttributes DEF BetweenStates
<1>2. CASE c \in Space
  <2>1. c # "EOF" /\ before_attribute_name_state(s, c) = s
    BY <1>2 DEF before_attribute_name_state, Space, Delimiters
  <2> QED BY <1>1, <2>1, StayKept
<1>3. CASE c \in Delimiters
  <2>1. before_attribute_name_state(s, c) = Delimited(s, c)
    BY <1>3 DEF before_attribute_name_state, Space, Delimiters
  <2> QED BY <1>1, <1>3, <2>1, DelimitedRead
<1>4. CASE c \notin Space \cup Delimiters
  <2>1. c # "EOF" /\ before_attribute_name_state(s, c) = NewName(s, c)
    BY <1>4 DEF before_attribute_name_state, Delimiters
  <2> QED BY <2>1, NewNameKept
<1> QED BY <1>2, <1>3, <1>4

LEMMA AttributeNameRead ==
    ASSUME NEW s, NEW c, Ready(s, c), s.state = "attribute_name_state"
    PROVE  Kept(s, c, attribute_name_state(s, c))
<1>1. /\ Alike(s, s) /\ Going(s) /\ InTag(s) /\ s.attribute_name # <<>>
      /\ c \in Chars
  BY InAttributes
<1>2. CASE c \in Space
  <2>1. c # "EOF" /\ attribute_name_state(s, c) = SwitchToState(s, "after_attribute_name_state")
    BY <1>2 DEF attribute_name_state, Space, Delimiters
  <2> QED BY <1>1, <2>1, Leaving, MovedKept
<1>3. CASE c = "="
  <2>1. attribute_name_state(s, c) = SwitchToState(s, "before_attribute_value_state")
    BY <1>3 DEF attribute_name_state, Space, Delimiters
  <2> QED BY <1>1, <1>3, <2>1, Leaving, MovedKept
<1>4. CASE c \in Delimiters
  <2>1. attribute_name_state(s, c) = Delimited(s, c)
    BY <1>4 DEF attribute_name_state, Space, Delimiters
  <2> QED BY <1>1, <1>4, <2>1, DelimitedRead
<1>5. CASE c \notin Space \cup Delimiters \cup {"="}
  <2>1. PICK a : a = Append(s.attribute_name, Shown(Lower(c)))
    OBVIOUS
  <2>2. a \in Seq(Chars) /\ a # <<>>
    <3>1. s.attribute_name \in Seq(Chars) /\ Shown(Lower(c)) \in Chars
      BY <1>1, Alphabet DEF Going, Typed
    <3>2. Len(a) = Len(s.attribute_name) + 1 /\ a \in Seq(Chars)
      BY <2>1, <3>1
    <3> QED BY <3>1, <3>2
  <2>3. PICK q : q = [s EXCEPT !.attribute_name = a]
    OBVIOUS
  <2>4. /\ Alike(s, q) /\ q.attribute_name = a /\ q.state = s.state /\ q.content = s.content
        /\ q.last = s.last /\ q.tag = s.tag
    BY <1>1, <2>2, <2>3, AttributeNamed
  <2>5. Fit(q, q.state)
    BY <1>1, <2>2, <2>4 DEF Fit, InTag, IsAppropriate
  <2>6. c # "EOF" /\ attribute_name_state(s, c) = q
    BY <1>5, <2>1, <2>3 DEF attribute_name_state, Delimiters
  <2> QED BY <2>4, <2>5, <2>6, StayKept
<1> QED BY <1>2, <1>3, <1>4, <1>5

LEMMA AfterAttributeNameRead ==
    ASSUME NEW s, NEW c, Ready(s, c), s.state = "after_attribute_name_state"
    PROVE  Kept(s, c, after_attribute_name_state(s, c))
<1>1. Alike(s, s) /\ Fit(s, s.state) /\ InTag(s) /\ s.attribute \in s.tag.attributes
  BY InAttributes DEF AttributeStates
<1>2. CASE c \in Space
  <2>1. c # "EOF" /\ after_attribute_name_state(s, c) = s
    BY <1>2 DEF after_attribute_name_state, Space, Delimiters
  <2> QED BY <1>1, <2>1, StayKept
<1>3. CASE c = "="
  <2>1. Enters(s, s, "before_attribute_value_state")
    BY <1>1 DEF Enters, Fit, AttributeStates
  <2>2. after_attribute_name_state(s, c) = SwitchToState(s, "before_attribute_value_state")
    BY <1>3 DEF after_attribute_name_state, Space, Delimiters
  <2> QED BY <1>3, <2>1, <2>2, SwitchKept
<1>4. CASE c \in Delimiters
  <2>1. after_attribute_name_state(s, c) = Delimited(s, c)
    BY <1>4 DEF after_attribute_name_state, Space, Delimiters
  <2> QED BY <1>1, <1>4, <2>1, DelimitedRead
<1>5. CASE c \notin Space \cup Delimiters \cup {"="}
  <2>1. c # "EOF" /\ after_attribute_name_state(s, c) = NewName(s, c)
    BY <1>5 DEF after_attribute_name_state, Delimiters
  <2> QED BY <2>1, NewNameKept
<1> QED BY <1>2, <1>3, <1>4, <1>5

LEMMA BeforeAttributeValueRead ==
    ASSUME NEW s, NEW c, Ready(s, c), s.state = "before_attribute_value_state"
    PROVE  Kept(s, c, before_attribute_value_state(s, c))
<1>1. /\ Alike(s, s) /\ Fit(s, s.state) /\ InTag(s) /\ s.attribute \in s.tag.attributes
      /\ ValueGrows(s) = s
  BY InAttributes DEF AttributeStates, ValueGrows
<1>2. \A Y \in ValueStates : Enters(s, s, Y)
  BY <1>1 DEF Enters, Fit, AttributeStates, ValueStates
<1>3. CASE c \in Space
  <2>1. c # "EOF" /\ before_attribute_value_state(s, c) = s
    BY <1>3 DEF before_attribute_value_state, Space
  <2> QED BY <1>1, <2>1, StayKept
<1>4. CASE c \in {"double quote", "single quote"}
  <2>1. PICK Y \in ValueStates : before_attribute_value_state(s, c) = SwitchToState(s, Y)
    BY <1>4 DEF before_attribute_value_state, Space, ValueStates
  <2> QED BY <1>2, <1>4, <2>1, SwitchKept
<1>5. CASE c = "&"
  <2>1. before_attribute_value_state(s, c) = ReadAgain(s, "attribute_value_unquoted_state", c)
    BY <1>5 DEF before_attribute_value_state, Space
  <2> QED BY <1>2, <2>1, ReadAgainKept DEF ValueStates
<1>6. CASE c \in {">", "EOF"}
  <2>1. before_attribute_value_state(s, c) = Delimited(s, c)
    BY <1>6 DEF before_attribute_value_state, Space
  <2> QED BY <1>1, <1>6, <2>1, DelimitedRead DEF Delimiters
<1>7. CASE c \notin Space \cup {"double quote", "single quote", "&", ">", "EOF"}
  <2>1. before_attribute_value_state(s, c) = SwitchToState(s, "attribute_value_unquoted_state")
    BY <1>1, <1>7 DEF before_attribute_value_state
  <2> QED BY <1>2, <1>7, <2>1, SwitchKept DEF ValueStates
<1> QED BY <1>3, <1>4, <1>5, <1>6, <1>7

LEMMA ValueQuotedRead ==
    ASSUME NEW s, NEW c, Ready(s, c), s.state \in ValueStates,
           NEW quote \in {"double quote", "single quote"}
    PROVE  Kept(s, c, attribute_value_quoted(s, c, quote))
<1>1. /\ Alike(s, s) /\ Going(s) /\ Fit(s, s.state) /\ InTag(s) /\ s.attribute \in s.tag.attributes
      /\ ValueGrows(s) = s /\ s.tag # NoTag /\ s.state \notin {"data_state", "attribute_name_state"}
  <2>1. s.state \in AttributeStates
    BY DEF AttributeStates
  <2>2. /\ Alike(s, s) /\ Going(s) /\ Fit(s, s.state) /\ InTag(s)
        /\ s.attribute \in s.tag.attributes
    BY <2>1, InAttributes
  <2>3. ValueGrows(s) = s
    BY <2>2 DEF ValueGrows
  <2>4. s.tag # NoTag
    <3>1. s.tag.type \in {"start", "end"}
      BY <2>2 DEF InTag
    <3>2. NoTag.type = "none"
      BY DEF NoTag
    <3> QED BY <3>1, <3>2
  <2>5. s.state \notin {"data_state", "attribute_name_state"}
    BY DEF ValueStates
  <2> QED BY <2>2, <2>3, <2>4, <2>5
<1>2. CASE c = quote
  <2>1. Enters(s, s, "after_attribute_value_quoted_state")
    BY <1>1 DEF Enters, Fit, BetweenStates, ValueStates
  <2>2. attribute_value_quoted(s, c, quote) = SwitchToState(s, "after_attribute_value_quoted_state")
    BY <1>2 DEF attribute_value_quoted
  <2> QED BY <1>2, <2>1, <2>2, SwitchKept
<1>3. CASE c = "&"
  <2>1. attribute_value_quoted(s, c, quote) = InReference(s)
    BY <1>3 DEF attribute_value_quoted
  <2> QED BY <1>1, <1>3, <2>1, Referring, MovedKept
<1>4. CASE c = "EOF"
  <2>1. attribute_value_quoted(s, c, quote) = Abandon(s)
    BY <1>4 DEF attribute_value_quoted
  <2> QED BY <1>1, <1>4, <2>1, Abandoning
<1>5. CASE c \notin {quote, "&", "EOF"}
  <2>1. attribute_value_quoted(s, c, quote) = s
    BY <1>1, <1>5 DEF attribute_value_quoted
  <2> QED BY <1>1, <1>5, <2>1, StayKept
<1> QED BY <1>2, <1>3, <1>4, <1>5

LEMMA ValueUnquotedRead ==
    ASSUME NEW s, NEW c, Ready(s, c), s.state = "attribute_value_unquoted_state"
    PROVE  Kept(s, c, attribute_value_unquoted_state(s, c))
<1>1. /\ Alike(s, s) /\ Going(s) /\ Fit(s, s.state) /\ InTag(s) /\ s.attribute \in s.tag.attributes
      /\ ValueGrows(s) = s
  BY InAttributes DEF AttributeStates, ValueStates, ValueGrows
<1>2. CASE c \in Space
  <2>1. Enters(s, s, "before_attribute_name_state")
    BY <1>1 DEF Enters, Fit, BetweenStates
  <2>2. c # "EOF"
        /\ attribute_value_unquoted_state(s, c) = SwitchToState(s, "before_attribute_name_state")
    BY <1>2 DEF attribute_value_unquoted_state, Space
  <2> QED BY <2>1, <2>2, SwitchKept
<1>3. CASE c = "&"
  <2>1. attribute_value_unquoted_state(s, c) = InReference(s)
    BY <1>3 DEF attribute_value_unquoted_state, Space
  <2> QED BY <1>1, <1>3, <2>1, Referring, MovedKept DEF ValueStates
<1>4. CASE c \in {">", "EOF"}
  <2>1. attribute_value_unquoted_state(s, c) = Delimited(s, c)
    BY <1>4 DEF attribute_value_unquoted_state, Space
  <2> QED BY <1>1, <1>4, <2>1, DelimitedRead DEF Delimiters
<1>5. CASE c \notin Space \cup {"&", ">", "EOF"}
  <2>1. attribute_value_unquoted_state(s, c) = s
    BY <1>1, <1>5 DEF attribute_value_unquoted_state
  <2> QED BY <1>1, <1>5, <2>1, StayKept
<1> QED BY <1>2, <1>3, <1>4, <1>5

LEMMA AfterValueQuotedRead ==
    ASSUME NEW s, NEW c, Ready(s, c), s.state = "after_attribute_value_quoted_state"
    PROVE  Kept(s, c, after_attribute_value_quoted_state(s, c))
<1>1. Alike(s, s) /\ Fit(s, s.state) /\ InTag(s)
  BY InAttributes DEF BetweenStates
<1>2. Enters(s, s, "before_attribute_name_state")
  BY <1>1 DEF Enters, Fit, BetweenStates
<1>3. CASE c \in Space
  <2>1. c # "EOF"
        /\ after_attribute_value_quoted_state(s, c) = SwitchToState(s, "before_attribute_name_state")
    BY <1>3 DEF after_attribute_value_quoted_state, Space, Delimiters
  <2> QED BY <1>2, <2>1, SwitchKept
<1>4. CASE c \in Delimiters
  <2>1. after_attribute_value_quoted_state(s, c) = Delimited(s, c)
    BY <1>4 DEF after_attribute_value_quoted_state, Space, Delimiters
  <2> QED BY <1>1, <1>4, <2>1, DelimitedRead
<1>5. CASE c \notin Space \cup Delimiters
  <2>1. after_attribute_value_quoted_state(s, c) = ReadAgain(s, "before_attribute_name_state", c)
    BY <1>5 DEF after_attribute_value_quoted_state
  <2> QED BY <1>2, <2>1, ReadAgainKept
<1> QED BY <1>3, <1>4, <1>5

LEMMA SelfClosingRead ==
    ASSUME NEW s, NEW c, Ready(s, c), s.state = "self_closing_start_tag_state"
    PROVE  Kept(s, c, self_closing_start_tag_state(s, c))
<1>1. Alike(s, s) /\ Fit(s, s.state) /\ InTag(s)
  BY InAttributes DEF BetweenStates
<1>2. CASE c \in {">", "EOF"}
  <2>1. self_closing_start_tag_state(s, c) = Delimited(s, c)
    BY <1>2 DEF self_closing_start_tag_state
  <2> QED BY <1>1, <1>2, <2>1, DelimitedRead DEF Delimiters
<1>3. CASE c \notin {">", "EOF"}
  <2>1. Enters(s, s, "before_attribute_name_state")
    BY <1>1 DEF Enters, Fit, BetweenStates
  <2>2. self_closing_start_tag_state(s, c) = ReadAgain(s, "before_attribute_name_state", c)
    BY <1>3 DEF self_closing_start_tag_state
  <2> QED BY <2>1, <2>2, ReadAgainKept
<1> QED BY <1>2, <1>3

-------------------------------------------------------------------------------
(* Comments and declarations.                                                  *)

\* The states of a comment.
LEMMA InComment ==
    ASSUME NEW s, NEW c, Ready(s, c), s.state \in CommentStates \cup {"bogus_comment_state"}
    PROVE  /\ Alike(s, s) /\ Going(s) /\ c \in Chars /\ Fit(s, s.state)
           /\ s.content = "data" /\ s.comment /\ CommentGrows(s) = s
           /\ s.state \notin {"data_state", "attribute_name_state"}
           /\ \A Y \in CommentStates : Fit(s, Y)
           /\ Moved(s, EndComment(s))
<1>1. s.state \notin {"data_state", "attribute_name_state"}
  BY DEF CommentStates
<1>2. Going(s) /\ c \in Chars /\ Fit(s, s.state) /\ Alike(s, s)
  BY <1>1, AlikeSelf DEF Ready
<1>3. s.content = "data" /\ s.comment
  BY <1>2, FittedData
<1>4. CommentGrows(s) = s
  BY <1>3 DEF CommentGrows
<1>5. \A Y \in CommentStates : Fit(s, Y)
  BY <1>3 DEF Fit
<1>6. Moved(s, EndComment(s))
  BY <1>1, <1>2, <1>3, CommentGiven
<1> QED BY <1>1, <1>2, <1>3, <1>4, <1>5, <1>6

LEMMA BogusCommentRead ==
    ASSUME NEW s, NEW c, Ready(s, c), s.state = "bogus_comment_state"
    PROVE  Kept(s, c, bogus_comment_state(s, c))
<1>1. Alike(s, s) /\ Fit(s, s.state) /\ CommentGrows(s) = s /\ Moved(s, EndComment(s))
  BY InComment
<1>2. CASE c = ">"
  BY <1>1, <1>2, MovedKept DEF bogus_comment_state
<1>3. CASE c = "EOF"
  BY <1>1, <1>3, AgainKept DEF bogus_comment_state
<1>4. CASE c \notin {">", "EOF"}
  <2>1. bogus_comment_state(s, c) = s
    BY <1>1, <1>4 DEF bogus_comment_state
  <2> QED BY <1>1, <1>4, <2>1, StayKept
<1> QED BY <1>2, <1>3, <1>4

LEMMA CommentRead ==
    ASSUME NEW s, NEW c, Ready(s, c), s.state \in CommentStates
    PROVE  Kept(s, c, comment(s, c))
<1>1. /\ Alike(s, s) /\ Going(s) /\ CommentGrows(s) = s /\ Moved(s, EndComment(s))
      /\ s.state # "attribute_name_state"
      /\ \A Y \in CommentStates : Fit(s, Y)
  BY InComment
<1>2. CASE c = "-"
  <2>1. PICK Y \in CommentStates : comment(s, c) = StayIn(s, Y)
    BY <1>2 DEF comment, CommentStates
  <2>2. Fit(s, Y) /\ Y # "character_reference_in_attribute_value_state"
    BY <1>1 DEF CommentStates
  <2>3. <<>> \in Seq(Chars)
    BY Literals
  <2> QED BY <1>1, <1>2, <2>1, <2>2, <2>3, StayInGiveKept
<1>3. CASE c = ">" /\ s.state \notin {"comment_state", "comment_end_dash_state"}
  <2>1. comment(s, c) = EndComment(s)
    BY <1>3 DEF comment
  <2> QED BY <1>1, <1>3, <2>1, MovedKept
<1>4. CASE c = "!" /\ s.state = "comment_end_state"
  <2>1. Enters(s, s, "comment_end_bang_state")
    BY <1>1, <1>4 DEF Enters, CommentStates
  <2>2. comment(s, c) = SwitchToState(s, "comment_end_bang_state")
    BY <1>4 DEF comment
  <2> QED BY <1>4, <2>1, <2>2, SwitchKept
<1>5. CASE c = "EOF"
  <2>1. comment(s, c) = Again(EndComment(s), c)
    BY <1>5 DEF comment
  <2> QED BY <1>1, <2>1, AgainKept
<1>6. CASE /\ c \notin {"-", "EOF"}
           /\ ~ (c = ">" /\ s.state \notin {"comment_state", "comment_end_dash_state"})
           /\ ~ (c = "!" /\ s.state = "comment_end_state")
  <2>1. comment(s, c) = StayIn(s, "comment_state")
    BY <1>1, <1>6 DEF comment
  <2>2. Fit(s, "comment_state")
    BY <1>1 DEF CommentStates
  <2>3. <<>> \in Seq(Chars)
    BY Literals
  <2> QED BY <1>1, <1>6, <2>1, <2>2, <2>3, StayInGiveKept
<1> QED BY <1>2, <1>3, <1>4, <1>5, <1>6

\* The end of the input is taken for a character of a declaration or a keyword.
LEMMA Gathered ==
    ASSUME NEW s, Going(s), s.again = <<>>, NEW r, Alike(s, r), r.content = "data",
           r.state \in DeclarationStates \cup {"after_doctype_name_2_state"}
    PROVE  Kept(s, "EOF", r)
<1>1. DOMAIN r = Fields /\ Told(s, r)
  BY DEF Alike, Typed, Told, ToldText
<1>2. r.failure = "none" /\ r.again = <<>>
  BY DEF Alike
<1>3. ~ r.ended
  <2>1. Stream(r) = Stream(s) /\ ~ s.ended
    BY DEF Alike, Going
  <2> QED BY <2>1 DEF Stream
<1>4. Stuck(r)
  BY <1>2, <1>3 DEF Stuck
<1> QED BY <1>1, <1>4 DEF Kept

\* The characters of a declaration are read again as a comment.
LEMMA ReplayKept ==
    ASSUME NEW s, NEW c, Ready(s, c), NEW r, Alike(s, r), r.content = "data",
           r.state \in DeclarationStates, r.declaration \in Seq(Chars),
           c # "EOF" => NoEof(r.declaration), c = "EOF" => Coming(r.declaration)
    PROVE  Kept(s, c, Replay(r))
<1>1. PICK q : q = NewComment(r)
  OBVIOUS
<1>2. Alike(s, q) /\ q.comment /\ q.state = r.state /\ q.content = "data"
      /\ q.declaration = r.declaration
  BY <1>1, Commented
<1>3. Enters(s, q, "bogus_comment_state")
  BY <1>2 DEF Enters, Fit, DeclarationStates
<1>4. PICK t : t = SwitchToState(q, "bogus_comment_state")
  OBVIOUS
<1>5. Moved(s, t) /\ DOMAIN t = Fields
  BY <1>3, <1>4, Switching DEF Enters, Ready, Moved, Typed
<1>6. PICK u : u = [t EXCEPT !.replaying = TRUE, !.behind = Len(r.again)]
  OBVIOUS
<1>7. Same(u, t) /\ u.again = t.again
  BY <1>5, <1>6 DEF Same, Fields
<1>8. Moved(s, u)
  <2>1. t.again = s.again /\ s.again \in Seq(Chars)
    BY <1>5 DEF Moved, Ready, Going, Typed
  <2>2. /\ Typed(u) /\ Stream(u) = Stream(t) /\ u.out = t.out /\ u.failure = t.failure
        /\ u.ended = t.ended /\ u.state = t.state /\ Fit(u, u.state)
    BY <1>5, <1>7, <2>1, SameFits DEF Moved
  <2>3. Told(s, u)
    BY <1>5, <2>2 DEF Moved, Told, ToldText
  <2> QED BY <1>5, <1>7, <2>1, <2>2, <2>3 DEF Moved
<1>9. Replay(r) = ReadAll(u, r.declaration)
  <2>1. Replay(r) = [ReadAll(t, r.declaration) EXCEPT !.replaying = TRUE, !.behind = Len(r.again)]
    BY <1>1, <1>4 DEF Replay
  <2> QED BY <1>5, <1>6, <2>1 DEF ReadAll, Fields
<1> QED BY <1>8, <1>9, ReadAllKept

LEMMA MarkupDeclarationRead ==
    ASSUME NEW s, NEW c, Ready(s, c), s.state \in DeclarationStates
    PROVE  Kept(s, c, markup_declaration_open(s, c))
<1>1. /\ Alike(s, s) /\ Going(s) /\ c \in Chars /\ s.content = "data" /\ NoEof(s.declaration)
      /\ s.declaration \in Seq(Chars)
      /\ c = "EOF" => s.again = <<>>
  <2>1. Fit(s, s.state)
    BY DEF Ready, DeclarationStates
  <2>2. s.content = "data" /\ NoEof(s.declaration)
    BY <2>1, FittedData
  <2> QED BY <2>2, AlikeSelf DEF Ready, Going, Typed
<1>2. PICK d : d = Append(s.declaration, c)
  OBVIOUS
<1>3. /\ d \in Seq(Chars) /\ (c # "EOF" => NoEof(d)) /\ (c = "EOF" => Coming(d))
  BY <1>1, <1>2, EofAppended
<1>4. Len(d) \in Nat /\ Len(d) > 0 /\ d[Len(d)] = c
  BY <1>1, <1>2
<1>5. PICK r : r = [s EXCEPT !.declaration = d]
  OBVIOUS
<1>6. Alike(s, r) /\ r.declaration = d /\ r.state = s.state /\ r.content = "data"
  BY <1>1, <1>3, <1>5, Declared
<1>7. Kept(s, c, r)
  <2>1. CASE c = "EOF"
    BY <1>1, <1>6, <2>1, Gathered
  <2>2. CASE c # "EOF"
    <3>1. Fit(r, r.state)
      BY <1>3, <1>6, <2>2 DEF Fit
    <3> QED BY <1>6, <2>2, <3>1, StayKept
  <2> QED BY <2>1, <2>2
<1>8. CASE s.state = "markup_declaration_open_state"
  <2>1. CASE Len(d) # 2
    <3>1. markup_declaration_open(s, c) = r
      BY <1>2, <1>5, <1>6, <1>8, <2>1 DEF markup_declaration_open
    <3> QED BY <1>7, <3>1
  <2>2. CASE Len(d) = 2 /\ d = <<"-", "-">>
    <3>1. c # "EOF"
      BY <1>4, <2>2
    <3>2. PICK q : q = NewComment(r)
      OBVIOUS
    <3>3. Alike(s, q) /\ q.comment /\ q.state = r.state /\ q.content = "data"
      BY <1>6, <3>2, Commented
    <3>4. Enters(s, q, "comment_start_state_state")
      BY <1>6, <1>8, <3>3 DEF Enters, Fit, CommentStates
    <3>5. markup_declaration_open(s, c) = SwitchToState(q, "comment_start_state_state")
      BY <1>2, <1>5, <1>6, <1>8, <2>2, <3>2 DEF markup_declaration_open
    <3> QED BY <3>1, <3>4, <3>5, SwitchKept
  <2>3. CASE Len(d) = 2 /\ d # <<"-", "-">>
    <3>1. PICK t : t = SwitchToState(r, "markup_declaration_open_2_state")
      OBVIOUS
    <3>2. markup_declaration_open(s, c) = t
      BY <1>2, <1>5, <1>6, <1>8, <2>3, <3>1 DEF markup_declaration_open
    <3>3. CASE c = "EOF"
      <4>1. t = [r EXCEPT !.state = "markup_declaration_open_2_state"]
        BY <1>6, <1>8, <3>1 DEF SwitchToState
      <4>2. /\ DOMAIN t = Fields /\ t.state = "markup_declaration_open_2_state"
            /\ t.content = r.content /\ t.last = r.last /\ t.tag = r.tag
            /\ t.attribute_name = r.attribute_name /\ t.buffer = r.buffer
            /\ t.doctype = r.doctype /\ t.declaration = r.declaration
            /\ t.keyword = r.keyword /\ t.ref = r.ref /\ t.out = r.out /\ t.ended = r.ended
            /\ t.failure = r.failure /\ t.again = r.again
        BY <1>6, <4>1 DEF Alike, Typed, Fields
      <4>3. Typed(t)
        BY <1>6, <4>2 DEF Alike, Typed
      <4>4. Alike(s, t)
        BY <1>6, <4>2, <4>3 DEF Alike, Stream
      <4> QED BY <1>1, <1>6, <3>2, <3>3, <4>2, <4>4, Gathered DEF DeclarationStates
    <3>4. CASE c # "EOF"
      <4>1. Enters(s, r, "markup_declaration_open_2_state")
        BY <1>3, <1>6, <1>8, <3>4 DEF Enters, Fit, DeclarationStates
      <4> QED BY <3>1, <3>2, <3>4, <4>1, SwitchKept
    <3> QED BY <3>3, <3>4
  <2> QED BY <2>1, <2>2, <2>3
<1>9. CASE s.state = "markup_declaration_open_2_state"
  <2>1. CASE Len(d) # 7
    <3>1. markup_declaration_open(s, c) = r
      BY <1>2, <1>5, <1>6, <1>9, <2>1 DEF markup_declaration_open
    <3> QED BY <1>7, <3>1
  <2>2. CASE Len(d) = 7 /\ SameLetters(d, doctype)
    <3>1. c # "EOF" /\ c # "["
      <4>1. Lower(c) = "e"
        <5>1. [i \in DOMAIN d |-> Lower(d[i])][7] = Lower(d[7])
          BY <1>3, <2>2
        <5>2. doctype[7] = "e"
          BY DEF doctype
        <5> QED BY <1>4, <2>2, <5>1, <5>2 DEF SameLetters
      <4> QED BY <4>1, Alphabet
    <3>2. Enters(s, r, "doctype_state") /\ d # cdata
      <4>1. Enters(s, r, "doctype_state")
        BY <1>6, <1>9, DataEnters DEF PlainStates
      <4>2. d[7] # "["
        BY <1>4, <2>2, <3>1
      <4> QED BY <4>1, <4>2 DEF cdata
    <3>3. markup_declaration_open(s, c) = SwitchToState(r, "doctype_state")
      BY <1>2, <1>5, <1>6, <1>9, <2>2, <3>2 DEF markup_declaration_open
    <3> QED BY <3>1, <3>2, <3>3, SwitchKept
  <2>3. CASE Len(d) = 7 /\ ~ SameLetters(d, doctype) /\ d = cdata
    <3>1. c # "EOF"
      BY <1>4, <2>3 DEF cdata
    <3>2. Enters(s, r, "cdata_section_state")
      BY <1>6, <1>9, DataEnters DEF PlainStates
    <3>3. markup_declaration_open(s, c) = SwitchToState(r, "cdata_section_state")
      BY <1>2, <1>5, <1>6, <1>9, <2>3 DEF markup_declaration_open
    <3> QED BY <3>1, <3>2, <3>3, SwitchKept
  <2>4. CASE Len(d) = 7 /\ ~ SameLetters(d, doctype) /\ d # cdata
    <3>1. markup_declaration_open(s, c) = Replay(r)
      BY <1>2, <1>5, <1>6, <1>9, <2>4 DEF markup_declaration_open
    <3> QED BY <1>3, <1>6, <3>1, ReplayKept
  <2> QED BY <2>1, <2>2, <2>3, <2>4
<1> QED BY <1>8, <1>9 DEF DeclarationStates

LEMMA CdataRead ==
    ASSUME NEW s, NEW c, Ready(s, c),
           s.state \in {"cdata_section_state", "cdata_section_2_state", "cdata_section_3_state"}
    PROVE  Kept(s, c, cdata_section(s, c))
<1>1. s.state \in PlainStates \ {"data_state"}
  BY DEF PlainStates
<1>2. /\ Alike(s, s) /\ Fit(s, s.state) /\ s.content = "data" /\ s.state # "attribute_name_state"
      /\ <<c>> \in Seq(Chars)
  BY <1>1, InData
<1>3. \A Y \in PlainStates : Y # s.state => Enters(s, s, Y)
  BY <1>2, DataEnters
<1>4. CASE s.state = "cdata_section_state"
  <2>1. CASE c = "]"
    <3>1. cdata_section(s, c) = SwitchToState(s, "cdata_section_2_state")
      BY <1>4, <2>1 DEF cdata_section
    <3> QED BY <1>3, <1>4, <2>1, <3>1, SwitchKept DEF PlainStates
  <2>2. CASE c = "EOF"
    <3>1. cdata_section(s, c) = Abandon(s)
      BY <1>4, <2>2 DEF cdata_section
    <3> QED BY <1>4, <2>2, <3>1, Abandoning
  <2>3. CASE c \notin {"]", "EOF"}
    <3>1. cdata_section(s, c) = EmitCharacters(s, <<c>>)
      BY <1>4, <2>3 DEF cdata_section, EmitCharacter
    <3> QED BY <1>2, <2>3, <3>1, GiveKept
  <2> QED BY <2>1, <2>2, <2>3
<1>5. CASE s.state = "cdata_section_2_state"
  <2>1. CASE c = "]"
    <3>1. cdata_section(s, c) = SwitchToState(s, "cdata_section_3_state")
      BY <1>5, <2>1 DEF cdata_section
    <3> QED BY <1>3, <1>5, <2>1, <3>1, SwitchKept DEF PlainStates
  <2>2. CASE c # "]"
    <3>1. cdata_section(s, c) = ReadAgain(EmitCharacters(s, <<"]">>), "cdata_section_state", c)
      BY <1>5, <2>2 DEF cdata_section, EmitCharacter
    <3> QED BY <1>3, <1>5, <3>1, Literals, GiveReadAgainKept DEF PlainStates
  <2> QED BY <2>1, <2>2
<1>6. CASE s.state = "cdata_section_3_state"
  <2>1. CASE c = ">"
    <3>1. cdata_section(s, c) = SwitchToState(s, "data_state")
      BY <1>6, <2>1 DEF cdata_section
    <3> QED BY <1>3, <1>6, <2>1, <3>1, SwitchKept DEF PlainStates
  <2>2. CASE c # ">"
    <3>1. cdata_section(s, c) = ReadAgain(EmitCharacters(s, <<"]", "]">>), "cdata_section_state", c)
      BY <1>6, <2>2 DEF cdata_section
    <3> QED BY <1>3, <1>6, <3>1, Literals, GiveReadAgainKept DEF PlainStates
  <2> QED BY <2>1, <2>2
<1> QED BY <1>4, <1>5, <1>6

-------------------------------------------------------------------------------
(* DOCTYPEs.                                                                   *)

\* A DOCTYPE, at its end or at that of the input.
LEMMA DoctypeEnds ==
    ASSUME NEW s, NEW c, Ready(s, c), NEW d, Alike(s, d), d.out = <<>>, d.content = "data",
           d.state \notin {"data_state", "attribute_name_state"}, d.doctype.given
    PROVE  /\ c # "EOF" => Kept(s, c, EndDocType(d))
           /\ c = "EOF" => Kept(s, c, CutShort(d))
<1>1. Moved(s, EndDocType(d))
  BY DocTypeGiven DEF Ready
<1>2. c # "EOF" => Kept(s, c, EndDocType(d))
  BY <1>1, MovedKept
<1>3. c = "EOF" => Kept(s, c, CutShort(d))
  BY <1>1, AgainKept DEF CutShort
<1> QED BY <1>2, <1>3

\* A DOCTYPE is begun.
LEMMA DoctypeBegun ==
    ASSUME NEW s, NEW c, Ready(s, c), s.state \in {"doctype_state", "before_doctype_name_state"}
    PROVE  LET d == NewDocType(s)
           IN  /\ Alike(s, d) /\ d.out = <<>> /\ d.content = "data" /\ d.state = s.state
               /\ d.doctype.given
<1>1. Alike(s, s) /\ s.content = "data" /\ s.out = <<>>
  BY InData DEF PlainStates, Going
<1>2. PICK new : new = [NoDocType EXCEPT !.given = TRUE]
  OBVIOUS
<1>3. DOMAIN new = {"given", "public", "system"} /\ new.given
  BY <1>2 DEF NoDocType
<1>4. PICK d : d = [s EXCEPT !.doctype = new]
  OBVIOUS
<1>5. /\ Alike(s, d) /\ d.doctype = new /\ d.state = s.state /\ d.content = s.content
      /\ d.out = s.out
  BY <1>1, <1>3, <1>4, NewDoctype
<1>6. NewDocType(s) = d
  BY <1>2, <1>4 DEF NewDocType
<1> QED BY <1>1, <1>3, <1>5, <1>6

LEMMA DoctypeRead ==
    ASSUME NEW s, NEW c, Ready(s, c), s.state = "doctype_state"
    PROVE  Kept(s, c, doctype_state(s, c))
<1>1. Alike(s, s) /\ s.content = "data"
  BY InData DEF PlainStates
<1>2. Enters(s, s, "before_doctype_name_state")
  BY <1>1, DataEnters DEF PlainStates
<1>3. CASE c \in Space
  <2>1. c # "EOF" /\ doctype_state(s, c) = SwitchToState(s, "before_doctype_name_state")
    BY <1>3 DEF doctype_state, Space
  <2> QED BY <1>2, <2>1, SwitchKept
<1>4. CASE c = "EOF"
  <2>1. doctype_state(s, c) = CutShort(NewDocType(s))
    BY <1>4 DEF doctype_state, Space
  <2> QED BY <1>4, <2>1, DoctypeBegun, DoctypeEnds
<1>5. CASE c \notin Space \cup {"EOF"}
  <2>1. doctype_state(s, c) = ReadAgain(s, "before_doctype_name_state", c)
    BY <1>5 DEF doctype_state
  <2> QED BY <1>2, <2>1, ReadAgainKept
<1> QED BY <1>3, <1>4, <1>5

LEMMA BeforeDoctypeNameRead ==
    ASSUME NEW s, NEW c, Ready(s, c), s.state = "before_doctype_name_state"
    PROVE  Kept(s, c, before_doctype_name_state(s, c))
<1>1. Alike(s, s) /\ Fit(s, s.state)
  BY InData DEF PlainStates
<1>2. PICK d : d = NewDocType(s)
  OBVIOUS
<1>3. Alike(s, d) /\ d.out = <<>> /\ d.content = "data" /\ d.state = s.state /\ d.doctype.given
  BY <1>2, DoctypeBegun
<1>4. CASE c \in Space
  <2>1. c # "EOF" /\ before_doctype_name_state(s, c) = s
    BY <1>4 DEF before_doctype_name_state, Space
  <2> QED BY <1>1, <2>1, StayKept
<1>5. CASE c = ">"
  <2>1. before_doctype_name_state(s, c) = EndDocType(d)
    BY <1>2, <1>5 DEF before_doctype_name_state, Space
  <2> QED BY <1>3, <1>5, <2>1, DoctypeEnds
<1>6. CASE c = "EOF"
  <2>1. before_doctype_name_state(s, c) = CutShort(d)
    BY <1>2, <1>6 DEF before_doctype_name_state, Space
  <2> QED BY <1>3, <1>6, <2>1, DoctypeEnds
<1>7. CASE c \notin Space \cup {">", "EOF"}
  <2>1. Enters(s, d, "doctype_name_state")
    BY <1>3 DEF Enters, Fit, DoctypeStates
  <2>2. before_doctype_name_state(s, c) = SwitchToState(d, "doctype_name_state")
    BY <1>2, <1>7 DEF before_doctype_name_state
  <2> QED BY <1>7, <2>1, <2>2, SwitchKept
<1> QED BY <1>4, <1>5, <1>6, <1>7

\* The states of a DOCTYPE.
LEMMA InDoctype ==
    ASSUME NEW s, NEW c, Ready(s, c),
           s.state \in DoctypeStates \cup PublicStates \cup SystemStates
                         \cup {"after_doctype_name_2_state"}
    PROVE  /\ Alike(s, s) /\ Going(s) /\ c \in Chars /\ Fit(s, s.state)
           /\ s.content = "data" /\ s.doctype.given /\ DocTypeGrows(s) = s
           /\ s.state \notin {"data_state", "attribute_name_state"}
           /\ \A Y \in DoctypeStates : Fit(s, Y)
           /\ c # "EOF" => Kept(s, c, EndDocType(s))
           /\ c = "EOF" => Kept(s, c, CutShort(s))
<1>1. s.state \notin {"data_state", "attribute_name_state"}
  BY DEF DoctypeStates, PublicStates, SystemStates
<1>2. Going(s) /\ c \in Chars /\ Fit(s, s.state) /\ Alike(s, s) /\ s.out = <<>>
  BY <1>1, AlikeSelf DEF Ready, Going
<1>3. s.content = "data" /\ s.doctype.given
  BY <1>2, FittedDoctype
<1>4. DocTypeGrows(s) = s
  BY <1>3 DEF DocTypeGrows
<1>5. \A Y \in DoctypeStates : Fit(s, Y)
  BY <1>3 DEF Fit
<1>6. /\ c # "EOF" => Kept(s, c, EndDocType(s))
      /\ c = "EOF" => Kept(s, c, CutShort(s))
  BY <1>1, <1>2, <1>3, DoctypeEnds
<1> QED BY <1>1, <1>2, <1>3, <1>4, <1>5, <1>6

LEMMA DoctypeNameRead ==
    ASSUME NEW s, NEW c, Ready(s, c), s.state = "doctype_name_state"
    PROVE  Kept(s, c, doctype_name_state(s, c))
<1>1. s.state \in DoctypeStates
  BY DEF DoctypeStates
<1>2. /\ Alike(s, s) /\ Fit(s, s.state) /\ DocTypeGrows(s) = s
      /\ \A Y \in DoctypeStates : Fit(s, Y)
      /\ c # "EOF" => Kept(s, c, EndDocType(s))
      /\ c = "EOF" => Kept(s, c, CutShort(s))
  BY <1>1, InDoctype
<1>3. CASE c \in Space
  <2>1. c # "EOF" /\ doctype_name_state(s, c) = SwitchToState(s, "after_doctype_name_state")
    BY <1>3 DEF doctype_name_state, Space
  <2>2. Enters(s, s, "after_doctype_name_state")
    BY <1>2 DEF Enters, DoctypeStates
  <2> QED BY <2>1, <2>2, SwitchKept
<1>4. CASE c = ">"
  BY <1>2, <1>4 DEF doctype_name_state, Space
<1>5. CASE c = "EOF"
  BY <1>2, <1>5 DEF doctype_name_state, Space
<1>6. CASE c \notin Space \cup {">", "EOF"}
  <2>1. doctype_name_state(s, c) = s
    BY <1>2, <1>6 DEF doctype_name_state
  <2> QED BY <1>2, <1>6, <2>1, StayKept
<1> QED BY <1>3, <1>4, <1>5, <1>6

LEMMA AfterDoctypeNameRead ==
    ASSUME NEW s, NEW c, Ready(s, c), s.state = "after_doctype_name_state"
    PROVE  Kept(s, c, after_doctype_name_state(s, c))
<1>1. s.state \in DoctypeStates
  BY DEF DoctypeStates
<1>2. /\ Alike(s, s) /\ Fit(s, s.state) /\ c \in Chars /\ s.content = "data" /\ s.doctype.given
      /\ c # "EOF" => Kept(s, c, EndDocType(s))
      /\ c = "EOF" => Kept(s, c, CutShort(s))
  BY <1>1, InDoctype
<1>3. CASE c \in Space
  <2>1. c # "EOF" /\ after_doctype_name_state(s, c) = s
    BY <1>3 DEF after_doctype_name_state, Space
  <2> QED BY <1>2, <2>1, StayKept
<1>4. CASE c = ">"
  BY <1>2, <1>4 DEF after_doctype_name_state, Space
<1>5. CASE c = "EOF"
  BY <1>2, <1>5 DEF after_doctype_name_state, Space
<1>6. CASE c \notin Space \cup {">", "EOF"}
  <2>1. PICK k : k = <<c>>
    OBVIOUS
  <2>2. k \in Seq(Chars) /\ NoEof(k)
    BY <1>2, <1>6, <2>1, One
  <2>3. PICK q : q = [s EXCEPT !.keyword = k]
    OBVIOUS
  <2>4. /\ Alike(s, q) /\ q.keyword = k /\ q.state = s.state /\ q.content = s.content
        /\ q.doctype = s.doctype
    BY <1>2, <2>2, <2>3, Keyword
  <2>5. Enters(s, q, "after_doctype_name_2_state")
    BY <1>2, <2>2, <2>4 DEF Enters, Fit
  <2>6. after_doctype_name_state(s, c) = SwitchToState(q, "after_doctype_name_2_state")
    BY <1>6, <2>1, <2>3 DEF after_doctype_name_state
  <2> QED BY <1>6, <2>5, <2>6, SwitchKept
<1> QED BY <1>3, <1>4, <1>5, <1>6

\* The last letter of a keyword is one.
LEMMA KeywordLast ==
    ASSUME NEW k \in Seq(Chars), Len(k) = 6, NEW word \in {public_keyword, system_keyword},
           SameLetters(k, word)
    PROVE  /\ k[6] # "EOF"
           /\ word = public_keyword => ~ SameLetters(k, system_keyword)
<1>1. [i \in DOMAIN k |-> Lower(k[i])][6] = Lower(k[6])
  OBVIOUS
<1>2. word[6] \in {"c", "m"}
  BY DEF public_keyword, system_keyword
<1>3. k[6] # "EOF"
  BY <1>1, <1>2, Alphabet DEF SameLetters
<1>4. public_keyword[6] # system_keyword[6]
  BY DEF public_keyword, system_keyword
<1> QED BY <1>3, <1>4 DEF SameLetters

LEMMA KeywordRead ==
    ASSUME NEW s, NEW c, Ready(s, c), s.state = "after_doctype_name_2_state"
    PROVE  Kept(s, c, after_doctype_name_2_state(s, c))
<1>1. /\ Alike(s, s) /\ Going(s) /\ Fit(s, s.state) /\ c \in Chars /\ s.content = "data"
      /\ s.doctype.given
  BY InDoctype
<1>2. NoEof(s.keyword) /\ s.keyword \in Seq(Chars)
  BY <1>1, FittedDoctype DEF Going, Typed
<1>3. PICK k : k = Append(s.keyword, c)
  OBVIOUS
<1>4. /\ k \in Seq(Chars) /\ (c # "EOF" => NoEof(k)) /\ (c = "EOF" => Coming(k))
  BY <1>1, <1>2, <1>3, EofAppended
<1>5. k[Len(k)] = c
  BY <1>1, <1>2, <1>3
<1>6. PICK r : r = [s EXCEPT !.keyword = k]
  OBVIOUS
<1>7. /\ Alike(s, r) /\ r.keyword = k /\ r.state = s.state /\ r.content = "data"
      /\ r.doctype.given /\ DocTypeGrows(r) = r
  <2>1. Alike(s, r) /\ r.keyword = k /\ r.state = s.state /\ r.content = s.content
        /\ r.doctype = s.doctype
    BY <1>1, <1>4, <1>6, Keyword
  <2> QED BY <1>1, <2>1 DEF DocTypeGrows
<1>8. \A Y \in DoctypeStates : Enters(s, r, Y)
  BY <1>7 DEF Enters, Fit, DoctypeStates
<1>9. CASE Len(k) # 6
  <2>1. after_doctype_name_2_state(s, c) = r
    BY <1>3, <1>6, <1>7, <1>9 DEF after_doctype_name_2_state
  <2>2. CASE c = "EOF"
    <3>1. s.again = <<>>
      BY <2>2 DEF Ready
    <3> QED BY <1>1, <1>7, <2>1, <2>2, <3>1, Gathered
  <2>3. CASE c # "EOF"
    <3>1. Fit(r, r.state)
      BY <1>4, <1>7, <2>3 DEF Fit
    <3> QED BY <1>7, <2>1, <2>3, <3>1, StayKept
  <2> QED BY <2>2, <2>3
<1>10. CASE Len(k) = 6 /\ SameLetters(k, public_keyword)
  <2>1. c # "EOF" /\ ~ SameLetters(k, system_keyword)
    BY <1>4, <1>5, <1>10, KeywordLast
  <2>2. after_doctype_name_2_state(s, c) = SwitchToState(r, "after_doctype_public_keyword_state")
    BY <1>3, <1>6, <1>7, <1>10, <2>1 DEF after_doctype_name_2_state
  <2> QED BY <1>8, <2>1, <2>2, SwitchKept DEF DoctypeStates
<1>11. CASE Len(k) = 6 /\ ~ SameLetters(k, public_keyword) /\ SameLetters(k, system_keyword)
  <2>1. c # "EOF"
    BY <1>4, <1>5, <1>11, KeywordLast
  <2>2. after_doctype_name_2_state(s, c) = SwitchToState(r, "after_doctype_system_keyword_state")
    BY <1>3, <1>6, <1>7, <1>11 DEF after_doctype_name_2_state
  <2> QED BY <1>8, <2>1, <2>2, SwitchKept DEF DoctypeStates
<1>12. CASE Len(k) = 6 /\ ~ SameLetters(k, public_keyword) /\ ~ SameLetters(k, system_keyword)
  <2>1. Moved(s, SwitchToState(r, "bogus_doctype_state"))
    <3>1. Enters(s, r, "bogus_doctype_state")
      BY <1>8 DEF DoctypeStates
    <3> QED BY <1>1, <3>1, Switching DEF Enters
  <2>2. after_doctype_name_2_state(s, c) = ReadAll(SwitchToState(r, "bogus_doctype_state"), k)
    BY <1>3, <1>6, <1>7, <1>12 DEF after_doctype_name_2_state
  <2> QED BY <1>4, <2>1, <2>2, ReadAllKept
<1> QED BY <1>9, <1>10, <1>11, <1>12

\* Where the quotes of an identifier lead.
LEMMA QuoteStates ==
    ASSUME NEW which \in {"public", "system"}
    PROVE  /\ Quoted[which].after \in DoctypeStates
           /\ which = "public" => Quoted[which].double \in PublicStates
                                  /\ Quoted[which].single \in PublicStates
           /\ which = "system" => Quoted[which].double \in SystemStates
                                  /\ Quoted[which].single \in SystemStates
<1>1. CASE which = "public"
  <2>1. Quoted.public = [after |-> "after_doctype_public_identifier_state",
                         single |-> "doctype_public_identifier_single_quoted_state",
                         double |-> "doctype_public_identifier_double_quoted_state"]
    BY DEF Quoted
  <2> QED BY <1>1, <2>1 DEF DoctypeStates, PublicStates
<1>2. CASE which = "system"
  <2>1. Quoted.system = [after |-> "after_doctype_system_identifier_state",
                         single |-> "doctype_system_identifier_single_quoted_state",
                         double |-> "doctype_system_identifier_double_quoted_state"]
    BY DEF Quoted
  <2> QED BY <1>2, <2>1 DEF DoctypeStates, SystemStates
<1> QED BY <1>1, <1>2

\* Before an identifier.
LEMMA BeforeIdentifierRead ==
    ASSUME NEW s, NEW c, Ready(s, c), s.state \in DoctypeStates,
           s.state # "bogus_doctype_state", NEW which \in {"public", "system"},
           NEW after_space \in DoctypeStates
    PROVE  Kept(s, c, BeforeIdentifier(s, c, which, after_space))
<1>1. /\ Alike(s, s) /\ Fit(s, s.state) /\ s.content = "data" /\ s.doctype.given
      /\ DocTypeGrows(s) = s /\ s.state # "attribute_name_state"
      /\ \A Y \in DoctypeStates : Fit(s, Y)
      /\ c # "EOF" => Kept(s, c, EndDocType(s))
      /\ c = "EOF" => Kept(s, c, CutShort(s))
  BY InDoctype
<1>2. CASE c \in Space
  <2>1. c # "EOF" /\ BeforeIdentifier(s, c, which, after_space) = StayIn(s, after_space)
    BY <1>2 DEF BeforeIdentifier, Space
  <2>2. after_space # "character_reference_in_attribute_value_state" /\ <<>> \in Seq(Chars)
    BY Literals DEF DoctypeStates
  <2> QED BY <1>1, <2>1, <2>2, StayInGiveKept
<1>3. CASE c \in {"double quote", "single quote"}
  <2>1. PICK d : d = IF which = "public" THEN [s.doctype EXCEPT !.public = TRUE]
                                         ELSE [s.doctype EXCEPT !.system = TRUE]
    OBVIOUS
  <2>2. /\ DOMAIN d = {"given", "public", "system"} /\ d.given
        /\ which = "public" => d.public
        /\ which = "system" => d.system
    BY <1>1, <2>1 DEF Alike, Typed
  <2>3. PICK r : r = [s EXCEPT !.doctype = d]
    OBVIOUS
  <2>4. /\ Alike(s, r) /\ r.doctype = d /\ r.state = s.state /\ r.content = s.content
    BY <1>1, <2>2, <2>3, NewDoctype
  <2>5. DocTypeGrows(r) = r
    BY <2>2, <2>4 DEF DocTypeGrows
  <2>6. r = IF which = "public" THEN [s EXCEPT !.doctype.public = TRUE]
                                ELSE [s EXCEPT !.doctype.system = TRUE]
    BY <2>1, <2>3
  <2>7. PICK Y : Y = IF c = "double quote" THEN Quoted[which].double ELSE Quoted[which].single
    OBVIOUS
  <2>8. BeforeIdentifier(s, c, which, after_space) = SwitchToState(r, Y)
    BY <1>3, <2>5, <2>6, <2>7 DEF BeforeIdentifier, Space
  <2>9. /\ which = "public" => Y \in PublicStates
        /\ which = "system" => Y \in SystemStates
    BY <1>3, <2>7, QuoteStates
  <2>10. Fit(r, Y)
    BY <1>1, <2>2, <2>4, <2>9 DEF Fit
  <2>11. Enters(s, r, Y)
    BY <1>1, <2>4, <2>9, <2>10 DEF Enters, PublicStates, SystemStates, DoctypeStates
  <2> QED BY <1>3, <2>8, <2>11, SwitchKept
<1>4. CASE c = ">"
  BY <1>1, <1>4 DEF BeforeIdentifier, Space
<1>5. CASE c = "EOF"
  BY <1>1, <1>5 DEF BeforeIdentifier, Space
<1>6. CASE c \notin Space \cup {"double quote", "single quote", ">", "EOF"}
  <2>1. BeforeIdentifier(s, c, which, after_space) = SwitchToState(s, "bogus_doctype_state")
    BY <1>1, <1>6 DEF BeforeIdentifier
  <2>2. Enters(s, s, "bogus_doctype_state")
    BY <1>1 DEF Enters, DoctypeStates
  <2> QED BY <1>6, <2>1, <2>2, SwitchKept
<1> QED BY <1>2, <1>3, <1>4, <1>5, <1>6

LEMMA IdentifierRead ==
    ASSUME NEW s, NEW c, Ready(s, c), NEW which \in {"public", "system"},
           which = "public" => s.state \in PublicStates,
           which = "system" => s.state \in SystemStates,
           NEW quote \in {"double quote", "single quote"}
    PROVE  Kept(s, c, doctype_identifier_quoted(s, c, which, quote))
<1>1. s.state \in PublicStates \cup SystemStates
  OBVIOUS
<1>2. /\ Alike(s, s) /\ Fit(s, s.state)
      /\ \A Y \in DoctypeStates : Fit(s, Y)
      /\ c # "EOF" => Kept(s, c, EndDocType(s))
      /\ c = "EOF" => Kept(s, c, CutShort(s))
  BY <1>1, InDoctype
<1>3. /\ which = "public" => s.doctype.public
      /\ which = "system" => s.doctype.system
  BY <1>2, FittedDoctype
<1>4. CASE c = quote
  <2>1. PICK Y : Y = Quoted[which].after
    OBVIOUS
  <2>2. Y \in DoctypeStates
    BY <2>1, QuoteStates
  <2>3. Enters(s, s, Y)
    BY <1>1, <1>2, <2>2 DEF Enters, DoctypeStates, PublicStates, SystemStates
  <2>4. doctype_identifier_quoted(s, c, which, quote) = SwitchToState(s, Y)
    BY <1>4, <2>1 DEF doctype_identifier_quoted
  <2> QED BY <1>4, <2>3, <2>4, SwitchKept
<1>5. CASE c = ">"
  BY <1>2, <1>5 DEF doctype_identifier_quoted
<1>6. CASE c = "EOF"
  BY <1>2, <1>6 DEF doctype_identifier_quoted
<1>7. CASE c \notin {quote, ">", "EOF"}
  <2>1. doctype_identifier_quoted(s, c, which, quote) = s
    BY <1>3, <1>7 DEF doctype_identifier_quoted
  <2> QED BY <1>2, <1>7, <2>1, StayKept
<1> QED BY <1>4, <1>5, <1>6, <1>7

LEMMA DoctypePublicRead ==
    ASSUME NEW s, NEW c, Ready(s, c), s.state \in DoctypePublicStates
    PROVE  Kept(s, c, doctype_public(s, c))
<1>1. CASE s.state \in {"after_doctype_public_keyword_state",
                        "before_doctype_public_identifier_state"}
  <2>1. doctype_public(s, c)
          = BeforeIdentifier(s, c, "public", "before_doctype_public_identifier_state")
    BY <1>1 DEF doctype_public
  <2> QED BY <1>1, <2>1, BeforeIdentifierRead DEF DoctypeStates
<1>2. CASE s.state \in PublicStates
  <2>1. \/ doctype_public(s, c) = doctype_identifier_quoted(s, c, "public", "double quote")
        \/ doctype_public(s, c) = doctype_identifier_quoted(s, c, "public", "single quote")
    <3>1. CASE s.state = "doctype_public_identifier_double_quoted_state"
      BY <3>1 DEF doctype_public
    <3>2. CASE s.state = "doctype_public_identifier_single_quoted_state"
      BY <3>2 DEF doctype_public
    <3> QED BY <1>2, <3>1, <3>2 DEF PublicStates
  <2>2. \A quote \in {"double quote", "single quote"} :
           Kept(s, c, doctype_identifier_quoted(s, c, "public", quote))
    BY <1>2, IdentifierRead
  <2> QED BY <2>1, <2>2
<1> QED BY <1>1, <1>2 DEF DoctypePublicStates, PublicStates

LEMMA DoctypeSystemRead ==
    ASSUME NEW s, NEW c, Ready(s, c), s.state \in DoctypeSystemStates
    PROVE  Kept(s, c, doctype_system(s, c))
<1>1. CASE s.state \in {"after_doctype_system_keyword_state",
                        "before_doctype_system_identifier_state"}
  <2>1. doctype_system(s, c)
          = BeforeIdentifier(s, c, "system", "before_doctype_system_identifier_state")
    BY <1>1 DEF doctype_system
  <2> QED BY <1>1, <2>1, BeforeIdentifierRead DEF DoctypeStates
<1>2. CASE s.state \in SystemStates
  <2>1. \/ doctype_system(s, c) = doctype_identifier_quoted(s, c, "system", "double quote")
        \/ doctype_system(s, c) = doctype_identifier_quoted(s, c, "system", "single quote")
    <3>1. CASE s.state = "doctype_system_identifier_double_quoted_state"
      BY <3>1 DEF doctype_system
    <3>2. CASE s.state = "doctype_system_identifier_single_quoted_state"
      BY <3>2 DEF doctype_system
    <3> QED BY <1>2, <3>1, <3>2 DEF SystemStates
  <2>2. \A quote \in {"double quote", "single quote"} :
           Kept(s, c, doctype_identifier_quoted(s, c, "system", quote))
    BY <1>2, IdentifierRead
  <2> QED BY <2>1, <2>2
<1> QED BY <1>1, <1>2 DEF DoctypeSystemStates, SystemStates

LEMMA AfterDoctypePublicRead ==
    ASSUME NEW s, NEW c, Ready(s, c), s.state \in AfterDoctypePublicStates
    PROVE  Kept(s, c, after_doctype_public(s, c))
BY BeforeIdentifierRead DEF after_doctype_public, AfterDoctypePublicStates, DoctypeStates

LEMMA AfterDoctypeSystemRead ==
    ASSUME NEW s, NEW c, Ready(s, c), s.state = "after_doctype_system_identifier_state"
    PROVE  Kept(s, c, after_doctype_system_identifier_state(s, c))
<1>1. s.state \in DoctypeStates
  BY DEF DoctypeStates
<1>2. /\ Alike(s, s) /\ Fit(s, s.state)
      /\ \A Y \in DoctypeStates : Fit(s, Y)
      /\ c # "EOF" => Kept(s, c, EndDocType(s))
      /\ c = "EOF" => Kept(s, c, CutShort(s))
  BY <1>1, InDoctype
<1>3. CASE c \in Space
  <2>1. c # "EOF" /\ after_doctype_system_identifier_state(s, c) = s
    BY <1>3 DEF after_doctype_system_identifier_state, Space
  <2> QED BY <1>2, <2>1, StayKept
<1>4. CASE c = ">"
  BY <1>2, <1>4 DEF after_doctype_system_identifier_state, Space
<1>5. CASE c = "EOF"
  BY <1>2, <1>5 DEF after_doctype_system_identifier_state, Space
<1>6. CASE c \notin Space \cup {">", "EOF"}
  <2>1. after_doctype_system_identifier_state(s, c) = SwitchToState(s, "bogus_doctype_state")
    BY <1>6 DEF after_doctype_system_identifier_state
  <2>2. Enters(s, s, "bogus_doctype_state")
    BY <1>2 DEF Enters, DoctypeStates
  <2> QED BY <1>6, <2>1, <2>2, SwitchKept
<1> QED BY <1>3, <1>4, <1>5, <1>6

LEMMA BogusDoctypeRead ==
    ASSUME NEW s, NEW c, Ready(s, c), s.state = "bogus_doctype_state"
    PROVE  Kept(s, c, bogus_doctype_state(s, c))
<1>1. s.state \in DoctypeStates
  BY DEF DoctypeStates
<1>2. /\ Alike(s, s) /\ Fit(s, s.state)
      /\ c # "EOF" => Kept(s, c, EndDocType(s))
      /\ c = "EOF" => Kept(s, c, CutShort(s))
  BY <1>1, InDoctype
<1> QED BY <1>2, StayKept DEF bogus_doctype_state

-------------------------------------------------------------------------------
(* Every state.                                                                *)

LEMMA TextReferenceRead ==
    ASSUME NEW s, NEW c, Ready(s, c)
    PROVE  /\ s.state = "character_reference_in_data_state"
                => Kept(s, c, character_reference_in_data_state(s, c))
           /\ s.state = "character_reference_in_RCDATA_state"
                => Kept(s, c, character_reference_in_RCDATA_state(s, c))
<1>1. CASE s.state = "character_reference_in_data_state"
  <2>1. Fit(s, s.state)
    BY <1>1 DEF Ready
  <2>2. s.content = "data" /\ InReferenceFrame(s)
    BY <1>1, <2>1, FittedData
  <2> QED BY <1>1, <2>2, ReferenceRead DEF character_reference_in_data_state
<1>2. CASE s.state = "character_reference_in_RCDATA_state"
  <2>1. Fit(s, s.state)
    BY <1>2 DEF Ready
  <2>2. s.content = "RCDATA" /\ InReferenceFrame(s)
    BY <1>2, <2>1, FittedText
  <2> QED BY <1>2, <2>2, ReferenceRead DEF character_reference_in_RCDATA_state
<1> QED BY <1>1, <1>2

LEMMA EscapeWordsRead ==
    ASSUME NEW s, NEW c, Ready(s, c)
    PROVE  /\ s.state = "script_data_double_escape_start_state"
                => Kept(s, c, script_data_double_escape_start_state(s, c))
           /\ s.state = "script_data_double_escape_end_state"
                => Kept(s, c, script_data_double_escape_end_state(s, c))
BY EscapeWordRead DEF script_data_double_escape_start_state, script_data_double_escape_end_state

\* A text state.
LEMMA TextRead ==
    ASSUME NEW s, NEW c, Ready(s, c), s.state \in TextStates
    PROVE  Kept(s, c, TextDispatch(s, c))
<1> USE DEF RCDATATagStates, RAWTEXTTagStates, ScriptTagStates, EscapedStates, DoubleEscapedStates
<1>1. CASE s.state = "data_state"
  BY <1>1, DataRead DEF TextDispatch
<1>2. CASE s.state = "RCDATA_state"
  BY <1>2, RCDATARead DEF TextDispatch
<1>3. CASE s.state = "PLAINTEXT_state"
  BY <1>3, PlainTextRead DEF TextDispatch
<1>4. CASE s.state \in {"RAWTEXT_state", "script_data_state"}
  BY <1>4, RawTextRead DEF TextDispatch
<1>5. CASE s.state = "character_reference_in_data_state"
  BY <1>5, TextReferenceRead DEF TextDispatch
<1>6. CASE s.state = "character_reference_in_RCDATA_state"
  BY <1>6, TextReferenceRead DEF TextDispatch
<1>7. CASE s.state \in RCDATATagStates
  <2>1. TextDispatch(s, c) = RCDATA_end_tag(s, c)
    BY <1>7 DEF TextDispatch
  <2> QED BY <1>7, <2>1, RCDATAEndTagRead
<1>8. CASE s.state \in RAWTEXTTagStates
  <2>1. TextDispatch(s, c) = RAWTEXT_end_tag(s, c)
    BY <1>8 DEF TextDispatch
  <2> QED BY <1>8, <2>1, RAWTEXTEndTagRead
<1>9. CASE s.state \in ScriptTagStates
  <2>1. TextDispatch(s, c) = script_data_end_tag(s, c)
    BY <1>9 DEF TextDispatch
  <2> QED BY <1>9, <2>1, ScriptEndTagRead
<1>10. CASE s.state \in {"script_data_escape_start_state", "script_data_escape_start_dash_state"}
  <2>1. TextDispatch(s, c) = script_data_escape_start(s, c)
    BY <1>10 DEF TextDispatch
  <2> QED BY <1>10, <2>1, EscapeStartRead
<1>11. CASE s.state \in EscapedStates
  <2>1. TextDispatch(s, c) = script_data_escaped(s, c)
    BY <1>11 DEF TextDispatch
  <2> QED BY <1>11, <2>1, EscapedRead
<1>12. CASE s.state \in DoubleEscapedStates
  <2>1. TextDispatch(s, c) = script_data_double_escaped(s, c)
    BY <1>12 DEF TextDispatch
  <2> QED BY <1>12, <2>1, DoubleEscapedRead
<1>13. CASE s.state = "script_data_escaped_less_than_sign_state"
  BY <1>13, EscapedLessThanRead DEF TextDispatch
<1>14. CASE s.state \in {"script_data_escaped_end_tag_open_state",
                         "script_data_escaped_end_tag_name_state"}
  <2>1. TextDispatch(s, c) = script_data_escaped_end_tag(s, c)
    BY <1>14 DEF TextDispatch
  <2> QED BY <1>14, <2>1, EscapedEndTagRead
<1>15. CASE s.state = "script_data_double_escape_start_state"
  BY <1>15, EscapeWordsRead DEF TextDispatch
<1>16. CASE s.state = "script_data_double_escaped_less_than_sign_state"
  BY <1>16, DoubleEscapedLessThanRead DEF TextDispatch
<1>17. CASE s.state = "script_data_double_escape_end_state"
  BY <1>17, EscapeWordsRead DEF TextDispatch
<1> QED BY <1>1, <1>2, <1>3, <1>4, <1>5, <1>6, <1>7, <1>8, <1>9, <1>10, <1>11, <1>12, <1>13,
           <1>14, <1>15, <1>16, <1>17 DEF TextStates, ScriptStates

\* A state of markup.
LEMMA MarkupRead ==
    ASSUME NEW s, NEW c, Ready(s, c), s.state \in MarkupStates
    PROVE  Kept(s, c, MarkupDispatch(s, c))
<1> USE DEF CommentStates, DoctypePublicStates, AfterDoctypePublicStates, DoctypeSystemStates
<1>1. CASE s.state = "tag_open_state"
  BY <1>1, TagOpenRead DEF MarkupDispatch
<1>2. CASE s.state = "end_tag_open_state"
  BY <1>2, EndTagOpenStateRead DEF MarkupDispatch
<1>3. CASE s.state = "tag_name_state"
  BY <1>3, TagNameRead DEF MarkupDispatch
<1>4. CASE s.state = "before_attribute_name_state"
  BY <1>4, BeforeAttributeNameRead DEF MarkupDispatch
<1>5. CASE s.state = "attribute_name_state"
  BY <1>5, AttributeNameRead DEF MarkupDispatch
<1>6. CASE s.state = "after_attribute_name_state"
  BY <1>6, AfterAttributeNameRead DEF MarkupDispatch
<1>7. CASE s.state = "before_attribute_value_state"
  BY <1>7, BeforeAttributeValueRead DEF MarkupDispatch
<1>8. CASE s.state = "attribute_value_double_quoted_state"
  <2>1. MarkupDispatch(s, c) = attribute_value_quoted(s, c, "double quote")
    BY <1>8 DEF MarkupDispatch
  <2> QED BY <1>8, <2>1, ValueQuotedRead DEF ValueStates
<1>9. CASE s.state = "attribute_value_single_quoted_state"
  <2>1. MarkupDispatch(s, c) = attribute_value_quoted(s, c, "single quote")
    BY <1>9 DEF MarkupDispatch
  <2> QED BY <1>9, <2>1, ValueQuotedRead DEF ValueStates
<1>10. CASE s.state = "attribute_value_unquoted_state"
  BY <1>10, ValueUnquotedRead DEF MarkupDispatch
<1>11. CASE s.state = "character_reference_in_attribute_value_state"
  BY <1>11, ReferenceInValueRead DEF MarkupDispatch
<1>12. CASE s.state = "after_attribute_value_quoted_state"
  BY <1>12, AfterValueQuotedRead DEF MarkupDispatch
<1>13. CASE s.state = "self_closing_start_tag_state"
  BY <1>13, SelfClosingRead DEF MarkupDispatch
<1>14. CASE s.state = "bogus_comment_state"
  BY <1>14, BogusCommentRead DEF MarkupDispatch
<1>15. CASE s.state \in {"markup_declaration_open_state", "markup_declaration_open_2_state"}
  <2>1. MarkupDispatch(s, c) = markup_declaration_open(s, c)
    BY <1>15 DEF MarkupDispatch
  <2> QED BY <1>15, <2>1, MarkupDeclarationRead DEF DeclarationStates
<1>16. CASE s.state \in CommentStates
  <2>1. MarkupDispatch(s, c) = comment(s, c)
    BY <1>16 DEF MarkupDispatch
  <2> QED BY <1>16, <2>1, CommentRead
<1>17. CASE s.state \in {"cdata_section_state", "cdata_section_2_state", "cdata_section_3_state"}
  <2>1. MarkupDispatch(s, c) = cdata_section(s, c)
    BY <1>17 DEF MarkupDispatch
  <2> QED BY <1>17, <2>1, CdataRead
<1>18. CASE s.state = "doctype_state"
  BY <1>18, DoctypeRead DEF MarkupDispatch
<1>19. CASE s.state = "before_doctype_name_state"
  BY <1>19, BeforeDoctypeNameRead DEF MarkupDispatch
<1>20. CASE s.state = "doctype_name_state"
  BY <1>20, DoctypeNameRead DEF MarkupDispatch
<1>21. CASE s.state = "after_doctype_name_state"
  BY <1>21, AfterDoctypeNameRead DEF MarkupDispatch
<1>22. CASE s.state = "after_doctype_name_2_state"
  BY <1>22, KeywordRead DEF MarkupDispatch
<1>23. CASE s.state \in DoctypePublicStates
  <2>1. MarkupDispatch(s, c) = doctype_public(s, c)
    BY <1>23 DEF MarkupDispatch
  <2> QED BY <1>23, <2>1, DoctypePublicRead
<1>24. CASE s.state \in AfterDoctypePublicStates
  <2>1. MarkupDispatch(s, c) = after_doctype_public(s, c)
    BY <1>24 DEF MarkupDispatch
  <2> QED BY <1>24, <2>1, AfterDoctypePublicRead
<1>25. CASE s.state \in DoctypeSystemStates
  <2>1. MarkupDispatch(s, c) = doctype_system(s, c)
    BY <1>25 DEF MarkupDispatch
  <2> QED BY <1>25, <2>1, DoctypeSystemRead
<1>26. CASE s.state = "after_doctype_system_identifier_state"
  BY <1>26, AfterDoctypeSystemRead DEF MarkupDispatch
<1>27. CASE s.state = "bogus_doctype_state"
  BY <1>27, BogusDoctypeRead DEF MarkupDispatch
<1> HIDE DEF CommentStates, DoctypePublicStates, AfterDoctypePublicStates, DoctypeSystemStates
<1> QED BY <1>1, <1>2, <1>3, <1>4, <1>5, <1>6, <1>7, <1>8, <1>9, <1>10, <1>11, <1>12, <1>13,
           <1>14, <1>15, <1>16, <1>17, <1>18, <1>19, <1>20, <1>21, <1>22, <1>23, <1>24, <1>25,
           <1>26, <1>27 DEF MarkupStates

\* A state in which something is built is one of the two kinds.
LEMMA FitStates ==
    ASSUME NEW s, NEW Y, Fit(s, Y)
    PROVE  Y \in TextStates \cup MarkupStates
BY DEF Fit, PlainStates, BetweenStates, ValueStates, AttributeStates, CommentStates,
       DeclarationStates, DoctypeStates, PublicStates, SystemStates, PlainRCDATAStates,
       PlainRAWTEXTStates, PlainScriptStates, ScriptEndTagStates, TextStates, MarkupStates,
       ScriptStates, RCDATATagStates, RAWTEXTTagStates, ScriptTagStates, EscapedStates,
       DoubleEscapedStates, DoctypePublicStates, AfterDoctypePublicStates, DoctypeSystemStates

\* What one call of write_element comes to, whatever the state and the character.
LEMMA Written ==
    ASSUME NEW s, NEW c, Ready(s, c)
    PROVE  Kept(s, c, write_element(s, c))
<1>1. s.state \in TextStates \cup MarkupStates
  <2>1. CASE Fit(s, s.state)
    BY <2>1, FitStates
  <2>2. CASE s.state = "data_state"
    BY <2>2 DEF TextStates
  <2> QED BY <2>1, <2>2 DEF Ready
<1>2. CASE s.state \in TextStates
  BY <1>2, TextRead DEF write_element
<1>3. CASE s.state \notin TextStates
  BY <1>1, <1>3, MarkupRead DEF write_element
<1> QED BY <1>2, <1>3

-------------------------------------------------------------------------------
(* The parser.                                                                 *)

\* The input has no end of the input in it, and is all there is until it is closed.
Feeding == IsText(input) /\ (closed => input = <<>>)

\* Until the input is closed the tokenizer is fit to read on; from then on there is the
\* end of the input to come, or it has come, in one of the three ways it may.
TokenizerInv ==
    /\ DOMAIN tokenizer = Fields
    /\ \/ tokenizer.failure = "replay"
       \/ ~ closed /\ Sound(tokenizer) /\ NoEof(tokenizer.again)
       \/ closed /\ (Over(tokenizer) \/ Ending(tokenizer) \/ Stuck(tokenizer))
       \/ closed /\ Sound(tokenizer) /\ Coming(tokenizer.again)

IInv == Feeding /\ TokenizerInv

\* The first of two sequences, one after the other, and the rest.
LEMMA HeadTailOfConcat ==
    ASSUME NEW front \in Seq(Chars), front # <<>>, NEW e \in Seq(Chars)
    PROVE  Head(front \o e) = Head(front) /\ Tail(front \o e) = Tail(front) \o e
<1>1. PICK n \in Nat : n = Len(front) /\ n > 0
  OBVIOUS
<1>2. PICK m \in Nat : m = Len(e)
  OBVIOUS
<1>3. PICK q : q = front \o e
  OBVIOUS
<1>4. /\ q \in Seq(Chars) /\ Len(q) = n + m
      /\ \A i \in 1 .. n + m : q[i] = IF i <= n THEN front[i] ELSE e[i - n]
  BY <1>1, <1>2, <1>3, ConcatProperties
<1>5. PICK t : t = Tail(front)
  OBVIOUS
<1>6. t \in Seq(Chars) /\ Len(t) = n - 1 /\ \A i \in 1 .. n - 1 : t[i] = front[i + 1]
  BY <1>1, <1>5
<1>7. PICK u : u = t \o e
  OBVIOUS
<1>8. /\ u \in Seq(Chars) /\ Len(u) = (n - 1) + m
      /\ \A i \in 1 .. (n - 1) + m : u[i] = IF i <= n - 1 THEN t[i] ELSE e[i - (n - 1)]
  BY <1>1, <1>2, <1>6, <1>7, ConcatProperties
<1>9. PICK v : v = Tail(q)
  OBVIOUS
<1>10. /\ v \in Seq(Chars) /\ Len(v) = (n + m) - 1
       /\ \A i \in 1 .. (n + m) - 1 : v[i] = q[i + 1]
  BY <1>1, <1>4, <1>9
<1>11. ASSUME NEW i \in 1 .. (n + m) - 1 PROVE v[i] = u[i]
  <2>1. i + 1 \in 1 .. n + m /\ (i + 1) - n = i - (n - 1)
    OBVIOUS
  <2>2. v[i] = IF i + 1 <= n THEN front[i + 1] ELSE e[i - (n - 1)]
    BY <1>4, <1>10, <2>1
  <2>3. u[i] = IF i <= n - 1 THEN t[i] ELSE e[i - (n - 1)]
    BY <1>8
  <2>4. CASE i <= n - 1
    BY <1>6, <2>2, <2>3, <2>4
  <2>5. CASE ~ (i <= n - 1)
    BY <2>2, <2>3, <2>5
  <2> QED BY <2>4, <2>5
<1>12. v = u
  BY <1>8, <1>10, <1>11, SeqEqual
<1>13. Head(q) = Head(front)
  BY <1>1, <1>4
<1> QED BY <1>3, <1>5, <1>7, <1>9, <1>12, <1>13

\* The first of what is to be read again, and the rest.
LEMMA FirstComing ==
    ASSUME NEW q, Coming(q)
    PROVE  /\ q \in Seq(Chars) /\ q # <<>>
           /\ \/ Head(q) = "EOF" /\ Tail(q) = <<>>
              \/ Head(q) \in Chars /\ Head(q) # "EOF" /\ Tail(q) \in Seq(Chars) /\ Coming(Tail(q))
<1>1. PICK e \in Seq(Chars) : e = <<"EOF">>
  <2>1. <<"EOF">> \in Seq(Chars)
    BY DEF Chars
  <2> QED BY <2>1
<1>2. PICK front \in Seq(Chars) : NoEof(front) /\ q = front \o e
  BY <1>1 DEF Coming
<1>3. q \in Seq(Chars) /\ q # <<>>
  <2>1. Len(e) = 1
    BY <1>1
  <2>2. Len(q) = Len(front) + 1 /\ q \in Seq(Chars)
    BY <1>2, <2>1, ConcatProperties
  <2> QED BY <2>2
<1>4. CASE front = <<>>
  <2>1. q = e
    BY <1>2, <1>4, ConcatEmptySeq
  <2> QED BY <1>1, <1>3, <2>1
<1>5. CASE front # <<>>
  <2>1. Head(q) = Head(front) /\ Tail(q) = Tail(front) \o e
    BY <1>2, <1>5, HeadTailOfConcat
  <2>2. Tail(front) \in Seq(Chars) /\ NoEof(Tail(front)) /\ Head(front) \in Chars
        /\ Head(front) # "EOF"
    BY <1>2, <1>5 DEF NoEof
  <2>3. Coming(Tail(q))
    BY <1>1, <2>1, <2>2 DEF Coming
  <2> QED BY <1>3, <2>1, <2>2, <2>3
<1> QED BY <1>4, <1>5

\* What comes before does not end the input.
LEMMA StillComing ==
    ASSUME NEW put \in Seq(Chars), NoEof(put)
    PROVE  /\ \A q : Coming(q) => Coming(put \o q)
           /\ \A q \in Seq(Chars) : NoEof(q) => NoEof(put \o q)
<1>1. ASSUME NEW q \in Seq(Chars), NoEof(q) PROVE NoEof(put \o q) /\ put \o q \in Seq(Chars)
  <2>1. PICK all : all = put \o q
    OBVIOUS
  <2>2. /\ all \in Seq(Chars) /\ Len(all) = Len(put) + Len(q)
        /\ \A i \in 1 .. Len(put) + Len(q) :
             all[i] = IF i <= Len(put) THEN put[i] ELSE q[i - Len(put)]
    BY <2>1, ConcatProperties
  <2>3. ASSUME NEW i \in 1 .. Len(all) PROVE all[i] # "EOF"
    <3>1. CASE i <= Len(put)
      BY <2>2, <3>1 DEF NoEof
    <3>2. CASE ~ (i <= Len(put))
      <4>1. i - Len(put) \in 1 .. Len(q)
        BY <2>2, <3>2
      <4> QED BY <1>1, <2>2, <3>2, <4>1 DEF NoEof
    <3> QED BY <3>1, <3>2
  <2> QED BY <2>1, <2>2, <2>3 DEF NoEof
<1>2. ASSUME NEW q, Coming(q) PROVE Coming(put \o q)
  <2>1. PICK e \in Seq(Chars) : e = <<"EOF">>
    <3>1. <<"EOF">> \in Seq(Chars)
      BY DEF Chars
    <3> QED BY <3>1
  <2>2. PICK front \in Seq(Chars) : NoEof(front) /\ q = front \o e
    BY <1>2, <2>1 DEF Coming
  <2>3. put \o q = (put \o front) \o e
    BY <2>2, ConcatAssociative
  <2> QED BY <1>1, <2>1, <2>2, <2>3 DEF Coming
<1> QED BY <1>1, <1>2

\* Before a character is read.
LEMMA Prepared ==
    ASSUME NEW t, Typed(t), NEW s, DOMAIN s = Fields, s.again \in Seq(Chars),
           \A x \in Fields \ {"again", "out", "answer"} : s[x] = t[x]
    PROVE  /\ Typed(s) /\ Stream(s) = Stream(t) /\ s.failure = t.failure /\ s.ended = t.ended
           /\ s.state = t.state
           /\ \A Y : Fit(t, Y) => Fit(s, Y)
<1>1. /\ s.state = t.state /\ s.content = t.content /\ s.last = t.last /\ s.tag = t.tag
      /\ s.attribute_name = t.attribute_name /\ s.attribute = t.attribute
      /\ s.attribute_value_state = t.attribute_value_state /\ s.buffer = t.buffer
      /\ s.comment = t.comment /\ s.doctype = t.doctype /\ s.declaration = t.declaration
      /\ s.keyword = t.keyword /\ s.ref = t.ref /\ s.ended = t.ended
      /\ s.failure = t.failure
  BY DEF Fields
<1>2. Typed(s)
  BY <1>1 DEF Typed
<1>3. \A Y : Fit(t, Y) => Fit(s, Y)
  BY <1>1 DEF Fit, InTag, IsAppropriate, InReferenceFrame
<1> QED BY <1>1, <1>2, <1>3 DEF Stream

\* One call of write_element by the parser.
LEMMA Tokenized ==
    ASSUME TokenizerInv, tokenizer.failure = "none", ~ tokenizer.ended, Typed(tokenizer),
           NEW c \in Chars, NEW q \in Seq(Chars), c = "EOF" => q = <<>>,
           Fit(tokenizer, tokenizer.state) \/ (tokenizer.state = "data_state" /\ c = "EOF"),
           NEW s, \/ s = tokenizer /\ tokenizer.again = q
                  \/ s = [tokenizer EXCEPT !.again = q],
           Tokenize(s, c)
    PROVE  \E p, r : /\ Ready(p, c) /\ Kept(p, c, r) /\ p.again = q
                     /\ p.state = tokenizer.state /\ p.buffer = tokenizer.buffer
                     /\ Stream(p) = Stream(tokenizer) /\ r = write_element(p, c)
                     /\ Same(tokenizer', r) /\ tokenizer'.again = r.again
<1>1. DOMAIN tokenizer = Fields
  BY DEF TokenizerInv
<1>2. /\ DOMAIN s = Fields /\ s.again = q
      /\ \A x \in Fields \ {"again"} : s[x] = tokenizer[x]
  BY <1>1 DEF Fields
<1>3. PICK answer \in BOOLEAN :
        LET r == write_element([s EXCEPT !.out = <<>>, !.answer = answer], c)
        IN  tokenizer' = [r EXCEPT !.answer = FALSE, !.replaying = @ /\ Len(r.again) > r.behind]
  BY DEF Tokenize
<1>4. PICK p : p = [s EXCEPT !.out = <<>>, !.answer = answer]
  OBVIOUS
<1>5. /\ DOMAIN p = Fields /\ p.again = q /\ p.out = <<>>
      /\ \A x \in Fields \ {"again", "out", "answer"} : p[x] = tokenizer[x]
  BY <1>2, <1>4 DEF Fields
<1>6. /\ Typed(p) /\ Stream(p) = Stream(tokenizer) /\ p.failure = "none" /\ ~ p.ended
      /\ p.state = tokenizer.state
      /\ \A Y : Fit(tokenizer, Y) => Fit(p, Y)
  <2>1. p.again \in Seq(Chars)
    BY <1>5
  <2>2. /\ Typed(p) /\ Stream(p) = Stream(tokenizer) /\ p.failure = tokenizer.failure
        /\ p.ended = tokenizer.ended /\ p.state = tokenizer.state
        /\ \A Y : Fit(tokenizer, Y) => Fit(p, Y)
    BY <1>5, <2>1, Prepared
  <2> QED BY <2>2
<1>7. Ready(p, c)
  BY <1>5, <1>6 DEF Ready, Going
<1>8. PICK r : r = write_element(p, c)
  OBVIOUS
<1>9. Kept(p, c, r)
  BY <1>7, <1>8, Written
<1>10. DOMAIN r = Fields
  BY <1>9 DEF Kept
<1>11. tokenizer' = [r EXCEPT !.answer = FALSE, !.replaying = @ /\ Len(r.again) > r.behind]
  BY <1>3, <1>4, <1>8
<1>12. Same(tokenizer', r) /\ tokenizer'.again = r.again
  BY <1>10, <1>11 DEF Same, Fields
<1>13. p.buffer = tokenizer.buffer
  BY <1>5 DEF Fields
<1> QED BY <1>5, <1>6, <1>7, <1>8, <1>9, <1>12, <1>13

\* What a call leaves is what the invariant asks for.
LEMMA KeptInv ==
    ASSUME NEW p, NEW c, NEW r, Ready(p, c), Kept(p, c, r), Same(tokenizer', r),
           tokenizer'.again = r.again,
           closed' => c = "EOF" \/ Coming(p.again),
           ~ closed' => c # "EOF" /\ NoEof(p.again)
    PROVE  TokenizerInv'
<1>1. DOMAIN tokenizer' = Fields
  BY DEF Same
<1>2. /\ tokenizer'.failure = r.failure /\ tokenizer'.ended = r.ended
      /\ tokenizer'.state = r.state /\ tokenizer'.content = r.content
  BY DEF Same, Fields
<1>3. Sound(r) => Sound(tokenizer')
  <2>1. SUFFICES ASSUME Typed(r), Fit(r, r.state), r.failure = "none", ~ r.ended
                 PROVE  Sound(tokenizer')
    BY DEF Sound
  <2>2. tokenizer'.again \in Seq(Chars)
    BY <2>1 DEF Typed
  <2>3. Typed(tokenizer') /\ Fit(tokenizer', tokenizer'.state)
    BY <1>2, <2>1, <2>2, SameFits
  <2> QED BY <1>2, <2>1, <2>3 DEF Sound
<1>4. Ending(r) => Ending(tokenizer')
  <2>1. SUFFICES ASSUME Typed(r), r.failure = "none", ~ r.ended, r.state = "data_state",
                        r.again = <<"EOF">>
                 PROVE  Ending(tokenizer')
    BY DEF Ending
  <2>2. tokenizer'.again \in Seq(Chars)
    BY <2>1 DEF Typed
  <2>3. Typed(tokenizer')
    BY <2>1, <2>2, SameFits
  <2> QED BY <1>2, <2>1, <2>3 DEF Ending
<1>5. Over(r) => Over(tokenizer')
  BY <1>2 DEF Over
<1>6. Stuck(r) => Stuck(tokenizer')
  BY <1>2 DEF Stuck
<1>7. CASE r.failure = "replay"
  BY <1>1, <1>2, <1>7 DEF TokenizerInv
<1>8. CASE /\ c # "EOF" /\ Sound(r)
           /\ \E put \in Seq(Chars) : NoEof(put) /\ r.again = put \o p.again
  <2>1. PICK put \in Seq(Chars) : NoEof(put) /\ r.again = put \o p.again
    BY <1>8
  <2>2. p.again \in Seq(Chars)
    BY DEF Ready, Going, Typed
  <2>3. CASE closed'
    <3>1. Coming(tokenizer'.again)
      BY <1>8, <2>1, <2>3, StillComing
    <3> QED BY <1>1, <1>3, <1>8, <2>3, <3>1 DEF TokenizerInv
  <2>4. CASE ~ closed'
    <3>1. NoEof(tokenizer'.again)
      BY <2>1, <2>2, <2>4, StillComing
    <3> QED BY <1>1, <1>3, <1>8, <2>4, <3>1 DEF TokenizerInv
  <2> QED BY <2>3, <2>4
<1>9. CASE c = "EOF" /\ (Over(r) \/ Ending(r) \/ Stuck(r))
  <2>1. closed'
    BY <1>9
  <2>2. Over(tokenizer') \/ Ending(tokenizer') \/ Stuck(tokenizer')
    BY <1>4, <1>5, <1>6, <1>9
  <2> QED BY <1>1, <2>1, <2>2 DEF TokenizerInv
<1>10. CASE c = "EOF" /\ Sound(r) /\ Coming(r.again)
  <2>1. closed'
    BY <1>10
  <2> QED BY <1>1, <1>3, <1>10, <2>1 DEF TokenizerInv
<1> QED BY <1>7, <1>8, <1>9, <1>10 DEF Kept

\* A step that reads a character, as the invariant and the tree constructor see it.
Reads(c, q) ==
    \E p, r : /\ Ready(p, c) /\ Kept(p, c, r) /\ p.again = q
              /\ p.state = tokenizer.state /\ p.buffer = tokenizer.buffer
              /\ Stream(p) = Stream(tokenizer) /\ r = write_element(p, c)
              /\ Same(tokenizer', r) /\ tokenizer'.again = r.again

\* The characters of a text.
LEMMA TextHead ==
    ASSUME NEW word, IsText(word), word # <<>>
    PROVE  /\ Head(word) \in STRING /\ Head(word) # "EOF" /\ IsText(Tail(word))
<1>1. Head(word) \in STRING /\ Head(word) # "EOF" /\ Tail(word) \in Seq(STRING)
  BY DEF IsText
<1>2. \A i \in DOMAIN Tail(word) : Tail(word)[i] # "EOF"
  BY DEF IsText
<1> QED BY <1>1, <1>2 DEF IsText

\* What is written to the tokenizer.
LEMMA WriteReads ==
    ASSUME IInv, Write
    PROVE  /\ Feeding' /\ ~ closed /\ closed' = closed
           /\ \/ Dropped /\ tokenizer' = [tokenizer EXCEPT !.out = <<>>]
              \/ ~ Dropped /\ \E c \in Chars \ {"EOF"} : c = Preprocessed /\ Reads(c, <<>>)
<1>1. Head(input) \in STRING /\ Head(input) # "EOF" /\ IsText(Tail(input)) /\ ~ closed
  BY TextHead DEF IInv, Feeding, Write
<1>2. Preprocessed \in Chars /\ Preprocessed # "EOF"
  BY <1>1 DEF Preprocessed, Chars
<1>3. Feeding' /\ closed' = closed
  BY <1>1 DEF Feeding, Write
<1>4. /\ TokenizerInv /\ Sound(tokenizer) /\ tokenizer.failure = "none" /\ tokenizer.again = <<>>
  BY <1>1 DEF IInv, TokenizerInv, Write, Returned
<1>5. CASE ~ Dropped
  <2>1. PICK q \in Seq(Chars) : q = <<>>
    BY Literals
  <2>2. PICK c \in Chars : c = Preprocessed
    BY <1>2
  <2>3. PICK s : s = tokenizer
    OBVIOUS
  <2>4. Tokenize(s, c)
    BY <1>5, <2>2, <2>3 DEF Write
  <2>5. /\ ~ tokenizer.ended /\ Typed(tokenizer) /\ Fit(tokenizer, tokenizer.state)
        /\ tokenizer.again = q
    BY <1>4, <2>1 DEF Sound
  <2>6. Reads(c, q)
    BY <1>2, <1>4, <2>2, <2>3, <2>4, <2>5, Tokenized DEF Reads
  <2> QED BY <1>1, <1>2, <1>3, <1>5, <2>1, <2>2, <2>6
<1>6. CASE Dropped
  <2>1. tokenizer' = [tokenizer EXCEPT !.out = <<>>]
    BY <1>6 DEF Write
  <2> QED BY <1>1, <1>3, <1>6, <2>1
<1> QED BY <1>5, <1>6

\* The end of the input.
LEMMA EofReads ==
    ASSUME IInv, write_eof
    PROVE  Feeding' /\ closed' /\ Reads("EOF", <<>>)
<1>1. Feeding' /\ closed' /\ ~ closed /\ input = <<>>
  BY DEF IInv, Feeding, write_eof
<1>2. /\ TokenizerInv /\ Sound(tokenizer) /\ tokenizer.failure = "none" /\ tokenizer.again = <<>>
  BY <1>1 DEF IInv, TokenizerInv, write_eof, Returned
<1>3. PICK q \in Seq(Chars) : q = <<>>
  BY Literals
<1>4. PICK c \in Chars : c = "EOF"
  BY DEF Chars
<1>5. PICK s : s = tokenizer
  OBVIOUS
<1>6. Tokenize(s, c)
  BY <1>4, <1>5 DEF write_eof
<1>7. /\ ~ tokenizer.ended /\ Typed(tokenizer) /\ Fit(tokenizer, tokenizer.state)
      /\ tokenizer.again = q
  BY <1>2, <1>3 DEF Sound
<1>8. Reads(c, q)
  BY <1>2, <1>3, <1>5, <1>6, <1>7, Tokenized DEF Reads
<1> QED BY <1>1, <1>3, <1>4, <1>8

\* A character that is read again.
LEMMA RereadReads ==
    ASSUME IInv, Reread
    PROVE  /\ Feeding' /\ closed' = closed
           /\ \E c \in Chars, q \in Seq(Chars) :
                 /\ c = Head(tokenizer.again) /\ q = Tail(tokenizer.again) /\ Reads(c, q)
                 /\ ~ closed => c # "EOF" /\ NoEof(q)
                 /\ closed => c = "EOF" \/ Coming(q)
<1>1. Feeding' /\ closed' = closed
  BY DEF IInv, Feeding, Reread
<1>2. /\ TokenizerInv /\ tokenizer.failure = "none" /\ tokenizer.again # <<>>
  BY DEF IInv, Reread
<1>3. PICK q : q = Tail(tokenizer.again)
  OBVIOUS
<1>4. PICK c : c = Head(tokenizer.again)
  OBVIOUS
<1>5. PICK s : s = [tokenizer EXCEPT !.again = q]
  OBVIOUS
<1>6. Tokenize(s, c)
  BY <1>3, <1>4, <1>5 DEF Reread
<1>7. \/ ~ closed /\ Sound(tokenizer) /\ NoEof(tokenizer.again)
      \/ closed /\ Ending(tokenizer)
      \/ closed /\ Sound(tokenizer) /\ Coming(tokenizer.again)
  BY <1>2 DEF TokenizerInv, Over, Stuck
<1>8. /\ ~ tokenizer.ended /\ Typed(tokenizer) /\ tokenizer.again \in Seq(Chars)
  BY <1>7 DEF Sound, Ending, Typed
<1>9. /\ c \in Chars /\ q \in Seq(Chars)
      /\ ~ closed => c # "EOF" /\ NoEof(q)
      /\ closed => (c = "EOF" /\ q = <<>>) \/ (c # "EOF" /\ Coming(q))
      /\ Fit(tokenizer, tokenizer.state) \/ (tokenizer.state = "data_state" /\ c = "EOF")
  <2>1. CASE ~ closed /\ Sound(tokenizer) /\ NoEof(tokenizer.again)
    <3>1. c \in Chars /\ q \in Seq(Chars)
      BY <1>2, <1>3, <1>4, <1>8
    <3>2. c # "EOF" /\ NoEof(q)
      BY <1>2, <1>3, <1>4, <1>8, <2>1 DEF NoEof
    <3>3. Fit(tokenizer, tokenizer.state)
      BY <2>1 DEF Sound
    <3> QED BY <2>1, <3>1, <3>2, <3>3
  <2>2. CASE closed /\ Ending(tokenizer)
    <3>1. tokenizer.again = <<"EOF">> /\ tokenizer.state = "data_state"
      BY <2>2 DEF Ending
    <3>2. c = "EOF" /\ q = <<>>
      BY <1>3, <1>4, <3>1
    <3>3. c \in Chars /\ q \in Seq(Chars)
      BY <3>2, Literals DEF Chars
    <3> QED BY <2>2, <3>1, <3>2, <3>3
  <2>3. CASE closed /\ Sound(tokenizer) /\ Coming(tokenizer.again)
    <3>1. \/ c = "EOF" /\ q = <<>>
          \/ c \in Chars /\ c # "EOF" /\ q \in Seq(Chars) /\ Coming(q)
      BY <1>3, <1>4, <2>3, FirstComing
    <3>2. c \in Chars /\ q \in Seq(Chars)
      BY <3>1, Literals DEF Chars
    <3>3. Fit(tokenizer, tokenizer.state)
      BY <2>3 DEF Sound
    <3> QED BY <2>3, <3>1, <3>2, <3>3
  <2> QED BY <1>7, <2>1, <2>2, <2>3
<1>10. c = "EOF" => q = <<>>
  BY <1>3, <1>4, <1>9
<1>11. Reads(c, q)
  BY <1>2, <1>5, <1>6, <1>8, <1>9, <1>10, Tokenized DEF Reads
<1> QED BY <1>1, <1>3, <1>4, <1>9, <1>11

\* The document that comes in is text, and each call leaves the tokenizer fit to go on, or
\* with the end of the input before it.
LEMMA InitInv == Init => IInv
<1> SUFFICES ASSUME Init PROVE IInv
  OBVIOUS
<1>1. Feeding
  BY DEF Init, Feeding, IsText
<1>2. /\ DOMAIN NoTag = {"type", "name", "attributes"}
      /\ DOMAIN NoDocType = {"given", "public", "system"}
      /\ DOMAIN Referred = {"state", "hex", "digits", "value", "leftovers"}
      /\ Referred.value = <<>> /\ Referred.leftovers = <<>>
  BY DEF NoTag, NoDocType, Referred
<1>3. /\ DOMAIN tokenizer = Fields /\ tokenizer.state = "data_state" /\ tokenizer.content = "data"
      /\ tokenizer.tag = NoTag /\ tokenizer.doctype = NoDocType /\ tokenizer.ref = Referred
      /\ tokenizer.again = <<>> /\ tokenizer.declaration = <<>> /\ tokenizer.keyword = <<>>
      /\ tokenizer.buffer = <<>> /\ tokenizer.attribute_name = <<>>
      /\ tokenizer.failure = "none" /\ tokenizer.ended = FALSE
  BY DEF Init, Fields
<1>4. Typed(tokenizer)
  <2>1. <<>> \in Seq(Chars)
    BY Literals
  <2> QED BY <1>2, <1>3, <2>1 DEF Typed
<1>5. Fit(tokenizer, tokenizer.state)
  BY <1>3 DEF Fit, PlainStates
<1>6. Sound(tokenizer) /\ NoEof(tokenizer.again) /\ ~ closed
  BY <1>3, <1>4, <1>5 DEF Sound, NoEof, Init
<1> QED BY <1>1, <1>3, <1>6 DEF IInv, TokenizerInv

LEMMA NextInv ==
    ASSUME IInv, [Next]_vars
    PROVE  IInv'
<1>1. CASE Come
  <2>1. Feeding'
    BY <1>1, TokenizerAssumption DEF Come, Feeding
  <2>2. TokenizerInv'
    BY <1>1 DEF Come, IInv, TokenizerInv
  <2> QED BY <2>1, <2>2 DEF IInv
<1>2. CASE Write
  <2>1. Feeding' /\ ~ closed /\ closed' = closed
    BY <1>2, WriteReads
  <2>2. CASE tokenizer' = [tokenizer EXCEPT !.out = <<>>]
    <3>1. Sound(tokenizer) /\ tokenizer.again = <<>>
      BY <1>2, <2>1 DEF IInv, TokenizerInv, Write, Returned
    <3>2. /\ DOMAIN tokenizer' = Fields /\ tokenizer'.again = <<>>
          /\ \A x \in Fields \ {"out"} : tokenizer'[x] = tokenizer[x]
      BY <2>2, <3>1 DEF Sound, Typed, Fields
    <3>3. /\ Typed(tokenizer') /\ tokenizer'.failure = tokenizer.failure
          /\ tokenizer'.ended = tokenizer.ended
          /\ tokenizer'.state = tokenizer.state
          /\ Fit(tokenizer', tokenizer'.state)
      <4>1. tokenizer'.again \in Seq(Chars)
        BY <3>2, Literals
      <4>2. Typed(tokenizer) /\ Fit(tokenizer, tokenizer.state)
        BY <3>1 DEF Sound
      <4> QED BY <3>2, <4>1, <4>2, Prepared
    <3>4. Sound(tokenizer') /\ NoEof(tokenizer'.again)
      BY <3>1, <3>2, <3>3 DEF Sound, NoEof
    <3> QED BY <2>1, <3>2, <3>4 DEF IInv, TokenizerInv
  <2>3. CASE \E c \in Chars \ {"EOF"} : Reads(c, <<>>)
    <3>1. PICK c \in Chars \ {"EOF"} : Reads(c, <<>>)
      BY <2>3
    <3>2. PICK p, r : /\ Ready(p, c) /\ Kept(p, c, r) /\ p.again = <<>>
                      /\ Same(tokenizer', r) /\ tokenizer'.again = r.again
      BY <3>1 DEF Reads
    <3>3. TokenizerInv'
      <4>1. NoEof(p.again) /\ ~ closed'
        BY <2>1, <3>2 DEF NoEof
      <4> QED BY <3>2, <4>1, KeptInv
    <3> QED BY <2>1, <3>3 DEF IInv
  <2> QED BY <1>2, <2>2, <2>3, WriteReads
<1>3. CASE write_eof
  <2>1. Feeding' /\ closed' /\ Reads("EOF", <<>>)
    BY <1>3, EofReads
  <2>2. PICK p, r : /\ Ready(p, "EOF") /\ Kept(p, "EOF", r)
                    /\ Same(tokenizer', r) /\ tokenizer'.again = r.again
    BY <2>1 DEF Reads
  <2>3. closed' = TRUE
    BY <1>3 DEF write_eof
  <2>4. TokenizerInv'
    BY <2>2, <2>3, KeptInv
  <2> QED BY <2>1, <2>4 DEF IInv
<1>4. CASE Reread
  <2>1. Feeding' /\ closed' = closed
    BY <1>4, RereadReads
  <2>2. PICK c \in Chars, q \in Seq(Chars) :
               /\ Reads(c, q)
               /\ ~ closed => c # "EOF" /\ NoEof(q)
               /\ closed => c = "EOF" \/ Coming(q)
    BY <1>4, RereadReads
  <2>3. PICK p, r : /\ Ready(p, c) /\ Kept(p, c, r) /\ p.again = q
                    /\ Same(tokenizer', r) /\ tokenizer'.again = r.again
    BY <2>2 DEF Reads
  <2>4. TokenizerInv'
    BY <2>1, <2>2, <2>3, KeptInv
  <2> QED BY <2>1, <2>4 DEF IInv
<1>5. CASE UNCHANGED vars
  BY <1>5 DEF vars, IInv, Feeding, TokenizerInv
<1> QED BY <1>1, <1>2, <1>3, <1>4, <1>5 DEF Next

\* Whatever the document and the answers of the tree constructor, the tokenizer is always
\* in a state for which what it builds has been begun, with no end of the input among the
\* characters to be read again until the input is closed, and as the last of them after.
THEOREM Invariance == Spec => []IInv
<1>1. Init => IInv
  BY InitInv
<1>2. IInv /\ [Next]_vars => IInv'
  BY NextInv
<1> QED BY <1>1, <1>2, PTL DEF Spec

\* No handler appends to a tag, a comment, a DOCTYPE or a value that has not been begun, ends
\* a tag that is none, or enters the state it is in.
THEOREM BuiltAlways == Spec => []Built
<1>1. IInv => Built
  BY DEF IInv, TokenizerInv, Sound, Over, Ending, Stuck, Built
<1> QED BY <1>1, Invariance, PTL

\* Once the end of the input is written and nothing is left to be read again, the tree
\* constructor has been given it, unless a state that counts characters has taken it for one.
THEOREM EofArrives == Spec => []EofEnds
<1>1. IInv => EofEnds
  <2>1. SUFFICES ASSUME IInv, closed, tokenizer.again = <<>>, tokenizer.failure = "none",
                        tokenizer.state \notin DeclarationStates \cup {"after_doctype_name_2_state"}
                 PROVE  tokenizer.ended
    BY DEF EofEnds, Returned, DeclarationStates
  <2>2. ~ Coming(tokenizer.again)
    BY <2>1, FirstComing
  <2>3. ~ Ending(tokenizer) /\ ~ Stuck(tokenizer)
    BY <2>1 DEF Ending, Stuck
  <2> QED BY <2>1, <2>2, <2>3 DEF IInv, TokenizerInv, Over
<1> QED BY <1>1, Invariance, PTL

\* The states of the content of a text element.
LEMMA TextStatesOf ==
    ASSUME NEW s,
           \/ s.content = "RCDATA"
              /\ s.state \in PlainRCDATAStates \cup {"RCDATA_end_tag_open_state",
                    "RCDATA_end_tag_name_state", "character_reference_in_RCDATA_state"}
           \/ s.content = "RAWTEXT"
              /\ s.state \in PlainRAWTEXTStates \cup {"RAWTEXT_end_tag_open_state",
                                "RAWTEXT_end_tag_name_state"}
           \/ s.content = "script_data"
              /\ s.state \in PlainScriptStates \cup ScriptEndTagStates
                               \cup {"script_data_end_tag_open_state"}
           \/ s.content = "PLAINTEXT" /\ s.state = "PLAINTEXT_state"
    PROVE  s.state \in StatesOf[s.content]
<1>1. CASE s.content = "RCDATA"
  <2>1. StatesOf.RCDATA = RCDATATagStates \cup {"RCDATA_state", "character_reference_in_RCDATA_state"}
    BY DEF StatesOf
  <2> QED BY <1>1, <2>1 DEF PlainRCDATAStates, RCDATATagStates
<1>2. CASE s.content = "RAWTEXT"
  <2>1. StatesOf.RAWTEXT = RAWTEXTTagStates \cup {"RAWTEXT_state"}
    BY DEF StatesOf
  <2> QED BY <1>2, <2>1 DEF PlainRAWTEXTStates, RAWTEXTTagStates
<1>3. CASE s.content = "script_data"
  <2>1. StatesOf.script_data = ScriptStates
    BY DEF StatesOf
  <2> QED BY <1>3, <2>1 DEF PlainScriptStates, ScriptEndTagStates, ScriptStates, ScriptTagStates,
                            EscapedStates, DoubleEscapedStates
<1>4. CASE s.content = "PLAINTEXT"
  <2>1. StatesOf.PLAINTEXT = {"PLAINTEXT_state"}
    BY DEF StatesOf
  <2> QED BY <1>4, <2>1
<1> QED BY <1>1, <1>2, <1>3, <1>4

\* A state that fits what is built is one of the states of the content that is read.
LEMMA FitInStep ==
    ASSUME NEW s, Fit(s, s.state)
    PROVE  \/ s.state \in StatesOf[s.content]
           \/ s.state \in TagStates /\ IsAppropriate(s)
<1>1. CASE s.content = "data"
  <2>1. s.state \in MarkupStates \cup {"data_state", "character_reference_in_data_state"}
    BY <1>1 DEF Fit, PlainStates, BetweenStates, ValueStates, AttributeStates, CommentStates,
         DeclarationStates, DoctypeStates, PublicStates, SystemStates, MarkupStates,
         DoctypePublicStates, AfterDoctypePublicStates, DoctypeSystemStates
  <2>2. StatesOf.data = MarkupStates \cup {"data_state", "character_reference_in_data_state"}
    BY DEF StatesOf
  <2> QED BY <1>1, <2>1, <2>2
<1>2. CASE s.content # "data" /\ s.state \in TagStates
  <2>1. InTag(s)
    BY <1>2 DEF Fit, TagStates, PlainStates, BetweenStates, ValueStates, AttributeStates,
         CommentStates, DeclarationStates, DoctypeStates, PublicStates, SystemStates,
         PlainRCDATAStates, PlainRAWTEXTStates, PlainScriptStates, ScriptEndTagStates
  <2> QED BY <1>2, <2>1 DEF InTag
<1>3. CASE s.content # "data" /\ s.state \notin TagStates
  <2>1. \/ s.content = "RCDATA"
           /\ s.state \in PlainRCDATAStates \cup {"RCDATA_end_tag_open_state",
                 "RCDATA_end_tag_name_state", "character_reference_in_RCDATA_state"}
        \/ s.content = "RAWTEXT"
           /\ s.state \in PlainRAWTEXTStates \cup {"RAWTEXT_end_tag_open_state",
                             "RAWTEXT_end_tag_name_state"}
        \/ s.content = "script_data"
           /\ s.state \in PlainScriptStates \cup ScriptEndTagStates
                            \cup {"script_data_end_tag_open_state"}
        \/ s.content = "PLAINTEXT" /\ s.state = "PLAINTEXT_state"
    BY <1>3 DEF Fit, TagStates, BetweenStates, ValueStates, AttributeStates
  <2> QED BY <2>1, TextStatesOf
<1> QED BY <1>1, <1>2, <1>3

\* The tokenizer reads the content that the tree constructor asked for, and nothing else, up
\* to the end tag of the element; in the data state it may only come to the end of the input.
THEOREM StaysInStep == Spec => []InStep
<1>1. IInv => InStep
  <2>1. SUFFICES ASSUME IInv, ~ tokenizer.ended, tokenizer.failure = "none",
                        tokenizer.again # <<"EOF">>
                 PROVE  \/ tokenizer.state \in StatesOf[tokenizer.content]
                        \/ tokenizer.state \in TagStates /\ IsAppropriate(tokenizer)
    BY DEF InStep
  <2>2. Sound(tokenizer) \/ Stuck(tokenizer)
    BY <2>1 DEF IInv, TokenizerInv, Over, Ending
  <2>3. CASE Sound(tokenizer)
    BY <2>3, FitInStep DEF Sound
  <2>4. CASE Stuck(tokenizer)
    <3>1. tokenizer.content = "data" /\ tokenizer.state \in MarkupStates
      BY <2>4 DEF Stuck, DeclarationStates, MarkupStates
    <3>2. StatesOf.data = MarkupStates \cup {"data_state", "character_reference_in_data_state"}
      BY DEF StatesOf
    <3> QED BY <3>1, <3>2
  <2> QED BY <2>2, <2>3, <2>4
<1> QED BY <1>1, Invariance, PTL

\* A step that reads a character gives the tree constructor what it may be given.
LEMMA ReadsPromise ==
    ASSUME NEW c, NEW q, Reads(c, q)
    PROVE  T!Next
<1>1. PICK p, r : /\ Ready(p, c) /\ Kept(p, c, r) /\ Stream(p) = Stream(tokenizer)
                  /\ Same(tokenizer', r)
  BY DEF Reads
<1>2. tokenizer'.out = r.out /\ Stream(tokenizer)' = Stream(r)
  BY <1>1 DEF Same, Fields, Stream
<1>3. Told(p, r) /\ ~ p.ended
  BY <1>1 DEF Kept, Ready, Going
<1>4. CASE ToldText(p, r)
  <2>1. tokenizer'.out \in Seq(TextTokens) /\ Stream(tokenizer)' = Stream(tokenizer)
    BY <1>1, <1>2, <1>4 DEF ToldText
  <2>2. ~ Stream(tokenizer).ended
    BY <1>1, <1>3 DEF Stream
  <2>3. \A t \in TextTokens : t.type = "character" /\ T!Legal(Stream(tokenizer), t)
    BY <2>2 DEF TextTokens, T!Token, T!Legal
  <2>4. \A i \in DOMAIN tokenizer'.out : tokenizer'.out[i] \in TextTokens
    BY <2>1
  <2> QED BY <2>1, <2>3, <2>4 DEF T!Next, T!GiveText, Stream
<1>5. CASE \E t : /\ r.out = <<t>> /\ T!Legal(Stream(p), t) /\ Stream(r) = T!Given(Stream(p), t)
  <2>1. PICK t : /\ r.out = <<t>> /\ T!Legal(Stream(p), t) /\ Stream(r) = T!Given(Stream(p), t)
    BY <1>5
  <2>2. tokenizer'.out = <<t>> /\ 1 \in DOMAIN tokenizer'.out /\ tokenizer'.out[1] = t
    BY <1>2, <2>1
  <2>3. T!Give(t)
    BY <1>1, <1>2, <2>1, <2>2 DEF T!Give, Stream
  <2> QED BY <2>2, <2>3 DEF T!Next
<1> QED BY <1>3, <1>4, <1>5 DEF Told

\* The tokenizer implements the stream of tokens that the tree constructor is promised: one
\* end of the file, the last, and after a switch only characters up to the end tag.
THEOREM KeepsPromise == Spec => Promise
<1>1. Init => T!Init
  BY DEF Init, T!Init, T!Start
<1>2. IInv /\ [Next]_vars => [T!Next]_<<Stream(tokenizer), tokenizer.out>>
  <2> SUFFICES ASSUME IInv, [Next]_vars
               PROVE  T!Next \/ UNCHANGED <<Stream(tokenizer), tokenizer.out>>
    OBVIOUS
  <2>1. CASE Come \/ UNCHANGED vars
    BY <2>1 DEF Come, vars, Stream
  <2>2. CASE Write
    <3>1. CASE tokenizer' = [tokenizer EXCEPT !.out = <<>>]
      <4>1. DOMAIN tokenizer = Fields
        BY DEF IInv, TokenizerInv
      <4>2. tokenizer'.out = <<>> /\ Stream(tokenizer)' = Stream(tokenizer)
        BY <3>1, <4>1 DEF Fields, Stream
      <4> QED BY <4>2 DEF T!Next, T!GiveText, Stream
    <3>2. CASE \E c \in Chars \ {"EOF"} : Reads(c, <<>>)
      BY <3>2, ReadsPromise
    <3> QED BY <2>2, <3>1, <3>2, WriteReads
  <2>3. CASE write_eof
    BY <2>3, EofReads, ReadsPromise
  <2>4. CASE Reread
    BY <2>4, RereadReads, ReadsPromise
  <2> QED BY <2>1, <2>2, <2>3, <2>4 DEF Next
<1>3. IInv /\ [Next]_vars => [T!Next]_<<[content |-> tokenizer.content, last |-> tokenizer.last,
                                       ended |-> tokenizer.ended], tokenizer.out>>
  BY <1>2 DEF Stream
<1> QED BY <1>1, <1>3, Invariance, PTL DEF Spec, Promise, T!Spec

===============================================================================
