----------------------------- MODULE HtmlTokenizer -----------------------------
(* The HTML tokenizer (Html.Tokenizer.cpp) behind its preprocessor, and the tokens   *)
(* that come out.  A step is one call of write_element: of the preprocessor's, or    *)
(* one of those that write_element makes as the last thing it does, to have          *)
(* characters read again.  The tree constructor is the tokenizer's environment: it   *)
(* may answer a start tag by switching the tokenizer's state.  The text of comments, *)
(* attribute values and DOCTYPE names is left out.                                   *)
EXTENDS Integers, Sequences, SequencesExt, FiniteSets

CONSTANTS
    Pieces,     \* what comes in at a time, as sequences of characters
    MaxPieces,  \* how many of them a document has
    Names,      \* the named character references
    TextOf      \* the content of the elements whose start tags switch it

IsText(word) == word \in Seq(STRING) /\ \A i \in DOMAIN word : word[i] # "EOF"

ASSUME TokenizerAssumption ==
    /\ \A piece \in Pieces : IsText(piece)
    /\ MaxPieces \in Nat
    /\ \A name \in Names : IsText(name)
    /\ \A name \in DOMAIN TextOf : TextOf[name] \in {"RCDATA", "RAWTEXT", "script_data", "PLAINTEXT"}

VARIABLES
    tokenizer,
    preprocessor,   \* the state of the InputStreamPreprocessor
    input,          \* the rest of the piece that came in
    pieces,         \* how many have come
    closed          \* the end of the input was written

vars == <<tokenizer, preprocessor, input, pieces, closed>>

T == INSTANCE TokenStream WITH stream <- [content |-> tokenizer.content,
                                          last    |-> tokenizer.last,
                                          ended   |-> tokenizer.ended],
                               batch  <- tokenizer.out

-----------------------------------------------------------------------------
(* Characters *)

LowerCase == [A |-> "a", C |-> "c", D |-> "d", T |-> "t", X |-> "x"]
LowerLetters == {"a", "b", "c", "d", "e", "g", "i", "l", "m", "o", "p", "r", "s", "t", "u",
                 "x", "y"}
Letters == LowerLetters \cup DOMAIN LowerCase
Lower(c) == IF c \in DOMAIN LowerCase THEN LowerCase[c] ELSE c

Digits == {"1"}
HexDigits == Digits \cup {"a", "b", "c", "d", "e", "A", "C", "D"}

Space == {" ", "lf"}

script        == <<"s", "c", "r", "i", "p", "t">>
doctype       == <<"d", "o", "c", "t", "y", "p", "e">>
cdata         == <<"[", "C", "D", "A", "T", "A", "[">>
public_keyword == <<"p", "u", "b", "l", "i", "c">>
system_keyword == <<"s", "y", "s", "t", "e", "m">>

SameLetters(word, keyword) == [i \in DOMAIN word |-> Lower(word[i])] = keyword

\* What the text states write for a character.
Shown(c) == IF c = "null" THEN "FFFD" ELSE c

-----------------------------------------------------------------------------
(* The tokens being built *)

NoTag == [type |-> "none", name |-> <<>>, attributes |-> {}]
NoDocType == [given |-> FALSE, public |-> FALSE, system |-> FALSE]

Fail(s, why) == [s EXCEPT !.failure = IF @ = "none" THEN why ELSE @]

\* A tag's attributes are a map of its own: the iterator of another tag is of no use.
NewTag(s, type, c) ==
    [s EXCEPT !.tag = [type |-> type, name |-> <<Lower(c)>>, attributes |-> {}],
              !.attribute = <<>>]

NameGrows(s, c) ==
    IF s.tag = NoTag THEN Fail(s, "null") ELSE [s EXCEPT !.tag.name = Append(@, c)]

InsertAttributeLost(s) ==
    IF s.attribute_name = <<>> \/ s.tag = NoTag THEN s
    ELSE [s EXCEPT !.tag.attributes = @ \cup {s.attribute_name}, !.attribute_name = <<>>]

\* The attribute is in the map, and the iterator that its value needs points at it.
InsertAttribute(s) ==
    IF s.attribute_name = <<>> \/ s.tag = NoTag THEN s
    ELSE [s EXCEPT !.tag.attributes = @ \cup {s.attribute_name},
                   !.attribute = s.attribute_name,
                   !.attribute_name = <<>>]

\* A character of the value goes where the iterator points.
ValueGrows(s) ==
    IF s.attribute \in s.tag.attributes THEN s ELSE Fail(s, "null")

\* The reference frame starts anew; it is told where to find what it is to add.
Referred == [state |-> "start_state", hex |-> FALSE, digits |-> 0, value |-> <<>>,
             leftovers |-> <<>>]

\* No state is entered from itself (StateMachine::switch_to_state).
SwitchToState(s, state) ==
    LET left == IF s.state = "attribute_name_state" THEN InsertAttribute(s) ELSE s
    IN  IF state = s.state THEN Fail(s, "same state")
        ELSE IF state = "character_reference_in_attribute_value_state"
        THEN [left EXCEPT !.state = state, !.attribute_value_state = s.state, !.ref = Referred]
        ELSE [left EXCEPT !.state = state]

\* Of the states that share a definition, one is where the others go and stays there.
StayIn(s, state) == IF state = s.state THEN s ELSE SwitchToState(s, state)

IsAnyEndTag(s) == s.tag.type = "end"

IsAppropriate(s) == s.tag.type = "end" /\ s.tag.name = s.last

Texts == [RCDATA |-> "RCDATA_state", RAWTEXT |-> "RAWTEXT_state",
          script_data |-> "script_data_state", PLAINTEXT |-> "PLAINTEXT_state"]

Switched(s, type, name) == type = "start" /\ s.answer /\ name \in DOMAIN TextOf

Give(s, t) ==
    LET given == T!Given([content |-> s.content, last |-> s.last, ended |-> s.ended], t)
    IN  [s EXCEPT !.out = Append(@, t),
                  !.content = given.content, !.last = given.last, !.ended = given.ended]

EmitUnswitched(s, type, name) ==
    Give(s, T!Token(type, name, IF Switched(s, type, name) THEN TextOf[name] ELSE "data"))

\* The tree constructor is called from here, and may switch the state.
Emit(s, type, name) ==
    IF Switched(s, type, name)
    THEN SwitchToState(Give(s, T!Token(type, name, TextOf[name])), Texts[TextOf[name]])
    ELSE Give(s, T!Token(type, name, "data"))

EmitCharacters(s, cs) ==
    [s EXCEPT !.out = @ \o [i \in DOMAIN cs |-> T!Token("character", <<cs[i]>>, "data")]]
EmitCharacter(s, c) == EmitCharacters(s, <<c>>)

EmitCurrentTagToken(s) ==
    IF s.tag = NoTag THEN Fail(s, "no tag")
    ELSE [Emit(s, s.tag.type, s.tag.name) EXCEPT !.tag = NoTag]

\* Back to data with the token that was built.
EndTag(s) == EmitCurrentTagToken(SwitchToState(s, "data_state"))

NewComment(s) == [s EXCEPT !.comment = TRUE]
CommentGrows(s) == IF s.comment THEN s ELSE Fail(s, "null")
EndComment(s) ==
    IF s.comment
    THEN [Emit(SwitchToState(s, "data_state"), "comment", <<>>) EXCEPT !.comment = FALSE]
    ELSE Fail(s, "null")

NewDocType(s) == [s EXCEPT !.doctype = [NoDocType EXCEPT !.given = TRUE]]
DocTypeGrows(s) == IF s.doctype.given THEN s ELSE Fail(s, "null")
EndDocType(s) ==
    IF s.doctype.given
    THEN [Emit(SwitchToState(s, "data_state"), "doctype", <<>>) EXCEPT !.doctype = NoDocType]
    ELSE Fail(s, "null")

-----------------------------------------------------------------------------
(* Reading one character, and reading it again *)

\* A call of write_element that is the last thing a state does: what is read again
\* comes before what was to be read again already.
ReadAll(s, cs) == [s EXCEPT !.again = cs \o @]
Again(s, c) == ReadAll(s, <<c>>)

\* The state is switched and the character read once more.
ReadAgain(s, state, c) == Again(SwitchToState(s, state), c)

AbandonUnread(s) == SwitchToState(s, "data_state")

\* What a tag, a comment or a DOCTYPE does at the end of the input.
Abandon(s) == ReadAgain(s, "data_state", "EOF")

consume_leftovers(s) == ReadAll(s, s.ref.leftovers)

IsProperPrefixOf(p, n) == Len(p) < Len(n) /\ IsPrefix(p, n)

\* The longest name that the characters begin with; the frame goes on as long as a
\* longer one is possible.
MatchFrame(ref) ==
    LET found == {n \in Names : IsPrefix(n, ref.leftovers)}
        best  == CHOOSE n \in found : \A m \in found : Len(m) <= Len(n)
    IN  IF \E n \in Names : IsProperPrefixOf(ref.leftovers, n) THEN ref
        ELSE IF found = {} THEN [ref EXCEPT !.state = "done_state"]
        ELSE [ref EXCEPT !.state = "done_state", !.value = <<"ref">>,
                         !.leftovers = SubSeq(@, Len(best) + 1, Len(@))]

\* Without a digit the number sign and the x are gone all the same.
NumberFrame(ref, c) ==
    IF c \in (IF ref.hex THEN HexDigits ELSE Digits)
    THEN [ref EXCEPT !.state = "receiving_number_state", !.digits = 1]
    ELSE [ref EXCEPT !.state = "done_state",
                     !.value = IF ref.digits > 0 THEN <<"ref">> ELSE <<>>,
                     !.leftovers = IF c = ";" THEN <<>> ELSE <<c>>]

\* The character reference frame is given one more character, which it keeps.
CharacterReference(old, c) ==
    LET ref == [old EXCEPT !.leftovers = Append(@, c)]
    IN  CASE ref.state = "start_state" ->
                CASE c \in Space \cup {"<", "&", "EOF"} -> [ref EXCEPT !.state = "done_state"]
                  [] c = "#" -> [ref EXCEPT !.state = "number_started_state"]
                  [] OTHER   -> MatchFrame([ref EXCEPT !.state = "matching_name_state"])
          [] ref.state = "number_started_state" ->
                IF c \in {"x", "X"}
                THEN [ref EXCEPT !.hex = TRUE, !.state = "receiving_number_state"]
                ELSE NumberFrame(ref, c)
          [] ref.state = "receiving_number_state" -> NumberFrame(ref, c)
          [] ref.state = "matching_name_state"    -> MatchFrame(ref)

ReferenceIn(s, c, text) ==
    LET r     == [s EXCEPT !.ref = CharacterReference(@, c)]
        shown == IF r.ref.value = <<>> THEN <<"&">> ELSE r.ref.value
    IN  IF r.ref.state # "done_state" THEN r
        ELSE consume_leftovers(SwitchToState(EmitCharacters(r, shown), text))

-----------------------------------------------------------------------------
(* Text *)

data_state(s, c) ==
    CASE c = "&"  -> SwitchToState([s EXCEPT !.ref = Referred],
                                   "character_reference_in_data_state")
      [] c = "<"  -> SwitchToState(s, "tag_open_state")
      [] c = "EOF" -> Emit(s, "eof", <<>>)
      [] OTHER    -> EmitCharacter(s, c)

character_reference_in_data_state(s, c) == ReferenceIn(s, c, "data_state")

RCDATA_state(s, c) ==
    CASE c = "&"  -> SwitchToState([s EXCEPT !.ref = Referred],
                                   "character_reference_in_RCDATA_state")
      [] c = "<"  -> SwitchToState(s, "RCDATA_less_than_sign_state")
      [] c = "EOF" -> Emit(s, "eof", <<>>)
      [] OTHER    -> EmitCharacter(s, Shown(c))

character_reference_in_RCDATA_state(s, c) == ReferenceIn(s, c, "RCDATA_state")

PlainText(s, c) == IF c = "EOF" THEN Emit(s, "eof", <<>>) ELSE EmitCharacter(s, Shown(c))

RawText(s, c) ==
    IF c = "<"
    THEN SwitchToState(s, IF s.state = "RAWTEXT_state"
                          THEN "RAWTEXT_less_than_sign_state"
                          ELSE "script_data_less_than_sign_state")
    ELSE PlainText(s, c)

LessThanSign(s, c, text, end_tag_open) ==
    IF c = "/"
    THEN SwitchToState([s EXCEPT !.buffer = <<>>], end_tag_open)
    ELSE Again(EmitCharacter(SwitchToState(s, text), "<"), c)

EndTagOpen(s, c, text, end_tag_name) ==
    IF c \in Letters
    THEN SwitchToState([NewTag(s, "end", c) EXCEPT !.buffer = Append(@, c)], end_tag_name)
    ELSE Again(EmitCharacters(SwitchToState(s, text), <<"<", "/">>), c)

EndTagNameForgotten(s, c, text) ==
    CASE c \in Letters ->
            [NameGrows(s, Lower(c)) EXCEPT !.buffer = Append(@, c)]
      [] IsAppropriate(s) /\ c \in Space -> SwitchToState(s, "before_attribute_name_state")
      [] IsAppropriate(s) /\ c = "/"     -> SwitchToState(s, "self_closing_start_tag_state")
      [] IsAppropriate(s) /\ c = ">"     -> EndTag(s)
      [] OTHER ->
            Again(EmitCharacters(SwitchToState(s, text), <<"<", "/">>), c)

EndTagName(s, c, text) ==
    CASE c \in Letters ->
            [NameGrows(s, Lower(c)) EXCEPT !.buffer = Append(@, c)]
      [] IsAppropriate(s) /\ c \in Space -> SwitchToState(s, "before_attribute_name_state")
      [] IsAppropriate(s) /\ c = "/"     -> SwitchToState(s, "self_closing_start_tag_state")
      [] IsAppropriate(s) /\ c = ">"     -> EndTag(s)
      [] OTHER ->
            Again(EmitCharacters(SwitchToState(s, text), <<"<", "/">> \o s.buffer), c)

RCDATA_end_tag(s, c) ==
    CASE s.state = "RCDATA_less_than_sign_state" ->
            LessThanSign(s, c, "RCDATA_state", "RCDATA_end_tag_open_state")
      [] s.state = "RCDATA_end_tag_open_state" ->
            EndTagOpen(s, c, "RCDATA_state", "RCDATA_end_tag_name_state")
      [] s.state = "RCDATA_end_tag_name_state" -> EndTagName(s, c, "RCDATA_state")

RAWTEXT_end_tag(s, c) ==
    CASE s.state = "RAWTEXT_less_than_sign_state" ->
            LessThanSign(s, c, "RAWTEXT_state", "RAWTEXT_end_tag_open_state")
      [] s.state = "RAWTEXT_end_tag_open_state" ->
            EndTagOpen(s, c, "RAWTEXT_state", "RAWTEXT_end_tag_name_state")
      [] s.state = "RAWTEXT_end_tag_name_state" -> EndTagName(s, c, "RAWTEXT_state")

script_data_end_tag(s, c) ==
    CASE s.state = "script_data_less_than_sign_state" /\ c = "!" ->
            EmitCharacters(SwitchToState(s, "script_data_escape_start_state"), <<"<", "!">>)
      [] s.state = "script_data_less_than_sign_state" /\ c # "!" ->
            LessThanSign(s, c, "script_data_state", "script_data_end_tag_open_state")
      [] s.state = "script_data_end_tag_open_state" ->
            EndTagOpen(s, c, "script_data_state", "script_data_end_tag_name_state")
      [] s.state = "script_data_end_tag_name_state" -> EndTagName(s, c, "script_data_state")

-----------------------------------------------------------------------------
(* Scripts that hide in comments *)

script_data_escape_start(s, c) ==
    IF c = "-"
    THEN EmitCharacter(SwitchToState(s, IF s.state = "script_data_escape_start_state"
                                        THEN "script_data_escape_start_dash_state"
                                        ELSE "script_data_escaped_dash_dash_state"), c)
    ELSE ReadAgain(s, "script_data_state", c)

AfterDash == [script_data_escaped_state      |-> "script_data_escaped_dash_state",
              script_data_escaped_dash_state |-> "script_data_escaped_dash_dash_state",
              script_data_escaped_dash_dash_state |-> "script_data_escaped_dash_dash_state",
              script_data_double_escaped_state |-> "script_data_double_escaped_dash_state",
              script_data_double_escaped_dash_state |->
                  "script_data_double_escaped_dash_dash_state",
              script_data_double_escaped_dash_dash_state |->
                  "script_data_double_escaped_dash_dash_state"]

script_data_escaped(s, c) ==
    CASE c = "-"   -> EmitCharacter(StayIn(s, AfterDash[s.state]), c)
      [] c = "<"   -> SwitchToState(s, "script_data_escaped_less_than_sign_state")
      [] c = ">" /\ s.state = "script_data_escaped_dash_dash_state" ->
            EmitCharacter(SwitchToState(s, "script_data_state"), c)
      [] c = "EOF" -> Abandon(s)
      [] OTHER     -> EmitCharacter(StayIn(s, "script_data_escaped_state"), Shown(c))

\* It is a dash here that begins the end tag.
script_data_escaped_less_than_sign_state(s, c) ==
    CASE c \in Letters ->
            EmitCharacters(SwitchToState([s EXCEPT !.buffer = <<Lower(c)>>],
                               "script_data_double_escape_start_state"), <<"<", c>>)
      [] c = "-" -> SwitchToState([s EXCEPT !.buffer = <<>>],
                                  "script_data_escaped_end_tag_open_state")
      [] OTHER   -> Again(EmitCharacter(SwitchToState(s, "script_data_escaped_state"),
                                                "<"), c)

script_data_escaped_end_tag(s, c) ==
    IF s.state = "script_data_escaped_end_tag_open_state"
    THEN EndTagOpen(s, c, "script_data_escaped_state", "script_data_escaped_end_tag_name_state")
    ELSE EndTagName(s, c, "script_data_escaped_state")

\* The word after the less-than sign decides between the two kinds of escape.
EscapeWord(s, c, if_script, otherwise) ==
    CASE c \in Letters -> EmitCharacter([s EXCEPT !.buffer = Append(@, Lower(c))], c)
      [] c \in Space \cup {"/", ">"} ->
            EmitCharacter(SwitchToState(s, IF s.buffer = script THEN if_script ELSE otherwise), c)
      [] OTHER -> ReadAgain(s, IF s.state = "script_data_double_escape_start_state"
                               THEN "script_data_escaped_state"
                               ELSE "script_data_double_escaped_state", c)

script_data_double_escape_start_state(s, c) ==
    EscapeWord(s, c, "script_data_double_escaped_state", "script_data_escaped_state")

script_data_double_escape_end_state(s, c) ==
    EscapeWord(s, c, "script_data_escaped_state", "script_data_double_escaped_state")

\* What follows a single dash is not emitted.
script_data_double_escaped(s, c) ==
    LET back == StayIn(s, "script_data_double_escaped_state")
    IN  CASE c = "-"   -> EmitCharacter(StayIn(s, AfterDash[s.state]), c)
          [] c = "<"   -> EmitCharacter(SwitchToState(s,
                              "script_data_double_escaped_less_than_sign_state"), c)
          [] c = ">" /\ s.state = "script_data_double_escaped_dash_dash_state" ->
                EmitCharacter(SwitchToState(s, "script_data_state"), c)
          [] c = "EOF" -> Abandon(s)
          [] OTHER     -> IF s.state = "script_data_double_escaped_dash_state" /\ c # "null"
                          THEN back ELSE EmitCharacter(back, Shown(c))

script_data_double_escaped_less_than_sign_state(s, c) ==
    IF c = "/"
    THEN EmitCharacter(SwitchToState([s EXCEPT !.buffer = <<>>],
                                     "script_data_double_escape_end_state"), c)
    ELSE ReadAgain(s, "script_data_double_escaped_state", c)

-----------------------------------------------------------------------------
(* Tags *)

tag_open_state(s, c) ==
    CASE c \in Letters -> SwitchToState(NewTag(s, "start", c), "tag_name_state")
      [] c = "!" -> IF s.replaying THEN Fail(s, "replay")
                    ELSE SwitchToState([s EXCEPT !.declaration = <<>>],
                                       "markup_declaration_open_state")
      [] c = "/" -> SwitchToState(s, "end_tag_open_state")
      [] c = "?" -> SwitchToState(NewComment(s), "bogus_comment_state")
      [] OTHER   -> Again(EmitCharacter(SwitchToState(s, "data_state"), "<"), c)

end_tag_open_state(s, c) ==
    CASE c \in Letters -> SwitchToState(NewTag(s, "end", c), "tag_name_state")
      [] c = ">"   -> SwitchToState(s, "data_state")
      [] c = "EOF" -> Again(EmitCharacters(SwitchToState(s, "data_state"),
                                                   <<"<", "/">>), c)
      [] OTHER     -> SwitchToState(NewComment(s), "bogus_comment_state")

\* What ends a name or a value in every state of a tag that it may end.
Delimiters == {"/", ">", "EOF"}

Delimited(s, c) ==
    CASE c = "/"   -> SwitchToState(s, "self_closing_start_tag_state")
      [] c = ">"   -> EndTag(s)
      [] c = "EOF" -> Abandon(s)

tag_name_state(s, c) ==
    CASE c \in Space      -> SwitchToState(s, "before_attribute_name_state")
      [] c \in Delimiters -> Delimited(s, c)
      [] OTHER            -> NameGrows(s, Shown(Lower(c)))

NewName(s, c) ==
    SwitchToState([s EXCEPT !.attribute_name = <<Shown(Lower(c))>>], "attribute_name_state")

before_attribute_name_state(s, c) ==
    CASE c \in Space      -> s
      [] c \in Delimiters -> Delimited(s, c)
      [] OTHER            -> NewName(s, c)

attribute_name_state(s, c) ==
    CASE c \in Space      -> SwitchToState(s, "after_attribute_name_state")
      [] c = "="          -> SwitchToState(s, "before_attribute_value_state")
      [] c \in Delimiters -> Delimited(s, c)
      [] OTHER            -> [s EXCEPT !.attribute_name = Append(@, Shown(Lower(c)))]

after_attribute_name_state(s, c) ==
    CASE c \in Space      -> s
      [] c = "="          -> SwitchToState(s, "before_attribute_value_state")
      [] c \in Delimiters -> Delimited(s, c)
      [] OTHER            -> NewName(s, c)

before_attribute_value_state(s, c) ==
    CASE c \in Space           -> s
      [] c = "double quote"    -> SwitchToState(s, "attribute_value_double_quoted_state")
      [] c = "single quote"    -> SwitchToState(s, "attribute_value_single_quoted_state")
      [] c = "&"               -> ReadAgain(s, "attribute_value_unquoted_state", c)
      [] c \in {">", "EOF"}    -> Delimited(s, c)
      [] OTHER                 -> SwitchToState(ValueGrows(s), "attribute_value_unquoted_state")

InReference(s) == SwitchToState(s, "character_reference_in_attribute_value_state")

attribute_value_quoted(s, c, quote) ==
    CASE c = quote -> SwitchToState(s, "after_attribute_value_quoted_state")
      [] c = "&"   -> InReference(s)
      [] c = "EOF" -> Abandon(s)
      [] OTHER     -> ValueGrows(s)

attribute_value_unquoted_state(s, c) ==
    CASE c \in Space        -> SwitchToState(s, "before_attribute_name_state")
      [] c = "&"            -> InReference(s)
      [] c \in {">", "EOF"} -> Delimited(s, c)
      [] OTHER              -> ValueGrows(s)

character_reference_in_attribute_value_state(s, c) ==
    LET r == [s EXCEPT !.ref = CharacterReference(@, c)]
    IN  IF r.ref.state # "done_state" THEN r
        ELSE consume_leftovers(SwitchToState(ValueGrows(r), r.attribute_value_state))

after_attribute_value_quoted_state(s, c) ==
    CASE c \in Space      -> SwitchToState(s, "before_attribute_name_state")
      [] c \in Delimiters -> Delimited(s, c)
      [] OTHER            -> ReadAgain(s, "before_attribute_name_state", c)

self_closing_start_tag_state(s, c) ==
    IF c \in {">", "EOF"} THEN Delimited(s, c)
    ELSE ReadAgain(s, "before_attribute_name_state", c)

-----------------------------------------------------------------------------
(* Comments *)

bogus_comment_state(s, c) ==
    CASE c = ">"   -> EndComment(s)
      [] c = "EOF" -> Again(EndComment(s), c)
      [] OTHER     -> CommentGrows(s)

\* The seven characters are read again straight out of their buffer, which one more
\* markup declaration among them empties.
Replay(s) ==
    [ReadAll(SwitchToState(NewComment(s), "bogus_comment_state"), s.declaration)
        EXCEPT !.replaying = TRUE, !.behind = Len(s.again)]

\* The end of the input is a character like another here.
markup_declaration_open(s, c) ==
    LET r == [s EXCEPT !.declaration = Append(@, c)]
    IN  IF s.state = "markup_declaration_open_state"
        THEN CASE Len(r.declaration) # 2          -> r
               [] r.declaration = <<"-", "-">>    ->
                     SwitchToState(NewComment(r), "comment_start_state_state")
               [] OTHER -> SwitchToState(r, "markup_declaration_open_2_state")
        ELSE IF Len(r.declaration) # 7 THEN r
        ELSE CASE SameLetters(r.declaration, doctype) -> SwitchToState(r, "doctype_state")
               [] r.declaration = cdata               -> SwitchToState(r, "cdata_section_state")
               [] OTHER                               -> Replay(r)

\* The states of a comment, by what its last characters might begin; the others are
\* text, and go back to the comment.
comment(s, c) ==
    LET Dash == [comment_start_state_state |-> "comment_start_dash_state",
                 comment_start_dash_state  |-> "comment_end_state",
                 comment_state             |-> "comment_end_dash_state",
                 comment_end_dash_state    |-> "comment_end_state",
                 comment_end_state         |-> "comment_end_state",
                 comment_end_bang_state    |-> "comment_end_dash_state"]
    IN  CASE c = "-"   -> StayIn(s, Dash[s.state])
          [] c = ">" /\ s.state \notin {"comment_state", "comment_end_dash_state"} ->
                EndComment(s)
          [] c = "!" /\ s.state = "comment_end_state" ->
                SwitchToState(s, "comment_end_bang_state")
          [] c = "EOF" -> Again(EndComment(s), c)
          [] OTHER     -> StayIn(CommentGrows(s), "comment_state")

cdata_section(s, c) ==
    CASE s.state = "cdata_section_state" ->
            CASE c = "]"   -> SwitchToState(s, "cdata_section_2_state")
              [] c = "EOF" -> Abandon(s)
              [] OTHER     -> EmitCharacter(s, c)
      [] s.state = "cdata_section_2_state" ->
            IF c = "]" THEN SwitchToState(s, "cdata_section_3_state")
            ELSE ReadAgain(EmitCharacter(s, "]"), "cdata_section_state", c)
      [] s.state = "cdata_section_3_state" ->
            IF c = ">" THEN SwitchToState(s, "data_state")
            ELSE ReadAgain(EmitCharacters(s, <<"]", "]">>), "cdata_section_state", c)

-----------------------------------------------------------------------------
(* DOCTYPEs *)

\* A DOCTYPE cut short by the end of the input is emitted before that end.
CutShort(s) == Again(EndDocType(s), "EOF")

doctype_state(s, c) ==
    CASE c \in Space -> SwitchToState(s, "before_doctype_name_state")
      [] c = "EOF"   -> CutShort(NewDocType(s))
      [] OTHER       -> ReadAgain(s, "before_doctype_name_state", c)

before_doctype_name_state(s, c) ==
    CASE c \in Space -> s
      [] c = ">"     -> EndDocType(NewDocType(s))
      [] c = "EOF"   -> CutShort(NewDocType(s))
      [] OTHER       -> SwitchToState(NewDocType(s), "doctype_name_state")

doctype_name_state(s, c) ==
    CASE c \in Space -> SwitchToState(s, "after_doctype_name_state")
      [] c = ">"     -> EndDocType(s)
      [] c = "EOF"   -> CutShort(s)
      [] OTHER       -> DocTypeGrows(s)

after_doctype_name_state(s, c) ==
    CASE c \in Space -> s
      [] c = ">"     -> EndDocType(s)
      [] c = "EOF"   -> CutShort(s)
      [] OTHER       -> SwitchToState([s EXCEPT !.keyword = <<c>>], "after_doctype_name_2_state")

\* Here too the end of the input is one of six characters.
after_doctype_name_2_state(s, c) ==
    LET r == [s EXCEPT !.keyword = Append(@, c)]
    IN  IF Len(r.keyword) # 6 THEN r
        ELSE CASE SameLetters(r.keyword, public_keyword) ->
                     SwitchToState(r, "after_doctype_public_keyword_state")
               [] SameLetters(r.keyword, system_keyword) ->
                     SwitchToState(r, "after_doctype_system_keyword_state")
               [] OTHER -> ReadAll(SwitchToState(DocTypeGrows(r), "bogus_doctype_state"), r.keyword)

Quoted == [public |-> [after |-> "after_doctype_public_identifier_state",
                       single |-> "doctype_public_identifier_single_quoted_state",
                       double |-> "doctype_public_identifier_double_quoted_state"],
           system |-> [after |-> "after_doctype_system_identifier_state",
                       single |-> "doctype_system_identifier_single_quoted_state",
                       double |-> "doctype_system_identifier_double_quoted_state"]]

\* Before an identifier: space is skipped, or leads to the next state; a quote begins
\* the identifier, over again if there was one.
BeforeIdentifier(s, c, which, after_space) ==
    LET begun == IF which = "public" THEN [s EXCEPT !.doctype.public = TRUE]
                                     ELSE [s EXCEPT !.doctype.system = TRUE]
    IN  CASE c \in Space -> StayIn(s, after_space)
          [] c = "double quote" -> SwitchToState(DocTypeGrows(begun), Quoted[which].double)
          [] c = "single quote" -> SwitchToState(DocTypeGrows(begun), Quoted[which].single)
          [] c = ">"   -> EndDocType(s)
          [] c = "EOF" -> CutShort(s)
          [] OTHER     -> SwitchToState(DocTypeGrows(s), "bogus_doctype_state")

doctype_identifier_quoted(s, c, which, quote) ==
    LET given == IF which = "public" THEN s.doctype.public ELSE s.doctype.system
    IN  CASE c = quote -> SwitchToState(s, Quoted[which].after)
          [] c = ">"   -> EndDocType(s)
          [] c = "EOF" -> CutShort(s)
          [] OTHER     -> IF given THEN s ELSE Fail(s, "null")

\* After the public identifier a quote begins a public identifier again.
doctype_public(s, c) ==
    CASE s.state \in {"after_doctype_public_keyword_state",
                      "before_doctype_public_identifier_state"} ->
            BeforeIdentifier(s, c, "public", "before_doctype_public_identifier_state")
      [] s.state = "doctype_public_identifier_double_quoted_state" ->
            doctype_identifier_quoted(s, c, "public", "double quote")
      [] s.state = "doctype_public_identifier_single_quoted_state" ->
            doctype_identifier_quoted(s, c, "public", "single quote")

after_doctype_public(s, c) ==
    BeforeIdentifier(s, c, "public", "between_doctype_public_and_system_identifiers_state")

doctype_system(s, c) ==
    CASE s.state \in {"after_doctype_system_keyword_state",
                      "before_doctype_system_identifier_state"} ->
            BeforeIdentifier(s, c, "system", "before_doctype_system_identifier_state")
      [] s.state = "doctype_system_identifier_double_quoted_state" ->
            doctype_identifier_quoted(s, c, "system", "double quote")
      [] s.state = "doctype_system_identifier_single_quoted_state" ->
            doctype_identifier_quoted(s, c, "system", "single quote")

after_doctype_system_identifier_state(s, c) ==
    CASE c \in Space -> s
      [] c = ">"     -> EndDocType(s)
      [] c = "EOF"   -> CutShort(s)
      [] OTHER       -> SwitchToState(s, "bogus_doctype_state")

bogus_doctype_state(s, c) ==
    CASE c = ">"   -> EndDocType(s)
      [] c = "EOF" -> CutShort(s)
      [] OTHER     -> s

-----------------------------------------------------------------------------
(* The dispatch on the state *)

DoctypePublicStates == {"after_doctype_public_keyword_state",
    "before_doctype_public_identifier_state", "doctype_public_identifier_double_quoted_state",
    "doctype_public_identifier_single_quoted_state"}
AfterDoctypePublicStates == {"after_doctype_public_identifier_state",
    "between_doctype_public_and_system_identifiers_state"}
DoctypeSystemStates == {"after_doctype_system_keyword_state",
    "before_doctype_system_identifier_state", "doctype_system_identifier_double_quoted_state",
    "doctype_system_identifier_single_quoted_state"}
CommentStates == {"comment_start_state_state", "comment_start_dash_state", "comment_state",
    "comment_end_dash_state", "comment_end_state", "comment_end_bang_state"}
EscapedStates == {"script_data_escaped_state", "script_data_escaped_dash_state",
    "script_data_escaped_dash_dash_state"}
DoubleEscapedStates == {"script_data_double_escaped_state",
    "script_data_double_escaped_dash_state", "script_data_double_escaped_dash_dash_state"}
RCDATATagStates == {"RCDATA_less_than_sign_state", "RCDATA_end_tag_open_state",
    "RCDATA_end_tag_name_state"}
RAWTEXTTagStates == {"RAWTEXT_less_than_sign_state", "RAWTEXT_end_tag_open_state",
    "RAWTEXT_end_tag_name_state"}
ScriptTagStates == {"script_data_less_than_sign_state", "script_data_end_tag_open_state",
    "script_data_end_tag_name_state"}

TextDispatch(s, c) ==
    CASE s.state = "data_state"      -> data_state(s, c)
      [] s.state = "RCDATA_state"    -> RCDATA_state(s, c)
      [] s.state = "PLAINTEXT_state" -> PlainText(s, c)
      [] s.state \in {"RAWTEXT_state", "script_data_state"} -> RawText(s, c)
      [] s.state = "character_reference_in_data_state" ->
            character_reference_in_data_state(s, c)
      [] s.state = "character_reference_in_RCDATA_state" ->
            character_reference_in_RCDATA_state(s, c)
      [] s.state \in RCDATATagStates     -> RCDATA_end_tag(s, c)
      [] s.state \in RAWTEXTTagStates    -> RAWTEXT_end_tag(s, c)
      [] s.state \in ScriptTagStates     -> script_data_end_tag(s, c)
      [] s.state \in {"script_data_escape_start_state", "script_data_escape_start_dash_state"} ->
            script_data_escape_start(s, c)
      [] s.state \in EscapedStates       -> script_data_escaped(s, c)
      [] s.state \in DoubleEscapedStates -> script_data_double_escaped(s, c)
      [] s.state = "script_data_escaped_less_than_sign_state" ->
            script_data_escaped_less_than_sign_state(s, c)
      [] s.state \in {"script_data_escaped_end_tag_open_state",
                      "script_data_escaped_end_tag_name_state"} ->
            script_data_escaped_end_tag(s, c)
      [] s.state = "script_data_double_escape_start_state" ->
            script_data_double_escape_start_state(s, c)
      [] s.state = "script_data_double_escaped_less_than_sign_state" ->
            script_data_double_escaped_less_than_sign_state(s, c)
      [] s.state = "script_data_double_escape_end_state" ->
            script_data_double_escape_end_state(s, c)

MarkupDispatch(s, c) ==
    CASE s.state = "tag_open_state"     -> tag_open_state(s, c)
      [] s.state = "end_tag_open_state" -> end_tag_open_state(s, c)
      [] s.state = "tag_name_state"     -> tag_name_state(s, c)
      [] s.state = "before_attribute_name_state"  -> before_attribute_name_state(s, c)
      [] s.state = "attribute_name_state"         -> attribute_name_state(s, c)
      [] s.state = "after_attribute_name_state"   -> after_attribute_name_state(s, c)
      [] s.state = "before_attribute_value_state" -> before_attribute_value_state(s, c)
      [] s.state = "attribute_value_double_quoted_state" ->
            attribute_value_quoted(s, c, "double quote")
      [] s.state = "attribute_value_single_quoted_state" ->
            attribute_value_quoted(s, c, "single quote")
      [] s.state = "attribute_value_unquoted_state" -> attribute_value_unquoted_state(s, c)
      [] s.state = "character_reference_in_attribute_value_state" ->
            character_reference_in_attribute_value_state(s, c)
      [] s.state = "after_attribute_value_quoted_state" ->
            after_attribute_value_quoted_state(s, c)
      [] s.state = "self_closing_start_tag_state" -> self_closing_start_tag_state(s, c)
      [] s.state = "bogus_comment_state"          -> bogus_comment_state(s, c)
      [] s.state \in {"markup_declaration_open_state", "markup_declaration_open_2_state"} ->
            markup_declaration_open(s, c)
      [] s.state \in CommentStates                -> comment(s, c)
      [] s.state \in {"cdata_section_state", "cdata_section_2_state", "cdata_section_3_state"} ->
            cdata_section(s, c)
      [] s.state = "doctype_state"                -> doctype_state(s, c)
      [] s.state = "before_doctype_name_state"    -> before_doctype_name_state(s, c)
      [] s.state = "doctype_name_state"           -> doctype_name_state(s, c)
      [] s.state = "after_doctype_name_state"     -> after_doctype_name_state(s, c)
      [] s.state = "after_doctype_name_2_state"   -> after_doctype_name_2_state(s, c)
      [] s.state \in DoctypePublicStates          -> doctype_public(s, c)
      [] s.state \in AfterDoctypePublicStates     -> after_doctype_public(s, c)
      [] s.state \in DoctypeSystemStates          -> doctype_system(s, c)
      [] s.state = "after_doctype_system_identifier_state" ->
            after_doctype_system_identifier_state(s, c)
      [] s.state = "bogus_doctype_state"          -> bogus_doctype_state(s, c)

ScriptStates ==
    {"script_data_state", "script_data_escape_start_state", "script_data_escape_start_dash_state",
     "script_data_escaped_less_than_sign_state", "script_data_escaped_end_tag_open_state",
     "script_data_escaped_end_tag_name_state", "script_data_double_escape_start_state",
     "script_data_double_escaped_less_than_sign_state", "script_data_double_escape_end_state"}
    \cup ScriptTagStates \cup EscapedStates \cup DoubleEscapedStates

TextStates ==
    {"data_state", "RCDATA_state", "RAWTEXT_state", "PLAINTEXT_state",
     "character_reference_in_data_state", "character_reference_in_RCDATA_state"}
    \cup RCDATATagStates \cup RAWTEXTTagStates \cup ScriptStates

MarkupStates ==
    {"tag_open_state", "end_tag_open_state", "tag_name_state", "before_attribute_name_state",
     "attribute_name_state", "after_attribute_name_state", "before_attribute_value_state",
     "attribute_value_double_quoted_state", "attribute_value_single_quoted_state",
     "attribute_value_unquoted_state", "character_reference_in_attribute_value_state",
     "after_attribute_value_quoted_state", "self_closing_start_tag_state",
     "bogus_comment_state", "markup_declaration_open_state", "markup_declaration_open_2_state",
     "cdata_section_state", "cdata_section_2_state", "cdata_section_3_state",
     "doctype_state", "before_doctype_name_state", "doctype_name_state",
     "after_doctype_name_state", "after_doctype_name_2_state",
     "after_doctype_system_identifier_state", "bogus_doctype_state"}
    \cup CommentStates \cup DoctypePublicStates \cup AfterDoctypePublicStates
    \cup DoctypeSystemStates

write_element(s, c) ==
    IF s.state \in TextStates THEN TextDispatch(s, c) ELSE MarkupDispatch(s, c)

-----------------------------------------------------------------------------
(* The parser: preprocessor and tokenizer *)

Init ==
    /\ tokenizer = [state |-> "data_state", content |-> "data", last |-> <<>>,
                    tag |-> NoTag, attribute_name |-> <<>>, attribute |-> <<>>,
                    attribute_value_state |-> "data_state", buffer |-> <<>>,
                    comment |-> FALSE, doctype |-> NoDocType, declaration |-> <<>>,
                    keyword |-> <<>>, ref |-> Referred, again |-> <<>>,
                    replaying |-> FALSE, behind |-> 0, out |-> <<>>, ended |-> FALSE,
                    answer |-> FALSE, failure |-> "none"]
    /\ preprocessor = "bom_state"
    /\ input = <<>> /\ pieces = 0 /\ closed = FALSE

\* Everything there was to read again has been read.
Returned == tokenizer.again = <<>> /\ tokenizer.failure = "none"

Come ==
    /\ Returned /\ input = <<>> /\ pieces < MaxPieces /\ ~closed
    /\ input' \in Pieces
    /\ pieces' = pieces + 1
    /\ UNCHANGED <<tokenizer, preprocessor, closed>>

\* The tree constructor may or may not answer a start tag of this step.  A replay is over
\* when no more is to be read again than was when it began.
Tokenize(s, c) == \E answer \in BOOLEAN :
    LET r == write_element([s EXCEPT !.out = <<>>, !.answer = answer], c)
    IN  tokenizer' = [r EXCEPT !.answer = FALSE, !.replaying = @ /\ Len(r.again) > r.behind]

\* What the preprocessor makes of the next character of the input.
Preprocessed == IF Head(input) = "cr" THEN "lf" ELSE Head(input)

Dropped == \/ preprocessor = "bom_state" /\ Preprocessed = "bom"
           \/ preprocessor = "ignore_lf_state" /\ Preprocessed = "lf"

\* A carriage return is a line feed, and a line feed after one is dropped, as is a byte
\* order mark at the start.
Write ==
    /\ Returned /\ input # <<>>
    /\ input' = Tail(input)
    /\ IF Dropped THEN tokenizer' = [tokenizer EXCEPT !.out = <<>>]
                  ELSE Tokenize(tokenizer, Preprocessed)
    /\ preprocessor' = IF Preprocessed = "lf" THEN "ignore_lf_state" ELSE "normal_state"
    /\ UNCHANGED <<pieces, closed>>

write_eof ==
    /\ Returned /\ input = <<>> /\ ~closed
    /\ closed' = TRUE
    /\ Tokenize(tokenizer, "EOF")
    /\ UNCHANGED <<preprocessor, input, pieces>>

\* The first of the characters to be read again.
Reread ==
    /\ tokenizer.again # <<>> /\ tokenizer.failure = "none"
    /\ Tokenize([tokenizer EXCEPT !.again = Tail(@)], Head(tokenizer.again))
    /\ UNCHANGED <<preprocessor, input, pieces, closed>>

Next == Come \/ Write \/ write_eof \/ Reread

Spec == Init /\ [][Next]_vars

-----------------------------------------------------------------------------
(* What must be true of every input *)

\* The states append to the tag, the comment, the DOCTYPE or the attribute that is being
\* built through pointers and an iterator that an earlier state has set: whatever the
\* states come after each other, there is one, a tag that ends was begun, and no state is
\* entered from itself.
Built == tokenizer.failure \notin {"null", "no tag", "same state"}

\* The states that read a number of characters before they look at them take the end of
\* the input for one of these; in all others it reaches the tree constructor.
EofEnds ==
    closed /\ Returned /\ tokenizer.state \notin {"markup_declaration_open_state",
                                                "markup_declaration_open_2_state",
                                                "after_doctype_name_2_state"} => tokenizer.ended

TagStates == {"before_attribute_name_state", "attribute_name_state",
    "after_attribute_name_state", "before_attribute_value_state",
    "attribute_value_double_quoted_state", "attribute_value_single_quoted_state",
    "attribute_value_unquoted_state", "character_reference_in_attribute_value_state",
    "after_attribute_value_quoted_state", "self_closing_start_tag_state"}

StatesOf == [
    data        |-> MarkupStates \cup {"data_state", "character_reference_in_data_state"},
    RCDATA      |-> RCDATATagStates \cup {"RCDATA_state", "character_reference_in_RCDATA_state"},
    RAWTEXT     |-> RAWTEXTTagStates \cup {"RAWTEXT_state"},
    script_data |-> ScriptStates,
    PLAINTEXT   |-> {"PLAINTEXT_state"}]

\* The tree constructor switches the tokenizer by a call in the middle of Emit, after the
\* tokenizer has chosen its own next state: from then on it reads that content only, and
\* leaves it for nothing but the attributes of the end tag that ends it.
InStep ==
    ~tokenizer.ended /\ tokenizer.failure = "none" /\ tokenizer.again # <<"EOF">> =>
        \/ tokenizer.state \in StatesOf[tokenizer.content]
        \/ tokenizer.state \in TagStates /\ IsAppropriate(tokenizer)

\* What a text state has read and not yet decided about.
Held(s) ==
    CASE s.state \in {"RCDATA_less_than_sign_state", "RAWTEXT_less_than_sign_state",
                     "script_data_less_than_sign_state",
                     "script_data_escaped_less_than_sign_state"}  -> <<"<">>
      [] s.state \in {"RCDATA_end_tag_open_state", "RAWTEXT_end_tag_open_state",
                     "script_data_end_tag_open_state"} -> <<"<", "/">>
      [] s.state \in {"RCDATA_end_tag_name_state", "RAWTEXT_end_tag_name_state",
                     "script_data_end_tag_name_state"} -> <<"<", "/">> \o s.buffer
      [] OTHER -> <<>>

\* The character references, and the two states known to lose characters.
Text == TextStates \ {"data_state", "character_reference_in_data_state",
    "character_reference_in_RCDATA_state", "script_data_escaped_end_tag_open_state",
    "script_data_escaped_end_tag_name_state", "script_data_double_escaped_dash_state"}

\* Characters as the text states write them, and the end of the input as one of them.
Characters(cs) == [i \in DOMAIN cs |-> Shown(cs[i])]
Given(out) == [i \in DOMAIN out |-> IF out[i].type = "eof" THEN "EOF" ELSE out[i].name[1]]

\* What looks like the end tag of a text element is kept back and given out when it turns
\* out to be text: no character is lost, doubled or out of order, wherever it turns out,
\* and the end of the input comes after all of them.
TextKept ==
    [][LET read == CASE closed' # closed -> <<"EOF">>
                     [] input' # input /\ ~Dropped -> <<Preprocessed>>
                     [] OTHER -> <<>>
       IN  pieces' = pieces /\ tokenizer.state \in Text /\ tokenizer'.state \in Text
           => Held(tokenizer) \o Characters(tokenizer.again \o read)
              = Given(tokenizer'.out) \o Held(tokenizer') \o Characters(tokenizer'.again)]_vars

\* The tokens are what the tree constructor is promised: one end of the file, the last;
\* and after a switch only characters, up to the end tag of the same name.
Promise == T!Spec

=============================================================================
