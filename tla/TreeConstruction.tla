---------------------------- MODULE TreeConstruction ----------------------------
(* The HTML tree construction stage (Html.TreeConstruction.cpp) of a document     *)
(* that is no fragment: the stack of open elements, the list of active formatting *)
(* elements and the insertion mode, changed by one token of the tokenizer at a    *)
(* time.  The document itself is left out: of a node only its name and identity   *)
(* are kept, while it is open or may be reopened.                                 *)
(*                                                                                *)
(* A handler is an operator from one state of the constructor to the next.  The   *)
(* dispatcher calls the handlers, and they call it for the tokens that they make  *)
(* up: D is that dispatcher, with room for one call less on the thread's stack.   *)
(* The alternatives of a CASE are in the order in which the code tries them, as   *)
(* TLC does, too; what is proved of a handler holds whichever of those that apply *)
(* is taken.                                                                      *)
EXTENDS Integers, Sequences, FiniteSets, SequencesExt

CONSTANTS
    Vocabularies,   \* kinds of documents: the names of their start tags, of their end
                    \* tags, of the start tags that may be self-closing, and the
                    \* number of open elements at which no more tag or text comes
    DocTypes,       \* what a DOCTYPE token may name
    MaxFormatting,  \* nor a start tag while the formatting list has this length
    MaxDispatch     \* the dispatches inside each other before the thread's stack is full

ASSUME DispatchAssumption == MaxDispatch \in Nat

VARIABLES tree, vocabulary

vars == <<tree, vocabulary>>

Modes == {"initial", "before_html", "before_head", "in_head", "in_head_noscript",
    "after_head", "in_body", "text", "in_table", "in_table_text", "in_caption",
    "in_column_group", "in_table_body", "in_row", "in_cell", "in_select",
    "in_select_in_table", "after_body", "in_frameset", "after_frameset",
    "after_after_body", "after_after_frameset"}

\* What the tokenizer promises of the tokens it gives.
TS == INSTANCE TokenStream WITH stream <- tree, batch <- <<>>

-----------------------------------------------------------------------------
(* Names *)

Headings == {"h1", "h2", "h3", "h4", "h5", "h6"}
Sections == {"tbody", "tfoot", "thead"}
Cells == {"td", "th"}
Columns == {"caption", "col", "colgroup"}
ImpliedEnd == {"dd", "dt", "li", "option", "optgroup", "p", "rp", "rt"}
Blocks == {"address", "article", "aside", "blockquote", "center", "details", "dialog",
    "dir", "div", "dl", "fieldset", "figcaption", "figure", "footer", "header", "hgroup",
    "main", "menu", "nav", "ol", "section", "summary", "ul"}
FormattingNames == {"b", "big", "code", "em", "font", "i", "s", "small", "strike",
    "strong", "tt", "u"}
Embedded == {"applet", "marquee", "object"}
HeadContent == {"base", "basefont", "bgsound", "link", "meta", "noframes", "script",
    "style", "title"}

Scope == Embedded \cup Cells \cup {"caption", "html", "table"}
ListItemScope == Scope \cup {"ol", "ul"}
ButtonScope == Scope \cup {"button"}
TableScope == {"html", "table"}
SelectScope == {"optgroup", "option"}

is_special ==
    (Blocks \ {"dialog"}) \cup Headings \cup Sections \cup Cells \cup Columns \cup Embedded
    \cup HeadContent
    \cup {"area", "body", "br", "button", "dd", "dt", "embed", "form", "frame", "frameset",
          "head", "hr", "html", "iframe", "img", "input", "isindex", "li", "listing",
          "menuitem", "noembed", "noscript", "p", "param", "plaintext", "pre", "select",
          "source", "table", "textarea", "tr", "track", "wbr", "xmp"}

-----------------------------------------------------------------------------
(* The state, elements and the two lists that hold them *)

NoElement == [name |-> "none", id |-> 0]
Marker == [name |-> "marker", id |-> 0]

Characters == {"null", "space", "line feed", "text"}

\* What a token may be called, and an element: the tags of the documents, and those that
\* the rules make up themselves.
Names ==
    (UNION {v.start \cup v.end : v \in Vocabularies}) \cup DocTypes \cup Characters
    \cup {"", "none", "marker", "html", "head", "body", "br", "button", "caption", "colgroup",
          "form", "hr", "img", "label", "li", "a", "nobr", "noscript", "optgroup", "option",
          "p", "select", "table", "tbody", "td", "th", "tr"}

Elements == [name : Names, id : Nat]

\* Why a handler fails, and the two ways in which a start tag pops what it should not.
Failures ==
    {"none", "empty", "null", "range", "bookmark", "no marker", "overflow", "passed", "astray"}

Trees ==
    [mode : Modes, original : Modes, open : Seq(Elements), formatting : Seq(Elements),
     head : Elements, form : Elements, frameset_ok : BOOLEAN, ignore_line_feed : BOOLEAN,
     pending : SUBSET {"space", "line feed", "text"}, quirks : BOOLEAN,
     content : TS!Contents, last : Names, ended : BOOLEAN, stopped : BOOLEAN,
     ignored : BOOLEAN, reprocess : BOOLEAN, failure : Failures]

Tokens ==
    [type : {"start", "end", "comment", "doctype", "eof"}, name : Names, self : BOOLEAN]
    \cup [type : {"character"}, name : Characters, self : BOOLEAN]

\* The first handler that fails decides what becomes of the thread.
Fail(s, why) == [s EXCEPT !.failure = IF @ = "none" THEN why ELSE @]

\* The last open element that has one of the names, 0 if there is none.
LastNamed(s, names) == Max({0} \cup {i \in DOMAIN s.open : s.open[i].name \in names})

\* The first position of an entry in a list, 0 if it is not there.
Position(list, e) ==
    LET at == {i \in DOMAIN list : list[i] = e}
    IN  IF at = {} THEN 0 ELSE Min(at)

CurrentIs(s, names) == s.open # <<>> /\ Last(s.open).name \in names

Shrunk(s, n) == [s EXCEPT !.open = SubSeq(@, 1, n)]

Pop(s) == IF s.open = <<>> THEN Fail(s, "empty") ELSE Shrunk(s, Len(s.open) - 1)

\* while (true) { pop; if the popped element has the name, break }
PopThrough(s, names) ==
    LET i == LastNamed(s, names)
    IN  IF i = 0 THEN Fail(Shrunk(s, 0), "empty") ELSE Shrunk(s, i - 1)

\* while (the current node has another name) pop
PopTo(s, names) ==
    LET i == LastNamed(s, names)
    IN  IF i = 0 THEN Fail(Shrunk(s, 0), "null") ELSE Shrunk(s, i)

generate_implied_end_tags(s, except) ==
    LET i == Max({0} \cup {n \in DOMAIN s.open : s.open[n].name \notin ImpliedEnd \ except})
    IN  IF i = 0 THEN Fail(Shrunk(s, 0), "null") ELSE Shrunk(s, i)

Used(s) ==
    {s.head.id, s.form.id}
    \cup {s.open[i].id : i \in DOMAIN s.open}
    \cup {s.formatting[i].id : i \in DOMAIN s.formatting}

\* The n-th of the identities that no live element has.
Unused(s, n) ==
    CHOOSE id \in 1 .. Cardinality(Used(s)) + n :
        id \notin Used(s) /\ Cardinality((1 .. id) \ Used(s)) = n

create_an_element_for_a_token(s, name) == [name |-> name, id |-> Unused(s, 1)]

Push(s, e) == [s EXCEPT !.open = Append(@, e)]

\* Appending to the current node, a null pointer when nothing is open.
Write(s) == IF s.open = <<>> THEN Fail(s, "null") ELSE s

insert_an_HTML_element(s, name) ==
    Push(Write(s), create_an_element_for_a_token(s, name))

InsertAndPop(s, name) == Pop(insert_an_HTML_element(s, name))

remove_node_from_the_stack_of_open_elements(s, e) ==
    LET i == Position(s.open, e)
    IN  IF i = 0 THEN s ELSE [s EXCEPT !.open = RemoveAt(@, i)]

remove_node_from_the_list_of_active_formatting_elements(s, e) ==
    LET i == Position(s.formatting, e)
    IN  IF i = 0 THEN s ELSE [s EXCEPT !.formatting = RemoveAt(@, i)]

is_in_the_stack_of_open_elements(s, e) == e \in ToSet(s.open)

\* The open element that decides is the last one of the wanted names and the scope.
has_element_in_specific_scope(s, names, scope) ==
    LET i == LastNamed(s, names \cup scope)
    IN  i > 0 /\ s.open[i].name \in names

InScopeAnywhere(s, names) == LastNamed(s, names) > 0

has_element_in_scope(s, names) == has_element_in_specific_scope(s, names, Scope)
has_element_in_button_scope(s, name) == has_element_in_specific_scope(s, {name}, ButtonScope)
has_element_in_table_scope(s, names) == has_element_in_specific_scope(s, names, TableScope)

\* An element that is no option ends the search too, and with success.
has_element_in_select_scope(s, name) ==
    \E i \in DOMAIN s.open : s.open[i].name = name \/ s.open[i].name \notin SelectScope

-----------------------------------------------------------------------------
(* The list of active formatting elements *)

LastMarker(s) == Max({0} \cup {i \in DOMAIN s.formatting : s.formatting[i] = Marker})

\* The entries after the last marker, as positions.
SinceMarker(s) == LastMarker(s) + 1 .. Len(s.formatting)

MarkedNot(s) == s

Marked(s) == [s EXCEPT !.formatting = Append(@, Marker)]

PushedWithoutNoah(s, e) == [s EXCEPT !.formatting = Append(@, e)]

\* The Noah's Ark clause: the earliest of three like it goes.
push_onto_the_list_of_active_formatting_elements(s, e) ==
    LET like == {i \in SinceMarker(s) : s.formatting[i].name = e.name}
        kept == IF Cardinality(like) = 3
                THEN RemoveAt(s.formatting, Min(like))
                ELSE s.formatting
    IN  [s EXCEPT !.formatting = Append(kept, e)]

ClearedWhole(s) == [s EXCEPT !.formatting = <<>>]

\* An empty list is popped when it holds no marker.
clear_the_list_of_active_formatting_elements_up_to_the_last_marker(s) ==
    IF LastMarker(s) = 0
    THEN Fail([s EXCEPT !.formatting = <<>>], "no marker")
    ELSE [s EXCEPT !.formatting = SubSeq(@, 1, LastMarker(s) - 1)]

\* The last entry that is a marker or open.
Reopened(s) ==
    Max({0} \cup {i \in DOMAIN s.formatting :
                     s.formatting[i] = Marker
                     \/ is_in_the_stack_of_open_elements(s, s.formatting[i])})

\* On the way back through the list whatever is not open is opened, and a marker is only
\* stepped over.
ReconstructedBackwards(s) ==
    LET gone == {i \in DOMAIN s.formatting :
                    s.formatting[i] # Marker
                    /\ ~is_in_the_stack_of_open_elements(s, s.formatting[i])}
        back == SetToSortSeq(gone, >)
        new  == [n \in DOMAIN back |-> [name |-> s.formatting[back[n]].name, id |-> Unused(s, n)]]
    IN  IF gone = {} THEN s
        ELSE [Write(s) EXCEPT
                !.open = @ \o new,
                !.formatting = [i \in DOMAIN @ |->
                    IF i \in gone THEN new[Cardinality({g \in gone : g >= i})] ELSE @[i]]]

\* The entries after that one are opened again, in the order of the list, and each is
\* replaced by the element that is opened for it.
reconstruct_the_active_formatting_elements(s) ==
    LET from == Reopened(s)
        new  == [i \in 1 .. Len(s.formatting) - from |->
                    [name |-> s.formatting[from + i].name, id |-> Unused(s, i)]]
    IN  IF new = <<>> THEN s
        ELSE [Write(s) EXCEPT !.open = @ \o new,
                              !.formatting = SubSeq(@, 1, from) \o new]

InsertFormatting(s, name) ==
    LET inserted == insert_an_HTML_element(s, name)
    IN  push_onto_the_list_of_active_formatting_elements(inserted, Last(inserted.open))

Ignored(s) == [s EXCEPT !.ignored = TRUE]

any_other_end_tag_in_body(s, t) ==
    LET i == LastNamed(s, {t.name} \cup is_special)
    IN  IF i = 0 THEN Fail(s, "range")
        ELSE IF s.open[i].name = t.name
             THEN Shrunk(generate_implied_end_tags(s, {t.name}), i - 1)
             ELSE Ignored(s)

\* Steps 8 to 15 of one round: f, the k-th entry, is the i-th open element, and the
\* j-th the furthest block.  The inner loop looks at the element above that block
\* three times, and so replaces or removes that one element only.
Adopted(s, k, i, j) ==
    LET f      == s.formatting[k]
        above  == s.open[j - 1]
        listed == Position(s.formatting, above)
        clone  == create_an_element_for_a_token(s, above.name)
        inner  == IF listed = 0
                  THEN [s EXCEPT !.open = RemoveAt(@, j - 1)]
                  ELSE IF above = f THEN s
                  ELSE [s EXCEPT !.open[j - 1] = clone, !.formatting[listed] = clone]
        mark   == IF listed = 0 \/ above = f THEN k - 1 ELSE listed
        list   == RemoveAt(inner.formatting, k)
        open   == RemoveAt(inner.open, i)
        new    == create_an_element_for_a_token(inner, f.name)
    IN  [inner EXCEPT
            !.formatting = InsertAt(list, IF mark < k THEN mark + 1 ELSE mark, new),
            !.open = InsertAt(open, Len(open) - (Len(s.open) - j) + 1, new)]

\* Steps 4 to 15: a round ends the algorithm or wants one more.
Round(s, t) ==
    LET named  == {k \in SinceMarker(s) : s.formatting[k].name = t.name}
        k      == Max(named)
        f      == s.formatting[k]
        i      == Position(s.open, f)
        blocks == {n \in i + 1 .. Len(s.open) : s.open[n].name \in is_special}
        forget == [s EXCEPT !.formatting = RemoveAt(@, k)]
        End(r) == [tree |-> r, more |-> FALSE]
    IN  IF named = {} THEN End(any_other_end_tag_in_body(s, t))
        ELSE IF i = 0 THEN End(forget)
        ELSE IF ~has_element_in_scope(s, {f.name}) THEN End(Ignored(s))
        ELSE IF blocks = {} THEN End(Shrunk(forget, i - 1))
        \* The bookmark is the entry before, which the first one has not.
        ELSE IF k = 1 THEN End(Fail(s, "bookmark"))
        ELSE [tree |-> Adopted(s, k, i, Min(blocks)), more |-> TRUE]

OneRound(r, t)   == IF r.more THEN Round(r.tree, t) ELSE r
TwoRounds(r, t)  == OneRound(OneRound(r, t), t)
FourRounds(r, t) == TwoRounds(TwoRounds(r, t), t)

adoption_agency_algorithm(s, t) ==
    FourRounds(FourRounds([tree |-> s, more |-> TRUE], t), t).tree

-----------------------------------------------------------------------------
(* Modes and tokens *)

switch_the_insertion_mode(s, m) ==
    [s EXCEPT !.mode = m,
              !.original = IF m \in {"text", "in_table_text"} THEN s.mode ELSE @]

ResetMode(name) ==
    CASE name = "select"      -> "in_select"
      [] name \in Cells       -> "in_cell"
      [] name = "tr"          -> "in_row"
      [] name \in Sections    -> "in_table_body"
      [] name = "caption"     -> "in_caption"
      [] name = "colgroup"    -> "in_column_group"
      [] name = "table"       -> "in_table"
      [] name = "frameset"    -> "in_frameset"
      [] OTHER                -> "in_body"

Resetting == {"select", "tr", "caption", "colgroup", "table", "head", "body", "frameset"}
    \cup Cells \cup Sections

ResetToBody(s) == [s EXCEPT !.mode = "in_body"]

\* For the first open element the fragment's context stands in, which is null: the
\* reference to the element is overwritten with it and then used.
reset_the_insertion_mode_appropriately(s) ==
    LET i == LastNamed(s, Resetting)
    IN  IF i <= 1 THEN Fail(s, "null") ELSE [s EXCEPT !.mode = ResetMode(s.open[i].name)]

Again(s)   == [s EXCEPT !.reprocess = TRUE]

StartTag(name) == [type |-> "start", name |-> name, self |-> FALSE]
EndTag(name)   == [type |-> "end", name |-> name, self |-> FALSE]

IsStart(t, names) == t.type = "start" /\ t.name \in names
IsEnd(t, names)   == t.type = "end" /\ t.name \in names
IsSpace(t)        == t.type = "character" /\ t.name \in {"space", "line feed"}
IsNull(t)         == t.type = "character" /\ t.name = "null"

\* The token made up here is dispatched to the end, and its outcome dropped.
act_as_if_a_start_tag_token_had_been_seen(D, s, name) ==
    [D[s][StartTag(name)] EXCEPT !.ignored = FALSE, !.reprocess = FALSE]

act_as_if_an_end_tag_token_had_been_seen(D, s, name) ==
    [D[s][EndTag(name)] EXCEPT !.ignored = FALSE, !.reprocess = FALSE]

AgainUnlessIgnored(s) == [s EXCEPT !.ignored = FALSE, !.reprocess = ~s.ignored]

\* The callers that reprocess their token unless the one made up here was ignored.
EndThenAgain(D, s, name) ==
    AgainUnlessIgnored(D[s][EndTag(name)])

\* Rules applied on behalf of another mode keep what they ignore to themselves.
OnBehalf(s) == [s EXCEPT !.ignored = FALSE]

GenericUnswitched(s, name, content) ==
    switch_the_insertion_mode(insert_an_HTML_element(s, name), "text")

GenericCdata(s, name, content) ==
    switch_the_insertion_mode([insert_an_HTML_element(s, name) EXCEPT !.content = "CDATA"],
                              "text")

generic_element_parsing_algorithm(s, name, content) ==
    switch_the_insertion_mode([insert_an_HTML_element(s, name) EXCEPT !.content = content],
                              "text")

stop_parsing(s) == [s EXCEPT !.open = <<>>, !.stopped = TRUE]

-----------------------------------------------------------------------------
(* The modes before the body *)

initial(s, t) ==
    CASE IsSpace(t)            -> Ignored(s)
      [] t.type = "comment"    -> s
      [] t.type = "doctype"    ->
            [switch_the_insertion_mode(s, "before_html") EXCEPT !.quirks = t.name # "html"]
      [] OTHER                 ->
            Again([switch_the_insertion_mode(s, "before_html") EXCEPT !.quirks = TRUE])

HtmlOpened(s) ==
    switch_the_insertion_mode(Push(s, create_an_element_for_a_token(s, "html")), "before_head")

before_html(s, t) ==
    CASE t.type = "comment"        -> s
      [] t.type = "doctype" \/ IsSpace(t) -> Ignored(s)
      [] IsStart(t, {"html"})      -> HtmlOpened(s)
      [] t.type = "end" /\ t.name \notin {"head", "body", "html", "br"} -> Ignored(s)
      [] OTHER                     -> Again(HtmlOpened(s))

HtmlTagOpensAgain(s) == HtmlOpened(s)

\* The attributes of a second html tag are not merged, so it does nothing.
HtmlStartTagInBody(s) == s

before_head(D, s, t) ==
    CASE t.type = "comment"        -> Write(s)
      [] t.type = "doctype" \/ IsSpace(t) -> Ignored(s)
      [] IsStart(t, {"html"})      -> HtmlStartTagInBody(s)
      [] IsStart(t, {"head"})      ->
            LET r == insert_an_HTML_element(s, "head")
            IN  switch_the_insertion_mode([r EXCEPT !.head = Last(r.open)], "in_head")
      [] t.type = "end" /\ t.name \notin {"head", "body", "html", "br"} -> Ignored(s)
      [] OTHER                     ->
            Again(act_as_if_a_start_tag_token_had_been_seen(D, s, "head"))

in_head(D, s, t) ==
    CASE IsSpace(t) \/ t.type = "comment" -> Write(s)
      [] t.type = "doctype"               -> Ignored(s)
      [] IsStart(t, {"html"})             -> HtmlStartTagInBody(s)
      [] IsStart(t, {"base", "basefont", "bgsound", "link", "meta"}) ->
            InsertAndPop(s, t.name)
      [] IsStart(t, {"title"})            ->
            generic_element_parsing_algorithm(s, t.name, "RCDATA")
      [] IsStart(t, {"noframes", "style"}) ->
            generic_element_parsing_algorithm(s, t.name, "RAWTEXT")
      [] IsStart(t, {"noscript"})         ->
            switch_the_insertion_mode(insert_an_HTML_element(s, t.name), "in_head_noscript")
      [] IsStart(t, {"script"})           ->
            generic_element_parsing_algorithm(s, t.name, "script_data")
      [] IsStart(t, {"head"})             -> Ignored(s)
      [] IsEnd(t, {"head"})               -> switch_the_insertion_mode(Pop(s), "after_head")
      [] t.type = "end" /\ t.name \notin {"head", "body", "html", "br"} -> Ignored(s)
      [] OTHER                            ->
            Again(act_as_if_an_end_tag_token_had_been_seen(D, s, "head"))

in_head_noscript(D, s, t) ==
    CASE t.type = "doctype"                   -> Ignored(s)
      [] IsStart(t, {"html"})                 -> HtmlStartTagInBody(s)
      [] \/ IsStart(t, {"basefont", "bgsound", "link", "meta", "noframes", "style"})
         \/ IsSpace(t)
         \/ t.type = "comment"                -> OnBehalf(in_head(D, s, t))
      [] IsStart(t, {"head", "noscript"})     -> Ignored(s)
      [] IsEnd(t, {"noscript"})               -> switch_the_insertion_mode(Pop(s), "in_head")
      [] t.type = "end" /\ t.name # "br"      -> Ignored(s)
      [] OTHER                                ->
            Again(act_as_if_an_end_tag_token_had_been_seen(D, s, "noscript"))

after_head(D, s, t) ==
    CASE IsSpace(t) \/ t.type = "comment" -> Write(s)
      [] t.type = "doctype"               -> Ignored(s)
      [] IsStart(t, {"html"})             -> HtmlStartTagInBody(s)
      [] IsStart(t, {"body"})             ->
            [switch_the_insertion_mode(insert_an_HTML_element(s, t.name), "in_body")
                EXCEPT !.frameset_ok = FALSE]
      [] IsStart(t, {"frameset"})         ->
            switch_the_insertion_mode(insert_an_HTML_element(s, t.name), "in_frameset")
      [] IsStart(t, HeadContent)          ->
            remove_node_from_the_stack_of_open_elements(
                OnBehalf(in_head(D, Push(s, s.head), t)), s.head)
      [] IsStart(t, {"head"})             -> Ignored(s)
      [] t.type = "end" /\ t.name \notin {"body", "html", "br"} -> Ignored(s)
      [] OTHER                            ->
            Again([act_as_if_a_start_tag_token_had_been_seen(D, s, "body")
                      EXCEPT !.frameset_ok = TRUE])

-----------------------------------------------------------------------------
(* The body: start tags *)

\* Every start tag that closes an open p element first.
CloseP(D, s) ==
    IF has_element_in_button_scope(s, "p")
    THEN act_as_if_an_end_tag_token_had_been_seen(D, s, "p")
    ELSE s

\* The body and frameset tags change attributes and the document only.
StructureStart(D, s, t) ==
    LET no_body == Len(s.open) = 1 \/ s.open[2].name # "body"
    IN  CASE IsStart(t, {"html"})                  -> HtmlStartTagInBody(s)
          [] IsStart(t, HeadContent)               -> OnBehalf(in_head(D, s, t))
          [] s.open = <<>>                         -> Fail(s, "empty")
          [] IsStart(t, {"body"}) /\ ~no_body      -> [s EXCEPT !.frameset_ok = FALSE]
          [] IsStart(t, {"frameset"}) /\ ~no_body /\ s.frameset_ok -> s
          [] OTHER                                 -> Ignored(s)

BlockStart(D, s, t) ==
    LET closed == CloseP(D, s)
    IN  CASE t.name \in Blocks \cup {"p"} -> insert_an_HTML_element(closed, t.name)
          [] t.name \in Headings          ->
                insert_an_HTML_element(
                    IF CurrentIs(closed, Headings) THEN Pop(closed) ELSE closed, t.name)
          [] t.name \in {"pre", "listing"} ->
                [insert_an_HTML_element(closed, t.name) EXCEPT !.ignore_line_feed = TRUE,
                                                               !.frameset_ok = FALSE]
          [] t.name = "plaintext"         ->
                [insert_an_HTML_element(closed, t.name) EXCEPT !.content = "PLAINTEXT"]
          [] t.name = "hr"                ->
                [InsertAndPop(closed, t.name) EXCEPT !.frameset_ok = FALSE]

FormStart(D, s, t) ==
    IF s.form # NoElement
    THEN Ignored(s)
    ELSE LET r == insert_an_HTML_element(CloseP(D, s), t.name)
         IN  [r EXCEPT !.form = Last(r.open)]

Bounding == is_special \ {"address", "div", "p"}

ItemStart(D, s, t) ==
    LET i      == LastNamed(s, {"li"} \cup Bounding)
        closed == IF i > 0 /\ s.open[i].name = "li"
                  THEN act_as_if_an_end_tag_token_had_been_seen(D, s, "li")
                  ELSE s
    IN  [insert_an_HTML_element(CloseP(D, closed), t.name) EXCEPT !.frameset_ok = FALSE]

\* The first elements stay, n of them, and nobody looks at those above before they are
\* popped.  With none left the current node is null ("passed").  When an element goes
\* that the mode was chosen by ("astray") the process lives on with a mode that does not
\* fit the stack; the model follows the document up to there.
PopUnseen(s, n) ==
    IF n = 0 THEN Fail(Shrunk(s, 0), "passed")
    ELSE IF \E i \in n + 1 .. Len(s.open) : s.open[i].name \in Resetting
    THEN Fail(Shrunk(s, n), "astray")
    ELSE Shrunk(s, n)

\* do { pop } while (the current node, after the pop, has another name): this goes on to
\* the element of that name behind the one it is meant for.
PopBefore(s, name) ==
    LET r == generate_implied_end_tags(s, {name})
    IN  PopUnseen(r, LastNamed(Pop(r), {name}))

close_a_p_element(s) == PopBefore(s, "p")

DefinitionStart(s, t) ==
    LET i      == LastNamed(s, Bounding)
        closed == IF i > 0 /\ s.open[i].name \in {"dd", "dt"}
                  THEN PopBefore(s, s.open[i].name)
                  ELSE s
        no_p   == IF has_element_in_button_scope(closed, "p")
                  THEN close_a_p_element(closed)
                  ELSE closed
    IN  [insert_an_HTML_element(no_p, t.name) EXCEPT !.frameset_ok = FALSE]

ButtonStart(D, s, t) ==
    IF has_element_in_scope(s, {"button"})
    THEN Again(act_as_if_an_end_tag_token_had_been_seen(D, s, "button"))
    ELSE [insert_an_HTML_element(reconstruct_the_active_formatting_elements(s), t.name)
             EXCEPT !.frameset_ok = FALSE]

AnchorStart(D, s, t) ==
    LET named  == {i \in SinceMarker(s) : s.formatting[i].name = "a"}
        a      == s.formatting[CHOOSE i \in named : \A j \in named : j <= i]
        ended  == act_as_if_an_end_tag_token_had_been_seen(D, s, "a")
        closed == IF named = {} THEN s
                  ELSE remove_node_from_the_stack_of_open_elements(
                           remove_node_from_the_list_of_active_formatting_elements(ended, a), a)
    IN  InsertFormatting(reconstruct_the_active_formatting_elements(closed), t.name)

FormattingStart(D, s, t) ==
    LET r == reconstruct_the_active_formatting_elements(s)
        closed == IF t.name = "nobr" /\ has_element_in_scope(r, {"nobr"})
                  THEN reconstruct_the_active_formatting_elements(
                           act_as_if_an_end_tag_token_had_been_seen(D, r, "nobr"))
                  ELSE r
    IN  InsertFormatting(closed, t.name)

EmbeddedStart(s, t) ==
    [Marked(insert_an_HTML_element(reconstruct_the_active_formatting_elements(s), t.name))
        EXCEPT !.frameset_ok = FALSE]

TableStart(D, s, t) ==
    switch_the_insertion_mode(
        [insert_an_HTML_element(IF s.quirks THEN s ELSE CloseP(D, s), t.name)
            EXCEPT !.frameset_ok = FALSE],
        "in_table")

\* An input tag is one without a type: another type leaves frameset_ok alone, which
\* decides nothing else here.
VoidStart(s, t) ==
    IF t.name \in {"menuitem", "param", "source", "track"}
    THEN InsertAndPop(s, t.name)
    ELSE [InsertAndPop(reconstruct_the_active_formatting_elements(s), t.name)
             EXCEPT !.frameset_ok = FALSE]

ImageStart(D, s, t) == D[s][[t EXCEPT !.name = "img"]]

IsIndexStart(D, s) ==
    IF s.form # NoElement
    THEN Ignored(s)
    ELSE LET Start(r, name) == act_as_if_a_start_tag_token_had_been_seen(D, r, name)
             End(r, name)   == act_as_if_an_end_tag_token_had_been_seen(D, r, name)
             labelled == End(Start(Start(Start(s, "form"), "hr"), "label"), "label")
         IN  End(Start(labelled, "hr"), "form")

TextStart(D, s, t) ==
    LET r == [s EXCEPT !.frameset_ok = FALSE]
    IN  CASE t.name = "textarea" ->
                [generic_element_parsing_algorithm(r, t.name, "RCDATA")
                    EXCEPT !.ignore_line_feed = TRUE]
          [] t.name = "xmp"      ->
                generic_element_parsing_algorithm(
                    reconstruct_the_active_formatting_elements(
                        [CloseP(D, s) EXCEPT !.frameset_ok = FALSE]), t.name, "RAWTEXT")
          [] t.name = "iframe"   -> generic_element_parsing_algorithm(r, t.name, "RAWTEXT")
          [] t.name = "noembed"  -> generic_element_parsing_algorithm(s, t.name, "RAWTEXT")

SelectStart(s, t) ==
    LET r == insert_an_HTML_element(reconstruct_the_active_formatting_elements(s), t.name)
        tabular == {"in_table", "in_caption", "in_table_body", "in_row", "in_cell"}
    IN  switch_the_insertion_mode([r EXCEPT !.frameset_ok = FALSE],
            IF r.mode \in tabular THEN "in_select_in_table" ELSE "in_select")

OptionStart(D, s, t) ==
    LET closed == IF CurrentIs(s, {"option"})
                  THEN act_as_if_an_end_tag_token_had_been_seen(D, s, "option")
                  ELSE s
    IN  insert_an_HTML_element(reconstruct_the_active_formatting_elements(closed), t.name)

RubyStart(s, t) ==
    insert_an_HTML_element(
        IF has_element_in_scope(s, {"ruby"}) THEN generate_implied_end_tags(s, {}) ELSE s,
        t.name)

\* The foreign element is not inserted, yet a self-closing tag pops what is open.
ForeignStart(s, t) ==
    LET r == reconstruct_the_active_formatting_elements(s)
    IN  IF ~t.self THEN r
        ELSE IF CurrentIs(r, Resetting) THEN Fail(Pop(r), "astray") ELSE Pop(r)

OtherStart(D, s, t) ==
    CASE t.name \in {"optgroup", "option"} -> OptionStart(D, s, t)
      [] t.name \in {"rp", "rt"}           -> RubyStart(s, t)
      [] t.name \in {"math", "svg"}        -> ForeignStart(s, t)
      [] t.name \in Columns \cup Sections \cup Cells \cup {"frame", "head", "tr"} -> Ignored(s)
      [] OTHER -> insert_an_HTML_element(reconstruct_the_active_formatting_elements(s), t.name)

InBodyStart(D, s, t) ==
    CASE t.name \in HeadContent \cup {"html", "body", "frameset"} -> StructureStart(D, s, t)
      [] t.name \in Blocks \cup Headings \cup {"p", "pre", "listing", "plaintext", "hr"} ->
            BlockStart(D, s, t)
      [] t.name = "form"                            -> FormStart(D, s, t)
      [] t.name = "li"                              -> ItemStart(D, s, t)
      [] t.name \in {"dd", "dt"}                    -> DefinitionStart(s, t)
      [] t.name = "button"                          -> ButtonStart(D, s, t)
      [] t.name = "a"                               -> AnchorStart(D, s, t)
      [] t.name \in FormattingNames \cup {"nobr"}   -> FormattingStart(D, s, t)
      [] t.name \in Embedded                        -> EmbeddedStart(s, t)
      [] t.name = "table"                           -> TableStart(D, s, t)
      [] t.name \in {"area", "br", "embed", "img", "keygen", "wbr", "input", "menuitem",
                     "param", "source", "track"}    -> VoidStart(s, t)
      [] t.name = "image"                           -> ImageStart(D, s, t)
      [] t.name = "isindex"                         -> IsIndexStart(D, s)
      [] t.name \in {"textarea", "xmp", "iframe", "noembed"} -> TextStart(D, s, t)
      [] t.name = "select"                          -> SelectStart(s, t)
      [] OTHER                                      -> OtherStart(D, s, t)

-----------------------------------------------------------------------------
(* The body: end tags and the rest *)

\* The mode changes also when there is no body in scope, which is only an error noted.
StructureEnd(D, s, t) ==
    IF t.name = "html"
    THEN EndThenAgain(D, s, "body")
    ELSE switch_the_insertion_mode(s, "after_body")

\* Generate the implied end tags, then pop through the first element of the names.
EndThrough(s, names, implied) == PopThrough(generate_implied_end_tags(s, implied), names)

BlockEnd(D, s, t) ==
    CASE t.name \in Blocks \cup {"button", "listing", "pre"} ->
            IF has_element_in_scope(s, {t.name})
            THEN EndThrough(s, {t.name}, {})
            ELSE Ignored(s)
      [] t.name \in {"dd", "dt"} ->
            IF has_element_in_scope(s, {t.name})
            THEN EndThrough(s, {t.name}, {t.name})
            ELSE Ignored(s)
      [] t.name = "li" ->
            IF has_element_in_specific_scope(s, {"li"}, ListItemScope)
            THEN EndThrough(s, {"li"}, {"li"})
            ELSE Ignored(s)
      [] t.name \in Headings ->
            IF has_element_in_scope(s, Headings)
            THEN EndThrough(s, Headings, {})
            ELSE Ignored(s)
      [] t.name = "p" ->
            IF has_element_in_button_scope(s, "p")
            THEN EndThrough(s, {"p"}, {"p"})
            ELSE Again(act_as_if_a_start_tag_token_had_been_seen(D, s, "p"))
      [] t.name \in Embedded ->
            IF has_element_in_scope(s, {t.name})
            THEN clear_the_list_of_active_formatting_elements_up_to_the_last_marker(
                     EndThrough(s, {t.name}, {}))
            ELSE Ignored(s)

\* The scope is asked for a form, not for the one that is ended.
FormEnd(s) ==
    LET r == [s EXCEPT !.form = NoElement]
    IN  IF s.form = NoElement \/ ~has_element_in_scope(s, {"form"})
        THEN Ignored(r)
        ELSE remove_node_from_the_stack_of_open_elements(
                 generate_implied_end_tags(r, {}), s.form)

InBodyEnd(D, s, t) ==
    CASE t.name \in {"body", "html"} -> StructureEnd(D, s, t)
      [] t.name = "form" -> FormEnd(s)
      [] t.name \in Blocks \cup Headings \cup Embedded
            \cup {"button", "listing", "pre", "p", "li", "dd", "dt"} -> BlockEnd(D, s, t)
      [] t.name \in FormattingNames \cup {"a", "nobr"} -> adoption_agency_algorithm(s, t)
      [] t.name = "br" -> Ignored(act_as_if_a_start_tag_token_had_been_seen(D, s, "br"))
      [] OTHER -> any_other_end_tag_in_body(s, t)

in_body(D, s, t) ==
    CASE IsNull(t) \/ t.type = "doctype" -> Ignored(s)
      [] IsSpace(t)            -> Write(reconstruct_the_active_formatting_elements(s))
      [] t.type = "character"  ->
            [Write(reconstruct_the_active_formatting_elements(s)) EXCEPT !.frameset_ok = FALSE]
      [] t.type = "comment"    -> Write(s)
      [] t.type = "start"      -> InBodyStart(D, s, t)
      [] t.type = "end"        -> InBodyEnd(D, s, t)
      [] t.type = "eof"        -> stop_parsing(s)

TextEndsAtEof(s, t) ==
    CASE t.type = "character" -> Write(s)
      [] t.type \in {"end", "eof"} -> switch_the_insertion_mode(Pop(s), s.original)
      [] OTHER                -> s

text(s, t) ==
    CASE t.type = "character" -> Write(s)
      [] t.type = "eof"       -> Again(switch_the_insertion_mode(Pop(s), s.original))
      [] t.type = "end"       -> switch_the_insertion_mode(Pop(s), s.original)
      [] OTHER                -> s

-----------------------------------------------------------------------------
(* Tables *)

TableParts == {"table", "tr"} \cup Sections

\* Foster parenting is not implemented: the token is dropped.
in_table_insertion_mode_anything_else(s) == s

in_table(D, s, t) ==
    LET cleared == PopTo(s, {"table", "html"})
        Enter(r, mode) == switch_the_insertion_mode(insert_an_HTML_element(r, t.name), mode)
    IN  CASE t.type = "character" /\ CurrentIs(s, TableParts) ->
                Again(switch_the_insertion_mode([s EXCEPT !.pending = {}], "in_table_text"))
          [] t.type = "comment"           -> Write(s)
          [] t.type = "doctype"           -> Ignored(s)
          [] IsStart(t, {"caption"})      -> Enter(Marked(cleared), "in_caption")
          [] IsStart(t, {"colgroup"})     -> Enter(cleared, "in_column_group")
          [] IsStart(t, {"col"})          ->
                Again(act_as_if_a_start_tag_token_had_been_seen(D, s, "colgroup"))
          [] IsStart(t, Sections)         -> Enter(cleared, "in_table_body")
          [] IsStart(t, Cells \cup {"tr"}) ->
                Again(act_as_if_a_start_tag_token_had_been_seen(D, s, "tbody"))
          [] IsStart(t, {"table"})        -> EndThenAgain(D, s, "table")
          [] IsStart(t, {"style", "script"}) -> OnBehalf(in_head(D, s, t))
          [] IsStart(t, {"input"})        -> InsertAndPop(s, t.name)
          [] IsStart(t, {"form"})         ->
                IF s.form # NoElement THEN Ignored(s)
                ELSE LET r == insert_an_HTML_element(s, t.name)
                     IN  Pop([r EXCEPT !.form = Last(r.open)])
          [] IsEnd(t, {"table"})          ->
                IF has_element_in_table_scope(s, {"table"})
                THEN reset_the_insertion_mode_appropriately(PopThrough(s, {"table"}))
                ELSE Ignored(s)
          [] IsEnd(t, {"body", "html", "tr"} \cup Columns \cup Sections \cup Cells) ->
                Ignored(s)
          [] t.type = "eof"               -> stop_parsing(s)
          [] OTHER                        -> in_table_insertion_mode_anything_else(s)

\* The characters gathered, or what became of each, change no state of their own.
in_table_text(s, t) ==
    CASE IsNull(t)              -> Ignored(s)
      [] t.type = "character" /\ ~IsNull(t) -> [s EXCEPT !.pending = @ \cup {t.name}]
      [] OTHER                  ->
            Again(switch_the_insertion_mode(
                IF s.pending \subseteq {"space", "line feed"} /\ s.pending # {}
                THEN Write(s)
                ELSE in_table_insertion_mode_anything_else(s), s.original))

in_caption(D, s, t) ==
    CASE IsEnd(t, {"caption"}) ->
            IF has_element_in_table_scope(s, {"caption"})
            THEN switch_the_insertion_mode(
                     clear_the_list_of_active_formatting_elements_up_to_the_last_marker(
                         EndThrough(s, {"caption"}, {})), "in_table")
            ELSE Ignored(s)
      [] \/ IsEnd(t, {"table"})
         \/ IsStart(t, {"tr"} \cup Columns \cup Sections \cup Cells) ->
            EndThenAgain(D, s, "caption")
      [] IsEnd(t, {"body", "col", "colgroup", "html", "tr"} \cup Sections \cup Cells) ->
            Ignored(s)
      [] OTHER -> OnBehalf(in_body(D, s, t))

\* Every end tag but these two is dropped without closing the column group.
in_column_group(D, s, t) ==
    LET front == s.open # <<>> /\ Len(s.open) = 1
    IN  CASE IsSpace(t) \/ t.type = "comment" -> Write(s)
          [] t.type = "doctype"          -> Ignored(s)
          [] IsStart(t, {"html"})        -> HtmlStartTagInBody(s)
          [] IsStart(t, {"col"})         -> InsertAndPop(s, t.name)
          [] IsEnd(t, {"colgroup"})      ->
                IF front THEN Ignored(s) ELSE switch_the_insertion_mode(Pop(s), "in_table")
          [] IsEnd(t, {"col"})           -> Ignored(s)
          [] t.type = "end"              -> s
          [] t.type = "eof" /\ front     -> stop_parsing(s)
          [] OTHER                       -> EndThenAgain(D, s, "colgroup")

in_table_body(D, s, t) ==
    LET cleared == PopTo(s, Sections \cup {"html"})
    IN  CASE IsStart(t, {"tr"}) ->
                switch_the_insertion_mode(insert_an_HTML_element(cleared, t.name), "in_row")
          [] IsStart(t, Cells)  -> Again(act_as_if_a_start_tag_token_had_been_seen(D, s, "tr"))
          [] IsStart(t, Columns \cup Sections) \/ IsEnd(t, {"table"}) ->
                IF ~has_element_in_table_scope(s, Sections) THEN Ignored(s)
                ELSE IF cleared.open = <<>> THEN cleared
                ELSE Again(act_as_if_an_end_tag_token_had_been_seen(D, cleared,
                               Last(cleared.open).name))
          [] IsEnd(t, Sections) ->
                IF has_element_in_table_scope(s, {t.name})
                THEN switch_the_insertion_mode(Pop(cleared), "in_table")
                ELSE Ignored(s)
          [] IsEnd(t, {"body", "html", "tr"} \cup Columns \cup Cells) -> Ignored(s)
          [] OTHER -> OnBehalf(in_table(D, s, t))

in_row(D, s, t) ==
    LET cleared == PopTo(s, {"tr", "html"})
    IN  CASE IsStart(t, Cells) ->
                Marked(switch_the_insertion_mode(
                    insert_an_HTML_element(cleared, t.name), "in_cell"))
          [] IsStart(t, {"tr"} \cup Columns \cup Sections) \/ IsEnd(t, {"table"}) ->
                EndThenAgain(D, s, "tr")
          [] IsEnd(t, {"tr"}) ->
                IF has_element_in_table_scope(s, {"tr"})
                THEN switch_the_insertion_mode(Pop(cleared), "in_table_body")
                ELSE Ignored(s)
          [] IsEnd(t, Sections) ->
                IF has_element_in_table_scope(s, {t.name})
                THEN Again(act_as_if_an_end_tag_token_had_been_seen(D, s, "tr"))
                ELSE Ignored(s)
          [] IsEnd(t, {"body", "html"} \cup Columns \cup Cells) -> Ignored(s)
          [] OTHER -> OnBehalf(in_table(D, s, t))

close_the_cell(D, s) ==
    IF has_element_in_table_scope(s, {"td"})
    THEN act_as_if_an_end_tag_token_had_been_seen(D, s, "td")
    ELSE IF has_element_in_table_scope(s, {"th"})
    THEN act_as_if_an_end_tag_token_had_been_seen(D, s, "th")
    ELSE s

in_cell(D, s, t) ==
    CASE IsStart(t, {"tr"} \cup Columns \cup Sections \cup Cells) ->
            IF has_element_in_table_scope(s, {"td"}) \/ has_element_in_table_scope(s, {"th"})
            THEN Again(close_the_cell(D, s))
            ELSE Ignored(s)
      [] IsEnd(t, Cells) ->
            IF has_element_in_table_scope(s, {t.name})
            THEN switch_the_insertion_mode(
                     clear_the_list_of_active_formatting_elements_up_to_the_last_marker(
                         EndThrough(s, {t.name}, {})), "in_row")
            ELSE Ignored(s)
      [] IsEnd(t, {"body", "html"} \cup Columns) -> Ignored(s)
      [] IsEnd(t, TableParts) ->
            IF has_element_in_table_scope(s, {t.name})
            THEN Again(close_the_cell(D, s))
            ELSE Ignored(s)
      [] OTHER -> OnBehalf(in_body(D, s, t))

-----------------------------------------------------------------------------
(* Selects, frames and what follows the body *)

in_select(D, s, t) ==
    LET no_option == IF CurrentIs(s, {"option"})
                     THEN act_as_if_an_end_tag_token_had_been_seen(D, s, "option")
                     ELSE s
        before == Len(s.open) - 1
    IN  CASE IsNull(t) \/ t.type = "doctype"          -> Ignored(s)
          [] t.type \in {"character", "comment"}      -> Write(s)
          [] IsStart(t, {"html"})                     -> HtmlStartTagInBody(s)
          [] IsStart(t, {"option"})                   -> insert_an_HTML_element(no_option, t.name)
          [] IsStart(t, {"optgroup"})                 ->
                insert_an_HTML_element(
                    IF CurrentIs(no_option, {"optgroup"})
                    THEN act_as_if_an_end_tag_token_had_been_seen(D, no_option, "optgroup")
                    ELSE no_option, t.name)
          [] IsStart(t, {"select"})                   ->
                act_as_if_an_end_tag_token_had_been_seen(D, s, "select")
          [] IsStart(t, {"input", "keygen", "textarea"}) ->
                IF has_element_in_select_scope(s, "select")
                THEN Again(act_as_if_an_end_tag_token_had_been_seen(D, s, "select"))
                ELSE Ignored(s)
          [] IsStart(t, {"script"})                   -> OnBehalf(in_head(D, s, t))
          [] IsEnd(t, {"optgroup"})                   ->
                LET closed == IF before >= 1 /\ s.open[before].name = "optgroup"
                              THEN no_option ELSE s
                IN  IF CurrentIs(closed, {"optgroup"}) THEN Pop(closed) ELSE Ignored(closed)
          [] IsEnd(t, {"option"})                     ->
                IF CurrentIs(s, {"option"}) THEN Pop(s) ELSE Ignored(s)
          [] IsEnd(t, {"select"})                     ->
                IF has_element_in_select_scope(s, "select")
                THEN reset_the_insertion_mode_appropriately(PopThrough(s, {"select"}))
                ELSE Ignored(s)
          [] t.type = "end"                           -> s
          [] t.type = "eof"                           -> stop_parsing(s)
          [] OTHER                                    -> Ignored(s)

in_select_in_table(D, s, t) ==
    LET tabular == {"caption"} \cup TableParts \cup Cells
    IN  CASE \/ IsStart(t, tabular)
             \/ IsEnd(t, tabular) /\ has_element_in_table_scope(s, {t.name}) ->
                Again(act_as_if_an_end_tag_token_had_been_seen(D, s, "select"))
          [] IsEnd(t, tabular) -> Ignored(s)
          [] OTHER             -> OnBehalf(in_select(D, s, t))

\* An end tag other than html is dropped without going back to the body.
after_body(D, s, t) ==
    CASE IsSpace(t)            -> OnBehalf(in_body(D, s, t))
      [] t.type = "comment"    -> Write(s)
      [] t.type = "doctype"    -> Ignored(s)
      [] IsStart(t, {"html"})  -> HtmlStartTagInBody(s)
      [] IsEnd(t, {"html"})    -> switch_the_insertion_mode(s, "after_after_body")
      [] t.type = "end"        -> s
      [] t.type = "eof"        -> stop_parsing(s)
      [] OTHER                 -> Again(switch_the_insertion_mode(s, "in_body"))

in_frameset(D, s, t) ==
    CASE IsSpace(t) \/ t.type = "comment" -> Write(s)
      [] t.type = "doctype"          -> Ignored(s)
      [] IsStart(t, {"html"})        -> HtmlStartTagInBody(s)
      [] IsStart(t, {"frameset"})    -> insert_an_HTML_element(s, t.name)
      [] IsStart(t, {"frame"})       -> InsertAndPop(s, t.name)
      [] IsStart(t, {"noframes"})    -> OnBehalf(in_head(D, s, t))
      [] IsEnd(t, {"frameset"})      ->
            LET r == IF Len(s.open) = 1 THEN Ignored(s) ELSE Pop(s)
            IN  IF CurrentIs(r, {"frameset"}) THEN r
                ELSE switch_the_insertion_mode(r, "after_frameset")
      [] t.type = "end"              -> s
      [] t.type = "eof"              -> stop_parsing(s)
      [] OTHER                       -> Ignored(s)

after_frameset(D, s, t) ==
    CASE IsSpace(t) \/ t.type = "comment" -> Write(s)
      [] t.type = "doctype"          -> Ignored(s)
      [] IsStart(t, {"html"})        -> HtmlStartTagInBody(s)
      [] IsStart(t, {"noframes"})    -> OnBehalf(in_head(D, s, t))
      [] IsEnd(t, {"html"})          -> switch_the_insertion_mode(s, "after_after_frameset")
      [] t.type = "end"              -> s
      [] t.type = "eof"              -> stop_parsing(s)
      [] OTHER                       -> Ignored(s)

after_after_body(D, s, t) ==
    CASE t.type = "comment"          -> s
      [] t.type = "doctype" \/ IsSpace(t) \/ IsStart(t, {"html"}) -> OnBehalf(in_body(D, s, t))
      [] t.type = "eof"              -> stop_parsing(s)
      [] OTHER                       -> Again(switch_the_insertion_mode(s, "in_body"))

after_after_frameset(D, s, t) ==
    CASE t.type = "comment"          -> s
      [] t.type = "doctype" \/ IsSpace(t) \/ IsStart(t, {"html"}) -> OnBehalf(in_body(D, s, t))
      [] IsStart(t, {"noframes"})    -> OnBehalf(in_head(D, s, t))
      [] t.type = "eof"              -> stop_parsing(s)
      [] OTHER                       -> Ignored(s)

-----------------------------------------------------------------------------
(* The dispatcher *)

Rules(D, s, t) ==
    CASE s.mode = "initial"              -> initial(s, t)
      [] s.mode = "before_html"          -> before_html(s, t)
      [] s.mode = "before_head"          -> before_head(D, s, t)
      [] s.mode = "in_head"              -> in_head(D, s, t)
      [] s.mode = "in_head_noscript"     -> in_head_noscript(D, s, t)
      [] s.mode = "after_head"           -> after_head(D, s, t)
      [] s.mode = "in_body"              -> in_body(D, s, t)
      [] s.mode = "text"                 -> text(s, t)
      [] s.mode = "in_table"             -> in_table(D, s, t)
      [] s.mode = "in_table_text"        -> in_table_text(s, t)
      [] s.mode = "in_caption"           -> in_caption(D, s, t)
      [] s.mode = "in_column_group"      -> in_column_group(D, s, t)
      [] s.mode = "in_table_body"        -> in_table_body(D, s, t)
      [] s.mode = "in_row"               -> in_row(D, s, t)
      [] s.mode = "in_cell"              -> in_cell(D, s, t)
      [] s.mode = "in_select"            -> in_select(D, s, t)
      [] s.mode = "in_select_in_table"   -> in_select_in_table(D, s, t)
      [] s.mode = "after_body"           -> after_body(D, s, t)
      [] s.mode = "in_frameset"          -> in_frameset(D, s, t)
      [] s.mode = "after_frameset"       -> after_frameset(D, s, t)
      [] s.mode = "after_after_body"     -> after_after_body(D, s, t)
      [] s.mode = "after_after_frameset" -> after_after_frameset(D, s, t)

\* After pre, listing and textarea one line feed is dropped.
apply_the_rules_for(D, s, t) ==
    LET r == [s EXCEPT !.ignored = FALSE, !.reprocess = FALSE, !.ignore_line_feed = FALSE]
    IN  IF s.ignore_line_feed /\ t.type = "character" /\ t.name = "line feed"
        THEN Ignored(r)
        ELSE Rules(D, r, t)

Reprocessed(D, s, t) == IF s.reprocess THEN D[s][t] ELSE s

\* All open elements are HTML elements, foreign ones are never inserted, so the rules
\* for foreign content never apply.
Dispatched(D) ==
    [s \in Trees |-> [t \in Tokens |->
        IF s.failure # "none" THEN s ELSE Reprocessed(D, apply_the_rules_for(D, s, t), t)]]

\* Each dispatch inside another takes room on the thread's stack.
DispatchedWithin[room \in Nat] ==
    IF room = 0
    THEN [s \in Trees |-> [t \in Tokens |-> Fail(s, "overflow")]]
    ELSE Dispatched(DispatchedWithin[room - 1])

tree_construction_dispatcher(s, t) == DispatchedWithin[MaxDispatch][s][t]

Init ==
    /\ vocabulary \in Vocabularies
    /\ tree = [mode |-> "initial", original |-> "initial", open |-> <<>>, formatting |-> <<>>,
               head |-> NoElement, form |-> NoElement, frameset_ok |-> TRUE,
               ignore_line_feed |-> FALSE, pending |-> {}, quirks |-> FALSE,
               content |-> "data", last |-> "none", ended |-> FALSE, stopped |-> FALSE,
               ignored |-> FALSE, reprocess |-> FALSE, failure |-> "none"]

Stream == [content |-> tree.content, last |-> tree.last, ended |-> tree.ended]

Constructed(s, t) ==
    LET given == TS!Given(Stream, TS!Token(t.type, t.name, s.content))
    IN  [s EXCEPT !.ignored = FALSE, !.reprocess = FALSE, !.content = given.content,
                  !.last = given.last, !.ended = given.ended]

\* One token from the tokenizer, which a start tag may switch to another content.
write_element(t) ==
    /\ tree.failure = "none"
    /\ TS!Legal(Stream, t)
    /\ UNCHANGED vocabulary
    /\ tree' = Constructed(tree_construction_dispatcher(tree, t), t)

Room == Len(tree.open) < vocabulary.depth /\ Len(tree.formatting) < MaxFormatting

Start == Room /\ \E name \in vocabulary.start, self \in BOOLEAN :
    /\ self => name \in vocabulary.self_closing
    /\ write_element([type |-> "start", name |-> name, self |-> self])

End == \E name \in vocabulary.end \cup {tree.last} :
    name # "none" /\ write_element(EndTag(name))

Character == Room /\ \E c \in Characters :
    write_element([type |-> "character", name |-> c, self |-> FALSE])

Comment == write_element([type |-> "comment", name |-> "", self |-> FALSE])

Doctype == \E d \in DocTypes : write_element([type |-> "doctype", name |-> d, self |-> FALSE])

EndOfFile == write_element([type |-> "eof", name |-> "", self |-> FALSE])

Next == Start \/ End \/ Character \/ Comment \/ Doctype \/ EndOfFile

Spec == Init /\ [][Next]_vars

-----------------------------------------------------------------------------
(* What must be true between two tokens *)

Running == tree.failure = "none" /\ ~tree.stopped

Mode == IF tree.mode \in {"text", "in_table_text"} THEN tree.original ELSE tree.mode

\* Modes, lists and pointers of the constructor keep their types, and the tokenizer is
\* only asked for contents it has.
TypeOK == tree \in Trees /\ vocabulary \in Vocabularies

\* The handlers pop, look for and use open elements without asking whether there are
\* any, and reprocess tokens without a limit.  Of all this three things do go wrong: the
\* bookmark of the adoption agency algorithm, a start tag of dd or dt that pops to a null
\* node, as the second does in <dl><dt>a<dd>b, and one of dd, dt or a self-closing math or
\* svg that pops an element of the table, select or document it is in.  What a parse error
\* costs is left out: the message takes the names of all open elements, and the process
\* ends when they are too many for it (src/Html.TreeConstruction.cpp:1346).
KnownFailures == tree.failure \in {"none", "bookmark", "passed", "astray"}

\* The html element is opened first, once, and stays open to the end; in the modes of
\* the body the body element is the second, which is where the rules look for it.
Rooted ==
    Running /\ tree.mode \notin {"initial", "before_html"} =>
        /\ tree.open # <<>> /\ tree.open[1].name = "html"
        /\ \A i \in 2 .. Len(tree.open) : tree.open[i].name # "html"
        /\ Mode \in {"in_body", "in_table", "in_caption", "in_column_group", "in_table_body",
                     "in_row", "in_cell", "in_select", "in_select_in_table", "after_body"} =>
               Len(tree.open) >= 2 /\ tree.open[2].name = "body"

\* The rules of each mode switch modes and change the stack apart from each other: the
\* mode is always the one that would be chosen by looking at the stack, which is what
\* reset_the_insertion_mode_appropriately does when a table or a select is closed.
ModeAgrees ==
    LET i == LastNamed(tree, Resetting)
    IN  Running /\ Mode \in {"in_body", "in_table", "in_caption", "in_column_group",
                             "in_table_body", "in_row", "in_cell", "in_select"} =>
            i > 0 /\ ResetMode(tree.open[i].name) = Mode

\* "The stack of open elements cannot have both a td and a th element in table scope at
\* the same time, nor can it have neither when the close the cell algorithm is invoked"
\* (src/Html.TreeConstruction.cpp:414), which any tag of the table does in a cell.
CellNote ==
    Running /\ Mode = "in_cell" =>
        Cardinality({name \in Cells : has_element_in_table_scope(tree, {name})}) = 1

\* The end of the file stops the parsing, from whatever mode it comes in.
EofStops == tree.ended => tree.stopped \/ tree.failure # "none"

\* No more than three like elements with no marker between them, also after the adoption
\* agency has replaced some and reconstruction has opened others again.
NoahsArk ==
    \A i \in DOMAIN tree.formatting :
        Cardinality({j \in i .. Len(tree.formatting) :
            /\ tree.formatting[j].name = tree.formatting[i].name
            /\ \A m \in i .. j : tree.formatting[m] # Marker}) <= 3

\* Every element that put a marker into the list and is still open has one there, so
\* that formatting outside of a cell, a caption or an object never gets inside it and
\* clearing up to the last marker stops at its own.
MarkersCover ==
    Running => Cardinality({i \in DOMAIN tree.formatting : tree.formatting[i] = Marker})
               >= Cardinality({i \in DOMAIN tree.open :
                      tree.open[i].name \in Embedded \cup Cells \cup {"caption"}})

\* A cell, a caption or an object is a context of its own: of two formatting elements
\* that are open, the one listed before a marker is outside of the one listed after it,
\* though they are cloned, moved and opened again on both lists.
ContextsNest ==
    \A i, j \in DOMAIN tree.formatting, p, q \in DOMAIN tree.open :
        /\ \E m \in i + 1 .. j - 1 : tree.formatting[m] = Marker
        /\ tree.open[p] = tree.formatting[i] /\ tree.open[q] = tree.formatting[j]
        => p < q

\* The tokenizer reads something else than markup exactly while the mode is text: the
\* end tag that takes it back and the one that ends the mode are the same.
TextMode == Running => (tree.mode = "text" <=> tree.content \notin {"data", "PLAINTEXT"})

\* src/Html.TreeConstruction.cpp:1006 asks to "let a bookmark note the position of the
\* formatting element in the list of active formatting elements relative to the elements
\* on either side of it in the list": it has such a position wherever it is in the list.
BookmarkNoted == tree.failure # "bookmark"

=============================================================================
