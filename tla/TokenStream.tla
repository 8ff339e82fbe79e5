------------------------------ MODULE TokenStream ------------------------------
(* What the tree construction stage is promised about the tokens it is given       *)
(* (Html.Tokenizer.cpp, Tokenizer::Emit).  The tree constructor may answer a start  *)
(* tag by switching the tokenizer to the content of a text element; from then on    *)
(* there is text, up to the end tag of that element.                                *)
EXTENDS Sequences

Contents == {"data", "RCDATA", "RAWTEXT", "script_data", "PLAINTEXT"}

\* A token has a type, a name (of a character, the character) and the content the tree
\* constructor asks for when it is given it.
Token(type, name, content) == [type |-> type, name |-> name, content |-> content]

\* A stream knows the content asked for, the last start tag and whether it has ended.
Start == [content |-> "data", last |-> <<>>, ended |-> FALSE]

Legal(stream, t) ==
    /\ ~stream.ended
    /\ t.type \in {"start", "comment", "doctype"} => stream.content = "data"
    /\ t.type = "end" => \/ stream.content = "data"
                         \/ stream.content # "PLAINTEXT" /\ t.name = stream.last

\* The stream after one more token.
Given(stream, t) ==
    [content |-> CASE t.type = "start" -> t.content
                   [] t.type = "end"   -> "data"
                   [] OTHER            -> stream.content,
     last    |-> IF t.type = "start" THEN t.name ELSE stream.last,
     ended   |-> stream.ended \/ t.type = "eof"]

VARIABLES
    stream, \* what the tokens given so far amount to
    batch   \* the tokens given at a time

Init == stream = Start /\ batch = <<>>

\* A token that is legal after the ones before it.
Give(t) ==
    /\ Legal(stream, t)
    /\ batch' = <<t>>
    /\ stream' = Given(stream, t)

\* Any number of characters, which change nothing.
GiveText ==
    /\ \A i \in DOMAIN batch' : batch'[i].type = "character" /\ Legal(stream, batch'[i])
    /\ UNCHANGED stream

Next == GiveText \/ \E i \in DOMAIN batch' : Give(batch'[i])

Spec == Init /\ [][Next]_<<stream, batch>>

=============================================================================
