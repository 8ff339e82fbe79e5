---------------------------- MODULE MCHtmlTokenizer ----------------------------
(* Documents of a few pieces for HtmlTokenizer: each character that some state looks *)
(* for, and the words that take several of them.                                     *)
EXTENDS HtmlTokenizer, TLC

MCNames == {<<"l", "t">>, <<"l", "t", ";">>}

MCTextOf == <<"t">> :> "RCDATA" @@ <<"s">> :> "RAWTEXT" @@ <<"p">> :> "PLAINTEXT"
            @@ script :> "script_data"

MCDoctypeNamed == <<"<", "!">> \o doctype \o <<" ", "t", " ">>

MCPieces ==
    {<<"<">>, <<"/">>, <<"!">>, <<"-">>, <<">">>, <<" ">>, <<"=">>, <<"&">>, <<"null">>,
     <<"double quote">>, <<"]">>, <<"t">>, <<"s">>, <<"p">>, <<"l", "t">>, <<"#", "x">>,
     <<"cr", "lf">>, <<"?">>,
     script, <<"<", "!">> \o doctype, <<"<", "!">> \o cdata,
     MCDoctypeNamed \o public_keyword, MCDoctypeNamed \o system_keyword, <<"<", "t", ">">>,
     <<"<", "s", ">">>, <<"<", "t", " ", "t", "=">>, <<"<", "/">>,
     <<"single quote">>,
     <<"<">> \o script \o <<">", "<", "!", "-", "-">>}

=============================================================================
