--------------------------- MODULE MCHttpExchange ---------------------------
(* Requests of a small client, well formed and not, and small tables.      *)
EXTENDS HttpExchange

X(n) == [i \in 1 .. n |-> "x"]
Number(n) == LET Digit(d) == IF d = 0 THEN "0" ELSE Digits[d]
             IN  IF n < 10 THEN <<Digit(n)>> ELSE <<Digit(n \div 10), Digit(n % 10)>>

(* A header: request line, a line of padding, the length field as given.   *)
Header(line, eol, field) ==
    line \o eol \o (IF field = <<>> THEN <<>> ELSE field \o eol) \o eol
LengthField(n) == <<"Content-Length:", "SP">> \o Number(n)
Line == <<"x", "SP", "x">>
Crlf == <<"CR", "LF">>
Lf == <<"LF">>

Str(t) == <<Quote>> \o t \o <<Quote>>

(* What may stand between the quotes of a string: characters and escapes,  *)
(* one that JSON does not know among them.                                 *)
Signs == {<<"n">>, <<"x">>, <<"/">>, <<"CTL">>, <<Backslash, "x">>}
         \cup {<<Backslash, e>> : e \in Escapes}
Values == {<<>>} \cup Signs \cup {c \o d : c \in Signs, d \in {<<"n">>, <<Backslash, "n">>, <<Backslash, Quote>>}}
          \cup {<<Backslash, Backslash>> \o d : d \in Signs}
Json(raw) ==
    LET value == Str(raw)
    IN  {<<"{">> \o SqlKey \o <<":">> \o value \o <<"}">>,
         <<"SP", "{">> \o SqlKey \o <<"SP", ":", "SP">> \o value,
         <<"{">> \o Str(<<"x">>) \o <<":">> \o SqlKey \o <<",">> \o SqlKey \o <<":">> \o value}
JsonText(raw) == LET text == Read(raw, Escapes) IN IF NoText \in ToSet(text) THEN NoText ELSE text
Plain(text) == {text, <<"SP">> \o text, text \o <<"LF">>}

Request(body, text, eol, rest) ==
    [bytes |-> Header(Line, eol, LengthField(Len(body))) \o body \o rest, sql |-> text]

JsonInputs == UNION {{Request(b, JsonText(v), Crlf, <<>>) : b \in Json(v)} : v \in Values}
PlainInputs ==
    {Request(b, <<"x", "LF", "x">>, eol, rest) :
        b \in Plain(<<"x", "LF", "x">>), eol \in {Crlf, Lf},
        rest \in {<<>>, X(2), <<"x", "LF", "LF">>}}

(* No JSON string, lengths that are wrong, missing or at the limit, and    *)
(* headers that are too long.                                              *)
OddInputs ==
    {[bytes |-> b, sql |-> NoText] :
        b \in {Header(Line, Crlf, f) \o X(3) : f \in
                  {<<>>, <<"Content-Length:">>, <<"Content-Length:", "SP">>,
                   <<"Content-Length:", "1", "SP", "2">>, <<"Content-Length:", "x">>}
                  \cup {LengthField(n) : n \in {0, 1, 3, 4, 30, 65}}}
         \cup {Header(Line, Crlf, LengthField(n)) \o X(31) : n \in {29, 30, 31}}
         \cup {Header(l, Crlf, <<>>) : l \in {<<>>, <<"x">>, X(3), X(45)}}
         \cup {<<>>, Line, Line \o Crlf}
         \cup {Header(Line, Crlf, X(n) \o Crlf \o LengthField(20)) \o X(20) : n \in {1, 20}}
         \cup {Header(Line, Crlf, LengthField(Len(j))) \o j :
                  j \in {<<"{">> \o SqlKey, <<"{">> \o SqlKey \o <<":", "1">>,
                         <<"{">> \o SqlKey \o <<":", Quote, Backslash>>}}}

(* Answers of the engine.                                                  *)
Cells == {<<>>, <<Quote>>, <<Backslash, "n">>, <<"TAB", "CTL">>}
TablesOf(columns, cells, n) ==
    {[columns |-> columns, rows |-> rows] :
        rows \in UNION {[1 .. k -> [DOMAIN columns -> cells]] : k \in 0 .. n}}
MCTables ==
    TablesOf(<< <<"x">> >>, Cells \cup {<<"x">>}, 2)
    \cup TablesOf(<< <<"x">>, <<"y", "_">> >>, Cells, 1)
    \cup TablesOf(<< <<"x">>, <<"y">>, <<"x", "x">> >>, {<<>>, <<"x">>}, 2)
    \cup TablesOf(<< <<"x", "SP">>, <<"y">> >>, {<<"x">>}, 1)
MCErrors == {<<>>, <<"x", "SP", Quote, "x", Quote>>, <<Backslash, "CTL", "LF", "CR">>}

MCInputs == JsonInputs \cup PlainInputs \cup OddInputs
=============================================================================
