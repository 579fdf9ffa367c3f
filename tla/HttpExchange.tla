---------------------------- MODULE HttpExchange ----------------------------
(***************************************************************************)
(* src/api/api_server.c, handle_query: the SQL text of a request goes to   *)
(* the engine, whose CSV text becomes the JSON body of the reply.  The     *)
(* engine is any table it may print (src/storage/database.c, write_header  *)
(* and write_csv_projection), or any error.                                *)
(*                                                                         *)
(* In a reply a JSON string is the characters between its quotes; the      *)
(* braces and commas around the strings are the structure of the record.   *)
(***************************************************************************)
EXTENDS HttpRequest

CONSTANTS Tables,          \* [columns, rows] the engine may print, texts throughout
          Errors           \* texts of error messages

Comma == ","
NameChars == {"x", "y", "_"} \cup ToSet(Digits)

(* What a table can hold: validate_storage_value keeps commas and line     *)
(* ends out of values.                                                     *)
ASSUME ExchangeAssumption ==
    /\ Errors \subseteq Seq(STRING)
    /\ \A t \in Tables :
          /\ t.columns \in Seq(Seq(STRING)) \ { <<>> }
          /\ t.rows \in Seq(Seq(Seq(STRING)))
          /\ \A row \in ToSet(t.rows) :
                /\ Len(row) = Len(t.columns)
                /\ \A v \in ToSet(row) : ToSet(v) \cap (Eol \cup {Comma}) = {}

VARIABLES answer,          \* what the engine answered: kind and value
          reply            \* the reply to the client

exchangeVars == <<input, total, headerEnd, contentLength, pc, sql, answer, reply>>

NoReply == [status |-> 0]
NoAnswer == [kind |-> "none", value |-> NoText]

ExchangeInit ==
    /\ Init
    /\ answer = NoAnswer
    /\ reply = NoReply

-----------------------------------------------------------------------------
(* The CSV text the engine prints                                          *)

CsvLine(fields) ==
    FlattenSeq([i \in DOMAIN fields |-> (IF i = 1 THEN <<>> ELSE <<Comma>>) \o fields[i]])
    \o <<"LF">>

Csv(table) == CsvLine(table.columns) \o FlattenSeq([i \in DOMAIN table.rows |-> CsvLine(table.rows[i])])

-----------------------------------------------------------------------------
(* Its way into JSON                                                       *)

(* Mutant: a backslash is not escaped.                                     *)
EscapedQuoteOnly(c) ==
    CASE c = Quote -> <<Backslash, c>>
      [] c = "LF" -> <<Backslash, "n">>
      [] OTHER -> <<c>>

(* json_escape, one character.                                             *)
Escaped(c) ==
    CASE c \in {Quote, Backslash} -> <<Backslash, c>>
      [] c = "LF" -> <<Backslash, "n">>
      [] c = "CR" -> <<Backslash, "r">>
      [] c = "TAB" -> <<Backslash, "t">>
      [] c = "CTL" -> <<Backslash, "u0001">>
      [] OTHER -> <<c>>

JsonEscape(text) == FlattenSeq([i \in DOMAIN text |-> Escaped(text[i])])

(* The next character goes to the last piece, and c begins another.        *)
Cut(pieces, ch, c) ==
    IF ch = c THEN Append(pieces, <<>>)
    ELSE [pieces EXCEPT ![Len(pieces)] = Append(@, ch)]

(* The pieces of text between the characters c.                            *)
Split(text, c) ==
    LET upTo[i \in 0 .. Len(text)] ==
          IF i = 0 THEN << <<>> >> ELSE Cut(upTo[i - 1], text[i], c)
    IN  upTo[Len(text)]

(* trim_line_length                                                        *)
TrimLine(line) == SubSeq(line, 1, Max({0} \cup {i \in DOMAIN line : line[i] \notin Eol}))

(* is_identifier_csv_header                                                *)
IsIdentifierHeader(line) ==
    /\ ToSet(line) \subseteq NameChars \cup {Comma}
    /\ ToSet(line) \cap NameChars # {}

(* fill_csv_field_refs: exactly n fields, the missing ones empty.          *)
Fields(line, n) ==
    LET pieces == Split(line, Comma)
    IN  [i \in 1 .. n |-> IF i <= Len(pieces) THEN pieces[i] ELSE <<>>]

Strings(line, n) == [i \in 1 .. n |-> JsonEscape(Fields(line, n)[i])]

Lines(csv) ==
    LET pieces == Split(csv, "LF")
    IN  [i \in DOMAIN pieces |-> TrimLine(pieces[i])]

NonEmpty(lines) ==
    FlattenSeq([i \in DOMAIN lines |-> IF lines[i] = <<>> THEN <<>> ELSE <<lines[i]>>])

(* append_table_projection_json: the first line names the columns, every   *)
(* other line that is not empty is a row.                                  *)
Projection(csv) ==
    LET header == Lines(csv)[1]
        n == Len(Split(header, Comma))
        rows == NonEmpty(Tail(Lines(csv)))
    IN  IF ~IsIdentifierHeader(header)
        THEN [columns |-> <<>>, rows |-> <<>>]
        ELSE [columns |-> Strings(header, n),
              rows |-> [r \in DOMAIN rows |-> Strings(rows[r], n)]]

(* format_query_body of a successful statement.                            *)
QueryBody(csv) ==
    [status |-> 200, result |-> JsonEscape(csv),
     columns |-> Projection(csv).columns, rows |-> Projection(csv).rows]

-----------------------------------------------------------------------------
(* handle_query                                                            *)

Asked == pc = "done" /\ reply = NoReply
HasSql == sql \notin {NoText, <<>>}

(* No SQL text in the body, or no memory for a copy of it.                 *)
MissingSql ==
    /\ Asked
    /\ reply' = [status |-> 400, error |-> <<>>]
    /\ UNCHANGED <<vars, answer>>

SelectAnswered(table) ==
    /\ Asked /\ HasSql
    /\ answer' = [kind |-> "table", value |-> table]
    /\ reply' = QueryBody(Csv(table))
    /\ UNCHANGED vars

(* INSERT prints "Inserted 1 row into ...".                                *)
Inserted == <<"x", "SP", "x", "LF">>

InsertAnswered ==
    /\ Asked /\ HasSql
    /\ answer' = [kind |-> "inserted", value |-> Inserted]
    /\ reply' = QueryBody(Inserted)
    /\ UNCHANGED vars

QueryFails(message) ==
    /\ Asked /\ HasSql
    /\ answer' = [kind |-> "error", value |-> message]
    /\ reply' = [status |-> 400, error |-> JsonEscape(message)]
    /\ UNCHANGED vars

(* Memory for the body is missing, whatever the engine answered.           *)
FormatFails ==
    /\ Asked /\ HasSql
    /\ answer' = [kind |-> "lost", value |-> NoText]
    /\ reply' = [status |-> 500]
    /\ UNCHANGED vars

ExchangeNext ==
    \/ Next /\ UNCHANGED <<answer, reply>>
    \/ MissingSql
    \/ \E t \in Tables : SelectAnswered(t)
    \/ InsertAnswered
    \/ \E m \in Errors : QueryFails(m)
    \/ FormatFails

ExchangeSpec == ExchangeInit /\ [][ExchangeNext]_exchangeVars

-----------------------------------------------------------------------------
(* Properties                                                              *)

(* What a JSON reader takes from the strings of a reply.                   *)
ReadBack(raw) == Read(raw, Escapes)
ReadAll(strings) == [i \in DOMAIN strings |-> ReadBack(strings[i])]

(* The projection shows tables with identifiers for column names in which  *)
(* no row is printed as an empty line.                                     *)
Shown(table) ==
    /\ \A name \in ToSet(table.columns) : name # <<>> /\ ToSet(name) \subseteq NameChars
    /\ \A row \in ToSet(table.rows) : row # << <<>> >>

(* A JSON reader finds in the reply the table the engine printed, cell by  *)
(* cell, and the texts of CSV and errors character by character, whatever  *)
(* quotes, backslashes and control characters they hold (api_server.c      *)
(* 528-529: put into a JSON string safely; 744-757: columns and rows).     *)
ReplyCarriesAnswer ==
    /\ answer.kind = "table" =>
          /\ ReadBack(reply.result) = Csv(answer.value)
          /\ Shown(answer.value) =>
                /\ ReadAll(reply.columns) = answer.value.columns
                /\ [r \in DOMAIN reply.rows |-> ReadAll(reply.rows[r])] = answer.value.rows
    /\ answer.kind = "inserted" => ReadBack(reply.result) = Inserted /\ reply.columns = <<>>
    /\ answer.kind = "error" => ReadBack(reply.error) = answer.value
=============================================================================
