----------------------------- MODULE HttpRequest ----------------------------
(***************************************************************************)
(* src/api/api_server.c, read_http_request and extract_sql_text: one HTTP  *)
(* request is put together from a byte stream that recv delivers in pieces *)
(* of any size, into a buffer of fixed capacity, and the SQL text is taken *)
(* out of its body.                                                        *)
(*                                                                         *)
(* A byte is a string; "x" stands for every byte that nothing looks at,    *)
(* "CTL" for every control character without a name of its own here, and   *)
(* the header name "Content-Length:" and the "u0001" of a \u form are one  *)
(* byte each.                                                              *)
(***************************************************************************)
EXTENDS Text

CONSTANTS Inputs,          \* what clients send: [bytes, sql], sql being what they mean
          NoText,          \* no SQL text
          HeaderLimit,     \* HEADER_LIMIT_BYTES
          MaxBody,         \* max_body_bytes
          MaxChunk,        \* 4096, the most one recv asks for
          MaxMethod,       \* 7, the width of %7s
          SizeModulus      \* 2^w for the width w of size_t

ASSUME HttpAssumption ==
    /\ {HeaderLimit, MaxBody} \subseteq Nat
    /\ {MaxChunk, MaxMethod, SizeModulus} \subseteq Nat \ {0}
    /\ MaxBody < SizeModulus
    /\ \A x \in Inputs : x.bytes \in Seq(STRING)
    /\ NoText \notin STRING \cup Seq(STRING)

Quote == "\""
Backslash == "\\"
Brace == "{"
Digits == <<"1", "2", "3", "4", "5", "6", "7", "8", "9">>
Eol == {"CR", "LF"}
Blank == {"SP", "TAB"}
Space == Eol \cup Blank
Control == Eol \cup {"TAB", "CTL"}

Capacity == HeaderLimit + MaxBody + 1

VARIABLES input,           \* the client's stream and intention
          total,           \* bytes received so far
          headerEnd,       \* length of the header, 0: not found yet
          contentLength,   \* the parsed Content-Length
          pc,              \* where read_http_request is, or how it ended
          sql              \* the text handed to the engine

vars == <<input, total, headerEnd, contentLength, pc, sql>>

Received(n) == SubSeq(input.bytes, 1, n)

Init ==
    /\ input \in Inputs
    /\ total = 0
    /\ headerEnd = 0
    /\ contentLength = 0
    /\ pc = "header"
    /\ sql = NoText

-----------------------------------------------------------------------------
(* The header                                                              *)

EndsOf(mark, b) == {i \in Len(mark) .. Len(b) : SubSeq(b, i - Len(mark) + 1, i) = mark}
CrlfEnds(b) == EndsOf(<<"CR", "LF", "CR", "LF">>, b)
LfEnds(b) == EndsOf(<<"LF", "LF">>, b)

(* Mutant: LF LF is looked for before CR LF CR LF.                         *)
FindHeaderEndLf(b) == First(LfEnds(b), First(CrlfEnds(b), 0))

(* find_header_end: the first CR LF CR LF, else the first LF LF, else 0.   *)
FindHeaderEnd(b) == First(CrlfEnds(b), First(LfEnds(b), 0))

(* sscanf finds a method and a path: two words, on any line, or one word   *)
(* that is too long for a method.                                          *)
Words(b) == {i \in DOMAIN b : b[i] \notin Space /\ (i = 1 \/ b[i - 1] \in Space)}
RequestLineRead(b) ==
    \/ Cardinality(Words(b)) >= 2
    \/ \E i \in Words(b) : i + MaxMethod <= Len(b)
                           /\ \A j \in i .. i + MaxMethod : b[j] \notin Space

LineEnd(h, i) == Find(h, i, Eol)

(* The lines "Content-Length:..." with something after the colon.          *)
LengthLines(h) ==
    {i \in DOMAIN h :
        /\ h[i] = "Content-Length:"
        /\ i = 1 \/ h[i - 1] \in Eol
        /\ LineEnd(h, i) > i + 1}

(* The value of the line at i, without blanks around it.                   *)
LengthValue(h, i) == Trim(SubSeq(h, i + 1, LineEnd(h, i) - 1), Blank)

DigitValue(d) == First({v \in DOMAIN Digits : Digits[v] = d}, 0)
IsNumber(v) == v # <<>> /\ \A j \in DOMAIN v : v[j] = "0" \/ v[j] \in ToSet(Digits)
NumberOf(v) ==
    LET parsed[i \in 0 .. Len(v)] ==
          IF i = 0 THEN 0 ELSE parsed[i - 1] * 10 + DigitValue(v[i])
    IN  parsed[Len(v)]

(* parse_content_length: the first such line counts, none means zero.      *)
(* "parsed" is a size_t.                                                   *)
LengthValid(h) == LengthLines(h) = {} \/ IsNumber(LengthValue(h, Min(LengthLines(h))))
DeclaredLength(h) == IF LengthLines(h) = {} THEN 0 ELSE NumberOf(LengthValue(h, Min(LengthLines(h))))
ParseContentLength(h) == DeclaredLength(h) % SizeModulus

(* The buffer is full and no header was found.                             *)
HeaderTooLarge ==
    /\ pc = "header"
    /\ total + 1 >= Capacity \/ total >= HeaderLimit + MaxBody
    /\ pc' = "refused"
    /\ UNCHANGED <<input, total, headerEnd, contentLength, sql>>

(* Mutant: no room is kept for the terminating zero.                       *)
HeaderChunkFull(n) == n <= Min({MaxChunk, Capacity - total})

(* recv is asked for at most this many bytes.                              *)
HeaderChunk(n) == n <= Min({MaxChunk, Capacity - total - 1})

RecvHeader(n) ==
    /\ pc = "header"
    /\ total + 1 < Capacity
    /\ total < HeaderLimit + MaxBody
    /\ n \in 1 .. Len(input.bytes) - total
    /\ HeaderChunk(n)
    /\ total' = total + n
    /\ headerEnd' = FindHeaderEnd(Received(total'))
    /\ pc' = IF headerEnd' = 0 THEN "header" ELSE "parse"
    /\ UNCHANGED <<input, contentLength, sql>>

(* What is asked of a header before its body is read.                      *)
Acceptable(h) == LengthValid(h) /\ ParseContentLength(h) <= MaxBody

ParseHeader ==
    /\ pc = "parse"
    /\ LET h == Received(headerEnd)
       IN  IF RequestLineRead(Received(total)) /\ Acceptable(h)
           THEN /\ contentLength' = ParseContentLength(h)
                /\ pc' = "body"
           ELSE /\ pc' = "refused"
                /\ UNCHANGED contentLength
    /\ UNCHANGED <<input, total, headerEnd, sql>>

-----------------------------------------------------------------------------
(* The body                                                                *)

(* Bytes behind the end of the buffer: nothing is known from there on.     *)
RecvBody(n) ==
    /\ pc = "body"
    /\ n \in 1 .. Len(input.bytes) - total
    /\ n <= Min({MaxChunk, headerEnd + contentLength - total})
    /\ total' = total + n
    /\ pc' = IF total' > Capacity THEN "undefined" ELSE "body"
    /\ UNCHANGED <<input, headerEnd, contentLength, sql>>

(* recv returns 0: the client has closed its side.                         *)
RecvEnds ==
    /\ \/ pc = "header"
       \/ pc = "body" /\ total < headerEnd + contentLength
    /\ total = Len(input.bytes)
    /\ pc' = "refused"
    /\ UNCHANGED <<input, total, headerEnd, contentLength, sql>>

(* recv reports an error, or memory for the copy of the body is missing.   *)
ReadAborted ==
    /\ pc \in {"header", "body"}
    /\ pc' = "aborted"
    /\ UNCHANGED <<input, total, headerEnd, contentLength, sql>>

-----------------------------------------------------------------------------
(* extract_sql_text                                                        *)

(* Where the string value of the key "sql" at i begins, 0 if there is none.*)
ValueStart(b, i) ==
    LET colon == Skip(b, i + 5, Space)
        quote == Skip(b, colon + 1, Space)
    IN  IF Holds(b, colon, ":") /\ Holds(b, quote, Quote) THEN quote + 1 ELSE 0

SqlKey == <<Quote, "s", "q", "l", Quote>>
SqlKeys(b) == {i \in 1 .. Len(b) - 5 : SubSeq(b, i, i + 4) = SqlKey /\ ValueStart(b, i) # 0}

(* Mutant: escapes are copied as they stand.                               *)
UnescapedVerbatim(c) == c

(* What \c stands for.                                                     *)
Unescaped(c) ==
    CASE c = "n" -> "LF"
      [] c = "r" -> "CR"
      [] c = "t" -> "TAB"
      [] OTHER -> c

(* A character and what the rest of the string gives.                      *)
Joined(char, rest) == IF rest = NoText THEN NoText ELSE <<char>> \o rest

(* The loop over a string value from i to its closing quote; a string that *)
(* is not closed has no value.                                             *)
StringFrom(b, i) ==
    LET scan[j \in 1 .. Len(b) + 1] ==
          IF j > Len(b) THEN NoText
          ELSE IF b[j] = Quote THEN <<>>
          ELSE IF b[j] = Backslash /\ j < Len(b) THEN Joined(Unescaped(b[j + 1]), scan[j + 2])
          ELSE Joined(b[j], scan[j + 1])
    IN  scan[i]

ExtractJson(b) ==
    IF SqlKeys(b) = {} THEN NoText ELSE StringFrom(b, ValueStart(b, Min(SqlKeys(b))))

ExtractSqlText(b) ==
    IF Holds(b, Skip(b, 1, Space), Brace) THEN ExtractJson(b) ELSE Trim(b, Space)

(* The body is complete: it is copied and the SQL text taken out of it.    *)
Finish ==
    /\ pc = "body"
    /\ total >= headerEnd + contentLength
    /\ sql' = ExtractSqlText(SubSeq(input.bytes, headerEnd + 1, headerEnd + contentLength))
    /\ pc' = "done"
    /\ UNCHANGED <<input, total, headerEnd, contentLength>>

Ended == pc \in {"done", "refused", "aborted", "undefined"}
Rest == Ended /\ UNCHANGED vars

Next ==
    \/ HeaderTooLarge
    \/ \E n \in 1 .. MaxChunk : RecvHeader(n) \/ RecvBody(n)
    \/ ParseHeader
    \/ RecvEnds
    \/ ReadAborted
    \/ Finish
    \/ Rest

Spec == Init /\ [][Next]_vars

-----------------------------------------------------------------------------
(* What a client means by a body                                           *)

(* JSON: what the character behind a backslash stands for.                 *)
Escapes == {Quote, Backslash, "/", "n", "r", "t", "b", "f", "u0001"}
Meaning(c) ==
    CASE c \in {Quote, Backslash, "/"} -> c
      [] c = "n" -> "LF"
      [] c = "r" -> "CR"
      [] c = "t" -> "TAB"
      [] c \in {"b", "f", "u0001"} -> "CTL"
      [] OTHER -> NoText

(* What a JSON reader that knows these escapes takes from the characters   *)
(* between the quotes of a string; NoText is in it where it knows nothing  *)
(* to read.                                                                *)
Read(raw, escapes) ==
    LET from[i \in 1 .. Len(raw) + 1] ==
          IF i > Len(raw) THEN <<>>
          ELSE IF raw[i] \in {Quote} \cup Control \/ (i = Len(raw) /\ raw[i] = Backslash)
               THEN <<NoText>>
          ELSE IF raw[i] = Backslash
               THEN <<IF raw[i + 1] \in escapes THEN Meaning(raw[i + 1]) ELSE NoText>> \o from[i + 2]
          ELSE <<raw[i]>> \o from[i + 1]
    IN  from[1]

(* From i on the first character that is not a space is c, at j.           *)
NextIs(b, i, j, c) ==
    j \in i .. Len(b) /\ b[j] = c /\ \A m \in i .. j - 1 : b[m] \in Space

(* At k is a key "sql", and behind the quote at q its value, a string.     *)
FieldAt(b, k, q) ==
    /\ SubSeq(b, k, k + 4) = SqlKey
    /\ \E colon \in DOMAIN b : NextIs(b, k + 5, colon, ":") /\ NextIs(b, colon + 1, q, Quote)

(* A JSON object: text is the value of the first such field.               *)
JsonMeans(b, text, escapes) ==
    /\ \E i \in DOMAIN b : NextIs(b, 1, i, Brace)
    /\ \E k \in 1 .. Len(b) - 5, q \in DOMAIN b :
          /\ FieldAt(b, k, q)
          /\ \A j \in 1 .. k - 1 : \A p \in DOMAIN b : ~FieldAt(b, j, p)
          /\ \E z \in q + 1 .. Len(b) :
                b[z] = Quote /\ Read(SubSeq(b, q + 1, z - 1), escapes) = text

(* Plain text, with spaces around it.                                      *)
PlainMeans(b, text) ==
    \E i, j \in DOMAIN b :
        /\ i <= j /\ text = SubSeq(b, i, j)
        /\ b[i] \notin Space \cup {Brace} /\ b[j] \notin Space
        /\ \A m \in DOMAIN b : m < i \/ m > j => b[m] \in Space

Means(b, text, escapes) ==
    text \in Seq(STRING) /\ (JsonMeans(b, text, escapes) \/ PlainMeans(b, text))

(* The body that Content-Length announces.                                 *)
BodyOf(bytes) ==
    LET end == First(CrlfEnds(bytes) \cup LfEnds(bytes), 0)
    IN  SubSeq(bytes, end + 1, end + DeclaredLength(SubSeq(bytes, 1, end)))

ASSUME MeaningAssumption ==
    \A x \in Inputs : x.sql # NoText => Means(BodyOf(x.bytes), x.sql, Escapes)

-----------------------------------------------------------------------------
(* Properties                                                              *)

(* What the whole stream says, however it is cut: its header ends at the   *)
(* first blank line, and the body is as long as declared.                  *)
WholeEnd == First(CrlfEnds(input.bytes) \cup LfEnds(input.bytes), 0)

WholeRequest ==
    LET h == Received(WholeEnd)
    IN  /\ WholeEnd \in 1 .. Capacity - 1
        /\ RequestLineRead(input.bytes)
        /\ LengthValid(h)
        /\ DeclaredLength(h) <= MaxBody
        /\ WholeEnd + DeclaredLength(h) <= Len(input.bytes)

(* Streams whose meaning does not depend on what comes after the header:   *)
(* the request line holds method and path, a header that ends in LF LF has *)
(* no CR LF CR LF behind it, the header is within its limit and the length *)
(* fits a size_t.                                                          *)
Regular ==
    /\ Cardinality(Words(Received(LineEnd(input.bytes, 1) - 1))) >= 2
    /\ LfEnds(input.bytes) # {} /\ CrlfEnds(input.bytes) # {} =>
          Min(CrlfEnds(input.bytes)) < Min(LfEnds(input.bytes))
    /\ WholeEnd <= HeaderLimit
    /\ DeclaredLength(Received(WholeEnd)) < SizeModulus

(* However recv cuts the stream, a request is read exactly when the stream *)
(* holds one, and the SQL text is taken from the body that Content-Length  *)
(* announces (api_server.c 311-313: TCP is a byte stream, one recv need    *)
(* not bring a whole request).                                             *)
ChunkingIrrelevant ==
    Regular =>
        /\ pc = "done" => /\ WholeRequest
                          /\ headerEnd = WholeEnd
                          /\ contentLength = DeclaredLength(Received(WholeEnd))
                          /\ sql = ExtractSqlText(SubSeq(input.bytes, WholeEnd + 1,
                                                         WholeEnd + contentLength))
        /\ pc = "refused" => ~WholeRequest

(* No byte, and no terminating zero, is written behind the buffer, for     *)
(* every header within HEADER_LIMIT_BYTES (api_server.c 321, 361, 391).    *)
BufferHolds ==
    /\ pc \in {"header", "parse"} => total + 1 <= Capacity
    /\ headerEnd <= HeaderLimit => total <= Capacity /\ pc # "undefined"

(* The engine is given the SQL text the client meant, as plain text or in  *)
(* a JSON field that spells it with any of the escapes the loop at         *)
(* api_server.c 473-498 reads as JSON does: \" \\ \/ \n \r \t.  It reads    *)
(* \b, \f and \u otherwise, as the letter and what follows it.             *)
Understood == Escapes \ {"b", "f", "u0001"}
SqlTextSurvives ==
    pc = "done" /\ Regular /\ Means(BodyOf(input.bytes), input.sql, Understood) =>
        sql = input.sql

-----------------------------------------------------------------------------
(* The inductive invariant behind the first two                            *)

(* The counters and the buffer: only a header found beyond the limit lets  *)
(* the body run behind the end.                                            *)
BufferState ==
    /\ input \in Inputs
    /\ total \in 0 .. Len(input.bytes)
    /\ headerEnd \in 0 .. total
    /\ contentLength \in 0 .. MaxBody
    /\ pc \in {"header", "parse", "body", "done", "refused", "aborted", "undefined"}
    /\ pc \in {"header", "parse"} => total + 1 <= Capacity
    /\ total < Capacity \/ total <= headerEnd + contentLength
    /\ pc = "undefined" => total > Capacity

HeaderEnds(b) == CrlfEnds(b) \cup LfEnds(b)

(* What has been decided, in terms of the whole stream.                    *)
ReadSoFar ==
    /\ pc = "header" => headerEnd = 0 /\ \A i \in HeaderEnds(input.bytes) : i > total
    /\ pc \in {"parse", "body", "done"} => headerEnd \in HeaderEnds(input.bytes)
    /\ Regular /\ headerEnd # 0 => headerEnd = WholeEnd
    /\ pc \in {"body", "done"} =>
          /\ LengthValid(Received(headerEnd))
          /\ contentLength = ParseContentLength(Received(headerEnd))
    /\ pc = "done" =>
          /\ total >= headerEnd + contentLength
          /\ sql = ExtractSqlText(SubSeq(input.bytes, headerEnd + 1, headerEnd + contentLength))
    /\ Regular /\ pc = "refused" => ~WholeRequest

ReadInv == BufferState /\ ReadSoFar
=============================================================================
