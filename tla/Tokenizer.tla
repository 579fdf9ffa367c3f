------------------------------ MODULE Tokenizer -----------------------------
(***************************************************************************)
(* src/sql/tokenizer.c: a statement's text is cut into tokens.             *)
(*                                                                         *)
(* A character is a member of one of the sets below; every character that  *)
(* is in none of them is one the tokenizer does not support.  The word     *)
(* EXIT or QUIT and a keyword of SQL are one letter each.                  *)
(***************************************************************************)
EXTENDS Text

Exit == "EXIT"
Keyword == "SELECT"
Letters == {Exit, Keyword, "a", "_"}
Digits == {"7"}
Semicolon == ";"
Spaces == {"SP", "CR", "LF"}
Singles == {"*", ",", "(", ")", Semicolon, "="}
Pairs == {<<"!", "=">>, <<"<", "=">>, <<"<", ">">>, <<">", "=">>}
Quote == "'"

Token(type, from, to) == [type |-> type, from |-> from, to |-> to]

(* identifier_type.                                                        *)
IdentifierType(lexeme) == IF lexeme = <<Keyword>> THEN "keyword" ELSE "identifier"

TokenizeIdentifier(b, i) ==
    LET end == Skip(b, i, Letters \cup Digits) - 1
    IN  Token(IdentifierType(SubSeq(b, i, end)), i, end)

(* A sign belongs to the number.                                           *)
TokenizeNumber(b, i) ==
    Token("number", i, Skip(b, IF b[i] = "-" THEN i + 1 ELSE i, Digits) - 1)

(* From quote to quote; a string that is not closed is an error.           *)
TokenizeString(b, i) ==
    LET end == Find(b, i + 1, {Quote})
    IN  IF end > Len(b) THEN Token("error", i, i) ELSE Token("string", i, end)

(* The switch: one character, or two if they are an operator together.     *)
TokenizeSymbol(b, i) ==
    IF SubSeq(b, i, Min({i + 1, Len(b)})) \in Pairs THEN Token("symbol", i, i + 1)
    ELSE IF b[i] \in Singles \cup {"<", ">"} THEN Token("symbol", i, i)
    ELSE Token("error", i, i)

(* Mutant: a number may be a sign alone.                                   *)
StartsNumberOrSign(b, i) == b[i] \in Digits \cup {"-"}

StartsNumber(b, i) ==
    \/ b[i] \in Digits
    \/ b[i] = "-" /\ i < Len(b) /\ b[i + 1] \in Digits

(* One turn of the loop, at a character that is no space.                  *)
TokenAt(b, i) ==
    CASE b[i] \in Letters -> TokenizeIdentifier(b, i)
      [] StartsNumber(b, i) -> TokenizeNumber(b, i)
      [] b[i] = Quote -> TokenizeString(b, i)
      [] OTHER -> TokenizeSymbol(b, i)

(* tokenize_sql: the tokens up to the end, or up to an error.              *)
TokenizeSql(b) ==
    LET from[i \in 1 .. Len(b) + 1] ==
          LET next == Skip(b, i, Spaces)
          IN  IF next > Len(b) THEN <<Token("eof", next, next)>>
              ELSE LET token == TokenAt(b, next)
                   IN  <<token>> \o IF token.type = "error" THEN <<>> ELSE from[token.to + 1]
    IN  from[1]

Tokenized(b) == Last(TokenizeSql(b)).type = "eof"

-----------------------------------------------------------------------------
(* What a token is, without saying how it is found.                        *)

IsLexeme(s) ==
    \/ /\ s[1] \in Letters
       /\ ToSet(s) \subseteq Letters \cup Digits
    \/ ToSet(s) \subseteq Digits
    \/ Len(s) > 1 /\ s[1] = "-" /\ ToSet(Tail(s)) \subseteq Digits
    \/ /\ Len(s) > 1
       /\ s[1] = Quote /\ Last(s) = Quote
       /\ \A i \in 2 .. Len(s) - 1 : s[i] # Quote
    \/ s \in Pairs
    \/ Len(s) = 1 /\ s[1] \in Singles \cup {"<", ">"}

(* The lexemes of b that begin at i, by their ends.                        *)
LexemesAt(b, i) == {j \in i .. Len(b) : IsLexeme(SubSeq(b, i, j))}

(* The tokens cover b without gaps other than spaces, each as long as it   *)
(* can be; an error is where no lexeme begins.                             *)
RightTokens(b, tokens) ==
    \A n \in DOMAIN tokens :
        LET t == tokens[n]
            before == IF n = 1 THEN 0 ELSE tokens[n - 1].to
        IN  /\ \A k \in before + 1 .. t.from - 1 : b[k] \in Spaces
            /\ t.from > before
            /\ IF t.type = "eof" THEN n = Len(tokens) /\ t.from = Len(b) + 1
               ELSE IF t.type = "error" THEN /\ n = Len(tokens)
                                             /\ b[t.from] \notin Spaces
                                             /\ LexemesAt(b, t.from) = {}
               ELSE n < Len(tokens) /\ LexemesAt(b, t.from) # {}
                    /\ t.to = Max(LexemesAt(b, t.from))
=============================================================================
