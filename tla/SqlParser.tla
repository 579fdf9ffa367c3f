------------------------------ MODULE SqlParser -----------------------------
(***************************************************************************)
(* src/sql/parser.c and src/sql/optimizer.c: tokens become a statement and *)
(* the columns a SELECT names twice are dropped.  A token is its type and  *)
(* its lexeme; the next token is chosen when the parser looks at it.  The  *)
(* parser never goes back, so its place in the grammar is the whole of its *)
(* control state.                                                          *)
(***************************************************************************)
EXTENDS Integers, Sequences, SequencesExt, FiniteSets

CONSTANTS Names,           \* identifiers: <<word, spelling>>
          Values,          \* lexemes of numbers and strings
          Operators,       \* types of the comparison tokens
          None,            \* no lexeme, no clause
          MaxList          \* bound: columns or values in a list

ASSUME ParserAssumption == MaxList \in Nat \ {0}

Keywords == {"SELECT", "INSERT", "INTO", "VALUES", "FROM", "WHERE"}
Symbols == {"*", ",", "(", ")", ";", "<eof>"}
Literals == {"number", "string"}

Token(type, lexeme) == [type |-> type, lexeme |-> lexeme]
Plain(type) == Token(type, None)
Tokens ==
    {Plain(type) : type \in Keywords \cup Symbols \cup Operators}
    \cup {Token("identifier", n) : n \in Names}
    \cup {Token(l, v) : l \in Literals, v \in Values}

(* sql_case_equal.                                                         *)
CaseEqual(m, n) == m[1] = n[1]

(* sql_string_array_contains.                                              *)
ArrayContains(names, n) == \E i \in DOMAIN names : CaseEqual(names[i], n)

VARIABLES place,           \* where in the grammar, or how the parse ended
          statement,       \* the Statement so far
          read             \* history: the tokens matched, and the refused one

vars == <<place, statement, read>>

NoStatement == [type |-> None, table |-> None, star |-> FALSE, columns |-> <<>>,
                where |-> None, values |-> <<>>]

Init ==
    /\ place = "start"
    /\ statement = NoStatement
    /\ read = <<>>

-----------------------------------------------------------------------------
(* match_token, consume_token: at a place, a token leads to another place. *)

Match(from, t, types, to) ==
    /\ place \in from
    /\ t.type \in types
    /\ place' = to
    /\ read' = Append(read, t)

Consume(from, t, types, to) ==
    /\ Match(from, t, types, to)
    /\ UNCHANGED statement

(* Bound: a list is not continued above MaxList.                           *)
Comma(from, t, list, to) == Len(list) < MaxList /\ Consume(from, t, {","}, to)

(* parse_statement: the first token.                                       *)
StatementType(t) ==
    /\ \/ Match({"start"}, t, {"SELECT"}, "columns")
       \/ Match({"start"}, t, {"INSERT"}, "into")
    /\ statement' = [statement EXCEPT !.type = t.type]

(* The table's name.                                                       *)
TableName(t) ==
    /\ \/ Match({"select table"}, t, {"identifier"}, "after table")
       \/ Match({"insert table"}, t, {"identifier"}, "before values")
    /\ statement' = [statement EXCEPT !.table = t.lexeme]

-----------------------------------------------------------------------------
(* SELECT                                                                  *)

(* parse_column_list: a star, or names; a name may occur again.            *)
Star(t) ==
    /\ Match({"columns"}, t, {"*"}, "from")
    /\ statement' = [statement EXCEPT !.star = TRUE]

SelectColumn(t) ==
    /\ Match({"columns", "column"}, t, {"identifier"}, "after column")
    /\ statement' = [statement EXCEPT !.columns = Append(@, t.lexeme)]

(* parse_select and parse_where_clause.                                    *)
SelectClauses(t) ==
    \/ Comma({"after column"}, t, statement.columns, "column")
    \/ Consume({"after column", "from"}, t, {"FROM"}, "select table")
    \/ Consume({"after table"}, t, {"WHERE"}, "where")

WhereColumn(t) ==
    /\ Match({"where"}, t, {"identifier"}, "operator")
    /\ statement' = [statement EXCEPT !.where = <<t.lexeme>>]

(* parse_compare_operator.                                                 *)
WhereOperator(t) ==
    /\ Match({"operator"}, t, Operators, "operand")
    /\ statement' = [statement EXCEPT !.where = Append(@, t.type)]

WhereLiteral(t) ==
    /\ Match({"operand"}, t, Literals, "end")
    /\ statement' = [statement EXCEPT !.where = Append(@, t)]

-----------------------------------------------------------------------------
(* INSERT                                                                  *)

(* Mutant: any name may be listed.                                         *)
NewColumnAny(n) == TRUE

(* parse_insert_column_list: no name twice, in any spelling.               *)
NewColumn(n) == ~ArrayContains(statement.columns, n)

InsertColumn(t) ==
    /\ Match({"insert column"}, t, {"identifier"}, "after insert column")
    /\ NewColumn(t.lexeme)
    /\ statement' = [statement EXCEPT !.columns = Append(@, t.lexeme)]

(* parse_insert.                                                           *)
InsertClauses(t) ==
    \/ Consume({"into"}, t, {"INTO"}, "insert table")
    \/ Consume({"before values"}, t, {"("}, "insert column")
    \/ Comma({"after insert column"}, t, statement.columns, "insert column")
    \/ Consume({"after insert column"}, t, {")"}, "values")
    \/ Consume({"before values", "values"}, t, {"VALUES"}, "open")
    \/ Consume({"open"}, t, {"("}, "value")
    \/ Comma({"after value"}, t, statement.values, "value")

(* parse_literal and append_value.                                         *)
InsertValue(t) ==
    /\ Match({"value"}, t, Literals, "after value")
    /\ statement' = [statement EXCEPT !.values = Append(@, t)]

(* As many values as columns, if columns are listed.                       *)
CountsAgree == statement.columns = <<>> \/ Len(statement.columns) = Len(statement.values)

InsertClose(t) ==
    /\ CountsAgree
    /\ Consume({"after value"}, t, {")"}, "end")

-----------------------------------------------------------------------------
(* The end of a statement                                                  *)

(* One semicolon, if any, then the end of the text.                        *)
Finish(t) ==
    \/ Consume({"after table", "end"}, t, {";"}, "eof")
    \/ Consume({"after table", "end", "eof"}, t, {"<eof>"}, "parsed")

Parse(t) ==
    \/ StatementType(t) \/ TableName(t)
    \/ Star(t) \/ SelectColumn(t) \/ SelectClauses(t)
    \/ WhereColumn(t) \/ WhereOperator(t) \/ WhereLiteral(t)
    \/ InsertColumn(t) \/ InsertClauses(t) \/ InsertValue(t) \/ InsertClose(t)
    \/ Finish(t)

(* The token types that some branch takes at a place.                      *)
Expected ==
    CASE place = "start" -> {"SELECT", "INSERT"}
      [] place = "columns" -> {"*", "identifier"}
      [] place \in {"column", "select table", "insert table", "where", "insert column"} ->
            {"identifier"}
      [] place = "after column" -> {",", "FROM"}
      [] place = "from" -> {"FROM"}
      [] place = "after table" -> {"WHERE", ";", "<eof>"}
      [] place = "operator" -> Operators
      [] place \in {"operand", "value"} -> Literals
      [] place = "into" -> {"INTO"}
      [] place = "before values" -> {"(", "VALUES"}
      [] place \in {"after insert column", "after value"} -> {",", ")"}
      [] place = "values" -> {"VALUES"}
      [] place = "open" -> {"("}
      [] place = "end" -> {";", "<eof>"}
      [] place = "eof" -> {"<eof>"}

Ended == place \in {"parsed", "refused", "no memory", "optimized"}

(* An error and no statement: another token, a name listed twice, or the   *)
(* wrong number of values.                                                 *)
Refuse(t) ==
    /\ ~Ended
    /\ \/ t.type \notin Expected
       \/ place = "insert column" /\ t.type = "identifier" /\ ~NewColumn(t.lexeme)
       \/ place = "after value" /\ t.type = ")" /\ ~CountsAgree
    /\ place' = "refused"
    /\ statement' = NoStatement
    /\ read' = Append(read, t)

(* No memory for a copy of a name or a literal.                            *)
OutOfMemory ==
    /\ ~Ended
    /\ Expected \cap ({"identifier"} \cup Literals) # {}
    /\ place' = "no memory"
    /\ statement' = NoStatement
    /\ UNCHANGED read

(* Mutant: a name that is kept stays where it was.                         *)
CompactUnmoved(list, i) ==
    IF ArrayContains(SubSeq(list.items, 1, list.write), list.items[i])
    THEN [list EXCEPT !.items[i] = None]
    ELSE [list EXCEPT !.write = @ + 1]

(* One turn of the optimizer's loop, in the list it reads: a column that   *)
(* is among the kept ones in front is freed (None), another is moved up    *)
(* behind them.                                                            *)
Compact(list, i) ==
    IF ArrayContains(SubSeq(list.items, 1, list.write), list.items[i])
    THEN [list EXCEPT !.items[i] = None]
    ELSE [items |-> [list.items EXCEPT ![list.write + 1] = list.items[i]],
          write |-> list.write + 1]

Compacted(columns) ==
    LET list == FoldLeft(Compact, [items |-> columns, write |-> 0],
                         [i \in DOMAIN columns |-> i])
    IN  SubSeq(list.items, 1, list.write)

(* optimize_select.                                                        *)
Optimize ==
    /\ place = "parsed"
    /\ place' = "optimized"
    /\ statement' = IF statement.type = "INSERT" \/ statement.star THEN statement
                    ELSE [statement EXCEPT !.columns = Compacted(@)]
    /\ UNCHANGED read

Rest == Ended /\ place # "parsed" /\ UNCHANGED vars

Next ==
    \/ \E t \in Tokens : Parse(t) \/ Refuse(t)
    \/ OutOfMemory
    \/ Optimize
    \/ Rest

Spec == Init /\ [][Next]_vars

-----------------------------------------------------------------------------
(* The grammar that the error messages of parser.c spell out, as the set   *)
(* of its sentences with lists of at most MaxList items.                   *)

Cat(A, B) == {a \o b : a \in A, b \in B}
Word(type) == {<<Plain(type)>>}
Name(n) == Token("identifier", n)
Optional(A) == A \cup {<<>>}
SeparatedBy(items) ==
    FlattenSeq([i \in DOMAIN items |->
        IF i = 1 THEN <<items[i]>> ELSE <<Plain(","), items[i]>>])
Seqs(S) == UNION {[1 .. n -> S] : n \in 1 .. MaxList}
Identifier == {<<Name(n)>> : n \in Names}
LiteralTokens == {Token(l, v) : l \in Literals, v \in Values}
Distinct(names) ==
    \A i, j \in DOMAIN names : CaseEqual(names[i].lexeme, names[j].lexeme) => i = j

NameLists == Seqs({Name(n) : n \in Names})

WherePart ==
    Cat(Word("WHERE"), Cat(Identifier,
        Cat({<<Plain(o)>> : o \in Operators}, {<<l>> : l \in LiteralTokens})))

Selects ==
    Cat(Word("SELECT"), Cat(Word("*") \cup {SeparatedBy(s) : s \in NameLists},
        Cat(Word("FROM"), Cat(Identifier, Optional(WherePart)))))

Bracketed(s) == <<Plain("(")>> \o SeparatedBy(s) \o <<Plain(")")>>

(* INSERTs whose lists of columns and values are in a relation.            *)
Inserts(Fits(_, _)) ==
    LET pairs == {p \in (NameLists \cup {<<>>}) \X Seqs(LiteralTokens) : Fits(p[1], p[2])}
        rest(p) == (IF p[1] = <<>> THEN <<>> ELSE Bracketed(p[1]))
                   \o <<Plain("VALUES")>> \o Bracketed(p[2])
    IN  Cat(Word("INSERT"), Cat(Word("INTO"), Cat(Identifier, {rest(p) : p \in pairs})))

Complete(statements) == Cat(statements, Cat(Optional(Word(";")), Word("<eof>")))
Begun(sentences) == UNION {{SubSeq(s, 1, n) : n \in 0 .. Len(s)} : s \in sentences}

ListsFit(columns, values) == Distinct(columns) /\ Len(columns) \in {0, Len(values)}

Sentences == Complete(Selects \cup Inserts(ListsFit))
SentencePrefixes == Begun(Sentences)
LoosePrefixes == Begun(Complete(Selects \cup Inserts(LAMBDA columns, values : TRUE)))

-----------------------------------------------------------------------------
(* Properties                                                              *)

(* The parser accepts the sentences of the grammar and nothing else, and   *)
(* refuses a text at the first token that no sentence continues with; only *)
(* the lengths of the lists are compared when the second one is closed     *)
(* (parser.c 66-450).                                                      *)
GrammarExactly ==
    CASE place \in {"parsed", "optimized"} -> read \in Sentences
      [] place = "refused" -> read \notin SentencePrefixes
      [] OTHER -> read \in LoosePrefixes

(* The tokens a statement stands for.                                      *)
Rendered(s) ==
    LET names == SeparatedBy([i \in DOMAIN s.columns |-> Name(s.columns[i])])
    IN  IF s.type = "SELECT"
        THEN <<Plain("SELECT")>> \o (IF s.star THEN <<Plain("*")>> ELSE names)
             \o <<Plain("FROM"), Name(s.table)>>
             \o (IF s.where = None THEN <<>>
                 ELSE <<Plain("WHERE"), Name(s.where[1]), Plain(s.where[2]), s.where[3]>>)
        ELSE <<Plain("INSERT"), Plain("INTO"), Name(s.table)>>
             \o (IF s.columns = <<>> THEN <<>> ELSE Bracketed([i \in DOMAIN s.columns |-> Name(s.columns[i])]))
             \o <<Plain("VALUES")>> \o Bracketed(s.values)

(* The tokens read, without those of a SELECT column that was there before *)
(* in any spelling.                                                        *)
WithoutRepeats ==
    LET from == CHOOSE i \in DOMAIN read : read[i].type = "FROM"
        names == {i \in 2 .. from - 1 : read[i].type = "identifier"}
        again == {i \in names : \E j \in names : j < i /\ CaseEqual(read[j].lexeme, read[i].lexeme)}
    IN  FlattenSeq([i \in DOMAIN read |->
            IF i \in again \/ i + 1 \in again THEN <<>> ELSE <<read[i]>>])

(* The statement that is executed says what the text said: all names,      *)
(* values and operators in their places, of a SELECT's columns the first   *)
(* of each name (parser.c 120-450, optimizer.c 12-71).                     *)
StatementMeansText ==
    place = "optimized" =>
        LET text == IF statement.type = "SELECT" THEN WithoutRepeats ELSE read
        IN  Rendered(statement) = SelectSeq(text, LAMBDA t : t.type \notin {";", "<eof>"})
=============================================================================
