-------------------------------- MODULE Repl --------------------------------
(***************************************************************************)
(* src/apps/main.c, run_repl: the user types characters, fgets hands them  *)
(* over in lines (a longer line in pieces), lines are collected until one  *)
(* has a semicolon, then the engine is given the whole text.               *)
(***************************************************************************)
EXTENDS Tokenizer

CONSTANTS Chars,           \* what the user types
          LineLimit,       \* sizeof(line) - 1
          MaxTyped         \* bound: characters typed

ASSUME ReplAssumption == LineLimit \in Nat \ {0} /\ MaxTyped \in Nat

VARIABLES typed,           \* history: all characters typed
          closed,          \* the user closed the input
          line,            \* the characters fgets has so far
          statement,       \* the buffer of lines
          pc,              \* "read", "execute", "ended" (no more input), "exited"
          executed         \* history: the texts given to the engine

vars == <<typed, closed, line, statement, pc, executed>>

Init ==
    /\ typed = <<>>
    /\ closed = FALSE
    /\ line = <<>>
    /\ statement = <<>>
    /\ pc = "read"
    /\ executed = <<>>

-----------------------------------------------------------------------------
(* fgets                                                                   *)

(* fgets returns: a newline, a full buffer, or the end of the input.       *)
LineRead ==
    /\ pc = "read"
    /\ line # <<>>
    /\ Last(line) = "LF" \/ Len(line) = LineLimit \/ closed

Type(c) ==
    /\ pc = "read"
    /\ ~closed
    /\ ~LineRead
    /\ Len(typed) < MaxTyped
    /\ typed' = Append(typed, c)
    /\ line' = Append(line, c)
    /\ UNCHANGED <<closed, statement, pc, executed>>

Close ==
    /\ pc = "read"
    /\ ~closed
    /\ ~LineRead
    /\ closed' = TRUE
    /\ UNCHANGED <<typed, line, statement, pc, executed>>

-----------------------------------------------------------------------------
(* The loop                                                                *)

(* trim_newline.                                                           *)
Trimmed ==
    SubSeq(line, 1, Max({0} \cup {i \in DOMAIN line : line[i] \notin {"CR", "LF"}}))

(* is_exit_command: the word alone, with or without a semicolon.           *)
IsExitCommand(text) ==
    LET word == Skip(text, 1, Spaces)
        after == Find(text, word, Spaces \cup {Semicolon})
        semicolon == Skip(text, after, Spaces)
        rest == IF Holds(text, semicolon, Semicolon) THEN semicolon + 1 ELSE semicolon
    IN  /\ SubSeq(text, word, after - 1) = <<Exit>>
        /\ Skip(text, rest, Spaces) > Len(text)

(* An empty line before a statement.                                       *)
SkipLine ==
    /\ LineRead
    /\ statement = <<>>
    /\ Trimmed = <<>>
    /\ line' = <<>>
    /\ UNCHANGED <<typed, closed, statement, pc, executed>>

(* EXIT at the beginning of a statement.                                   *)
ExitLine ==
    /\ LineRead
    /\ statement = <<>>
    /\ IsExitCommand(Trimmed)
    /\ line' = <<>>
    /\ pc' = "exited"
    /\ UNCHANGED <<typed, closed, statement, executed>>

(* The line joins the statement, which is complete if the line has a       *)
(* semicolon anywhere.                                                     *)
AppendLine ==
    /\ LineRead
    /\ statement = <<>> => Trimmed # <<>> /\ ~IsExitCommand(Trimmed)
    /\ statement' = statement \o Append(Trimmed, "LF")
    /\ line' = <<>>
    /\ pc' = IF Semicolon \in ToSet(Trimmed) THEN "execute" ELSE "read"
    /\ UNCHANGED <<typed, closed, executed>>

(* EXIT spread over several lines.                                         *)
ExitStatement ==
    /\ pc = "execute"
    /\ IsExitCommand(statement)
    /\ statement' = <<>>
    /\ pc' = "exited"
    /\ UNCHANGED <<typed, closed, line, executed>>

(* Mutant: the buffer is kept after an error.                              *)
BufferAfterKept(ok) == IF ok THEN <<>> ELSE statement

(* reset_statement_buffer, after a success and after an error.             *)
BufferAfter(ok) == <<>>

(* The engine's answer: an error if the text has no tokens, otherwise      *)
(* either, as parser and table have it.                                    *)
Execute(ok) ==
    /\ pc = "execute"
    /\ ~IsExitCommand(statement)
    /\ ok => Tokenized(statement)
    /\ executed' = Append(executed, statement)
    /\ statement' = BufferAfter(ok)
    /\ pc' = "read"
    /\ UNCHANGED <<typed, closed, line>>

(* No memory for the buffer ends the program; the end of the input ends it *)
(* too, and what is left in the buffer is not executed.                    *)
End ==
    /\ \/ LineRead
       \/ pc = "read" /\ closed /\ line = <<>>
    /\ pc' = "ended"
    /\ UNCHANGED <<typed, closed, line, statement, executed>>

Rest == pc \in {"ended", "exited"} /\ UNCHANGED vars

Next ==
    \/ \E c \in Chars : Type(c)
    \/ Close
    \/ SkipLine
    \/ ExitLine
    \/ AppendLine
    \/ ExitStatement
    \/ \E ok \in BOOLEAN : Execute(ok)
    \/ End
    \/ Rest

Spec == Init /\ [][Next]_vars

-----------------------------------------------------------------------------
(* Properties                                                              *)

(* Every variable has its type.                                            *)
TypeOK ==
    /\ typed \in Seq(Chars) /\ line \in Seq(Chars)
    /\ statement \in Seq(Chars \cup {"LF"})
    /\ executed \in Seq(Seq(Chars \cup {"LF"}))
    /\ pc \in {"read", "execute", "ended", "exited"}

(* A text without its line ends.                                           *)
LineEnds == {"CR", "LF"}
Kept(text) == [i \in DOMAIN text |-> IF text[i] \in LineEnds THEN <<>> ELSE <<text[i]>>]
Joined(text) == FlattenSeq(Kept(text))

(* The first line with a semicolon is the last one.                        *)
Complete(text) ==
    Semicolon \in ToSet(text) /\ Find(text, Find(text, 1, {Semicolon}), {"LF"}) = Len(text)

(* Every character the user typed is executed or still waiting, once and   *)
(* in order, whether the statements before it succeeded or not; a text is  *)
(* executed as soon as, and no sooner than, a line of it has a semicolon   *)
(* (main.c 147-184).                                                       *)
ExecutedAsTyped ==
    /\ pc # "exited" =>
          Joined(FlattenSeq(executed) \o statement \o line) = Joined(typed)
    /\ pc = "read" => Semicolon \notin ToSet(statement)
    /\ \A n \in DOMAIN executed : Complete(executed[n])

(* The tokens of an executed text are its lexemes, each as long as it can  *)
(* be, up to the end or to the first character that begins none            *)
(* (tokenizer.c 143-298).                                                  *)
TokensAreRight ==
    \A n \in DOMAIN executed : RightTokens(executed[n], TokenizeSql(executed[n]))

-----------------------------------------------------------------------------
(* The inductive invariant behind ExecutedAsTyped: a line ends at its      *)
(* first newline, and what waits for the engine is complete.               *)
ReplInv ==
    /\ TypeOK
    /\ \A i \in 1 .. Len(line) - 1 : line[i] # "LF"
    /\ pc = "execute" => Complete(statement)
    /\ ExecutedAsTyped
=============================================================================
