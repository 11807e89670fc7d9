------------------------------ MODULE SqlText -------------------------------
(***************************************************************************)
(* The SQL lexing of the console (data/sql-text.ts): a script is split     *)
(* into statements at the semicolons that are outside quotes, dollar       *)
(* quotes and comments, and statements that change every row need to be    *)
(* confirmed.                                                              *)
(*                                                                         *)
(* A text is a sequence of characters; "nl" is the newline, and a whole    *)
(* word counts as one character.  The reference is the script as it was    *)
(* written: a sequence of lexemes, among them literals and comments that   *)
(* contain semicolons, quotes and words of their own.                      *)
(***************************************************************************)
EXTENDS Integers, Sequences, FiniteSets, SequencesExt

CONSTANT MaxLexemes    \* bound: the length of a script

ASSUME MaxLexemesAssumption == MaxLexemes \in Nat

VARIABLE script        \* what the author wrote, as lexemes; it never changes

Words == {"a", "delete", "where", "drop", "table"}
Blanks == {" ", "nl"}

At(sql, i) == IF i \in 1..Len(sql) THEN sql[i] ELSE "end"
Least(S) == CHOOSE i \in S : \A j \in S : i <= j
Greatest(S) == CHOOSE i \in S : \A j \in S : i >= j

Trim(text) ==
    LET solid == {i \in 1..Len(text) : text[i] \notin Blanks} IN
    IF solid = {} THEN <<>> ELSE SubSeq(text, Least(solid), Greatest(solid))

-----------------------------------------------------------------------------
(* The scanner. *)

\* A doubled quote does not end the literal.
SkipQuoted(sql, from, quote) ==
    LET skip[i \in Nat] == IF i > Len(sql) THEN i
                         ELSE IF At(sql, i) # quote THEN skip[i + 1]
                         ELSE IF At(sql, i + 1) = quote THEN skip[i + 2]
                         ELSE i + 1
    IN skip[from + 1]

\* $$ or $tag$ at from; empty when there is none.
MatchDollarTag(sql, from) ==
    LET closing == {j \in from + 1..Len(sql) : sql[j] = "$" /\ \A i \in from + 1..j - 1 : sql[i] \in Words}
    IN IF closing = {} THEN <<>> ELSE SubSeq(sql, from, Least(closing))

\* To the end of the next occurrence of the same tag.
SkipDollarQuoted(sql, from, tag) ==
    LET closing == {j \in from + Len(tag)..Len(sql) - Len(tag) + 1 : SubSeq(sql, j, j + Len(tag) - 1) = tag}
    IN IF closing = {} THEN Len(sql) + 1 ELSE Least(closing) + Len(tag)

Opens(sql, i) == At(sql, i) = "/" /\ At(sql, i + 1) = "*"
Closes(sql, i) == At(sql, i) = "*" /\ At(sql, i + 1) = "/"

\* Mutant: as in C.
SkipFlatComment(sql, from) ==
    LET closing == {j \in from + 2..Len(sql) : Closes(sql, j)} IN
    IF closing = {} THEN Len(sql) + 1 ELSE Least(closing) + 2

\* Block comments nest.
SkipBlockComment(sql, from) ==
    LET skip[i \in Nat, depth \in Nat] ==
            IF i > Len(sql) THEN i
            ELSE IF Opens(sql, i) THEN skip[i + 2, depth + 1]
            ELSE IF Closes(sql, i) THEN IF depth = 1 THEN i + 2 ELSE skip[i + 2, depth - 1]
            ELSE skip[i + 1, depth]
    IN skip[from, 0]

\* Where the literal or comment that starts at i ends, or 0.
EndOfNoise(sql, i) ==
    CASE At(sql, i) \in {"'", "\""} -> SkipQuoted(sql, i, sql[i])
      [] At(sql, i) = "$" /\ MatchDollarTag(sql, i) # <<>> -> SkipDollarQuoted(sql, i, MatchDollarTag(sql, i))
      [] At(sql, i) = "-" /\ At(sql, i + 1) = "-" ->
            LET newlines == {j \in i..Len(sql) : sql[j] = "nl"} IN
            IF newlines = {} THEN Len(sql) + 1 ELSE Least(newlines)
      [] Opens(sql, i) -> SkipBlockComment(sql, i)
      [] OTHER -> 0

\* splitStatements(): the semicolons the loop meets, and the texts between them.
Stops(sql) ==
    LET from[i \in Nat] == IF i > Len(sql) THEN {}
                           ELSE IF EndOfNoise(sql, i) # 0 THEN from[EndOfNoise(sql, i)]
                           ELSE (IF sql[i] = ";" THEN {i} ELSE {}) \cup from[i + 1]
    IN from[1]

SplitStatements(sql) ==
    LET ends == SetToSortSeq(Stops(sql) \cup {Len(sql) + 1}, <)
        text(n) == Trim(SubSeq(sql, IF n = 1 THEN 1 ELSE ends[n - 1] + 1, ends[n] - 1))
    IN SelectSeq([n \in 1..Len(ends) |-> text(n)], LAMBDA t : t # <<>>)

\* stripNoise(): literals and comments become a blank.
StripNoise(sql) ==
    LET from[i \in Nat] == IF i > Len(sql) THEN <<>>
                           ELSE IF EndOfNoise(sql, i) # 0 THEN <<" ">> \o from[EndOfNoise(sql, i)]
                           ELSE <<sql[i]>> \o from[i + 1]
    IN from[1]

\* findDestructiveStatements(): a DELETE (or UPDATE) without WHERE, a DROP of an object (or a
\* TRUNCATE).
Destructive(statement) ==
    LET bare == SelectSeq(StripNoise(statement), LAMBDA ch : ch \notin Blanks) IN
    \/ At(bare, 1) = "delete" /\ "where" \notin Range(bare)
    \/ At(bare, 1) = "drop" /\ At(bare, 2) = "table"

FindDestructiveStatements(sql) == SelectSeq(SplitStatements(sql), Destructive)

-----------------------------------------------------------------------------
(* The reference. *)

\* ';''--'  "';"  $a$';$$$a$  $$;$$  --';  /*/**/;*/
Noise == {<<"'", ";", "'", "'", "-", "-", "'">>,
          <<"\"", "'", ";", "\"">>,
          <<"$", "a", "$", "'", ";", "$", "$", "$", "a", "$">>,
          <<"$", "$", "where", ";", "$", "$">>,
          <<"-", "-", "'", ";", "nl">>,
          <<"/", "*", "/", "*", "*", "/", ";", "where", "*", "/">>}
Semicolon == <<";">>
Lexemes == Noise \cup {Semicolon} \cup {<<w>> : w \in Words \ {"a"}}

\* Lexemes are written with a blank between them.
Render(lexemes) == FlattenSeq([i \in 1..Len(lexemes) |-> lexemes[i] \o <<" ">>])

\* The lexemes between the semicolons.
Pieces ==
    LET ends == SetToSortSeq({i \in 1..Len(script) : script[i] = Semicolon} \cup {Len(script) + 1}, <) IN
    SelectSeq([n \in 1..Len(ends) |-> SubSeq(script, IF n = 1 THEN 1 ELSE ends[n - 1] + 1, ends[n] - 1)],
              LAMBDA piece : piece # <<>>)

ChangesEveryRow(piece) ==
    LET words == SelectSeq(piece, LAMBDA l : l \notin Noise) IN
    \/ IsPrefix(<<<<"delete">>>>, words) /\ <<"where">> \notin Range(words)
    \/ IsPrefix(<<<<"drop">>, <<"table">>>>, words)

AllScripts == BoundedSeq(Lexemes, MaxLexemes)
Text(piece) == Trim(Render(piece))
Texts(pieces) == [n \in 1..Len(pieces) |-> Text(pieces[n])]

\* The console runs the statements the author wrote, whatever is quoted or commented in them,
\* and asks for confirmation of exactly those that change every row or drop an object
\* (sql-text.ts:5-8, 162-168).
ReadsScripts ==
    /\ SplitStatements(Render(script)) = Texts(Pieces)
    /\ FindDestructiveStatements(Render(script)) = Texts(SelectSeq(Pieces, ChangesEveryRow))
=============================================================================
