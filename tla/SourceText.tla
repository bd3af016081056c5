------------------------------ MODULE SourceText ------------------------------
(* A text is a sequence of symbols and an offset a position in it.  A       *)
(* symbol is a token of code, a newline, a blank, or a comment with all its *)
(* text.                                                                    *)
EXTENDS Naturals, Sequences, FiniteSets

Code == {"x", "{", "}"}

\* "multi" is a block comment over two lines, "pragma" one with @flow.
CommentKind == {"line", "hashbang", "block", "multi", "pragma"}
IsLineLike(symbol) == symbol \in {"line", "hashbang"}

LineNumber(text, offset) ==
    1 + Cardinality({i \in 1 .. offset - 1 : text[i] \in {"nl", "multi"}})
===============================================================================
