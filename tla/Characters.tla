------------------------------ MODULE Characters ------------------------------
(***************************************************************************)
(* Characters as the parsers see them: one-character strings, ordered by   *)
(* their codes, with the classes of lib/string_utils.h.  The token "grave" *)
(* stands for the backquote.                                               *)
(***************************************************************************)
EXTENDS Integers, Sequences, SequencesExt

Printable == <<" ", "!", "\"", "#", "$", "%", "&", "'", "(", ")", "*", "+", ",", "-",
    ".", "/", "0", "1", "2", "3", "4", "5", "6", "7", "8", "9", ":", ";", "<", "=", ">",
    "?", "@", "A", "B", "C", "D", "E", "F", "G", "H", "I", "J", "K", "L", "M", "N", "O",
    "P", "Q", "R", "S", "T", "U", "V", "W", "X", "Y", "Z", "[", "\\", "]", "^", "_",
    "grave", "a", "b", "c", "d", "e", "f", "g", "h", "i", "j", "k", "l", "m", "n", "o",
    "p", "q", "r", "s", "t", "u", "v", "w", "x", "y", "z", "{", "|", "}", "~">>
Code == [c \in {Printable[i] : i \in DOMAIN Printable} |->
            31 + CHOOSE i \in DOMAIN Printable : Printable[i] = c]
Between(c, first, last) == c \in DOMAIN Code /\ Code[c] \in Code[first]..Code[last]

Chars(string) == [i \in 1..Len(string) |-> SubSeq(string, i, i)]

Whitespace == {"\r", "\n", "\t", " "}
isDigit(c) == Between(c, "0", "9")
LowerCase(c) == IF Between(c, "A", "Z") THEN Printable[Code[c] + 32 - 31] ELSE c
UpperCase(c) == IF Between(c, "a", "z") THEN Printable[Code[c] - 32 - 31] ELSE c

Numeral(n) == Printable[Code["0"] - 31 + n]
Number(digits) == FoldLeft(LAMBDA n, c : n * 10 + Code[c] - Code["0"], 0, digits)
DigitsFrom(text, i) == \* the run of digits of text that starts at i
    LET end == SelectInSubSeq(text, i, Len(text), LAMBDA c : ~isDigit(c))
    IN  SubSeq(text, i, IF end = 0 THEN Len(text) ELSE end - 1)
=============================================================================
