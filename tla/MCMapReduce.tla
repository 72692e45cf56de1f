---------------------------- MODULE MCMapReduce ----------------------------
EXTENDS MapReduce
CONSTANTS a, b, MaxLength
AWord == <<a>>
\* Every short file, and a few with more lines than splits, a line with the
\* word twice, empty lines and a word that is too long.
SomeFiles == UNION {[1 .. n -> Bytes] : n \in 0 .. MaxLength} \cup
    {<<a, NewLine, b, a, NewLine, a, Space, a, NewLine, b>>,
     <<NewLine, NewLine, b, NewLine, a, b, NewLine, NewLine, a>>,
     <<a, Space, b, a, Space, b, NewLine, Space, a, NewLine>>,
     <<b, b, NewLine, a, b, a, NewLine, b, b, a, NewLine, a>>}
=============================================================================
