---------------------------- MODULE UserFunctions ----------------------------
(***************************************************************************)
(* The two tasks of systems_program/proj2/usr_functions.c, as functions of *)
(* the bytes they read. A file is a sequence of bytes, and a split of it a *)
(* record of the offset its descriptor is set to and its size. The text    *)
(* of an intermediate file is what it means: a number per letter, or a     *)
(* sequence of lines.                                                      *)
(***************************************************************************)
EXTENDS Naturals, SequencesExt

CONSTANTS Letters,     \* the bytes that are letters
          NewLine, Space,
          Word,        \* usr_data, the word to find
          WordBuffer   \* the size of check_word

Bytes == Letters \cup {NewLine, Space}

ASSUME BytesAssumption == NewLine \notin Letters
ASSUME WordAssumption == Word \in Seq(Letters) \ {<<>>}
ASSUME WordBufferAssumption == WordBuffer \in Nat \ {0}

Occurrences(byte, s) == Cardinality({k \in DOMAIN s : s[k] = byte})

\* letter_counter_map reads until count is -1, which is size + 1 bytes, or to
\* the end of the file.
LetterCounterMap(file, split) ==
    [c \in Letters |-> Cardinality({k \in DOMAIN file :
        split.start < k /\ k <= split.start + split.size + 1 /\ file[k] = c})]

\* letter_counter_reduce: letter_array after the first n files
LetterCounterReduce(inter) ==
    LET letter_array[n \in 0 .. Cardinality(DOMAIN inter)] ==
          [c \in Letters |-> IF n = 0 THEN 0 ELSE letter_array[n - 1][c] + inter[n - 1][c]]
    IN  letter_array[Cardinality(DOMAIN inter)]

-----------------------------------------------------------------------------
\* write_line: the bytes after `number` newlines and before the next one.
LineOf(s, number) ==
    LET in == {k \in 0 .. Len(s) : Occurrences(NewLine, SubSeq(s, 1, k)) = number}
    IN  SubSeq(s, Min(in) + 1, Max(in))

\* strstr on a word that is long enough
HasWord(s) == \E k \in 0 .. Len(s) - Len(Word) : SubSeq(s, k + 1, k + Len(Word)) = Word

\* word_finder_map reads exactly the split. It looks for the word in each word
\* as it ends and writes a line at its first match only (line_added), which
\* comes to the lines that contain the word, in their order.
MatchingLines(s) ==
    LET lines == Occurrences(NewLine, s) + 1
        added[n \in 0 .. lines] ==
          IF n = 0 THEN <<>>
          ELSE IF HasWord(LineOf(s, n - 1)) THEN Append(added[n - 1], LineOf(s, n - 1))
          ELSE added[n - 1]
    IN  added[lines]

WordFinderMap(file, split) ==
    MatchingLines(SubSeq(file, split.start + 1, split.start + split.size))

\* word_finder_reduce: what is written after the first n files
WordFinderReduce(inter) ==
    LET written[n \in 0 .. Cardinality(DOMAIN inter)] ==
          IF n = 0 THEN <<>> ELSE written[n - 1] \o inter[n - 1]
    IN  written[Cardinality(DOMAIN inter)]

\* A word that leaves no place for the final 0 in check_word
Overflows(file, split) ==
    \E k \in split.start + 1 .. split.start + split.size + 1 - WordBuffer :
        \A j \in k .. k + WordBuffer - 1 : file[j] \in Letters

-----------------------------------------------------------------------------
\* What the tasks are for: the letters of the whole file, and its lines that
\* contain the word.
LettersOf(file) == [c \in Letters |-> Occurrences(c, file)]

LinesWithWord(file) == MatchingLines(file)
=============================================================================
