\* Every file of up to four bytes and a few longer ones, in up to four splits;
\* the letter a is the word to find, and words of three letters overflow.
SPECIFICATION FairSpec
CONSTANTS
  Letters = {a, b}
  a = a
  b = b
  NewLine = NewLine
  Space = Space
  Word <- AWord
  WordBuffer = 3
  MaxLength = 4
  Files <- SomeFiles
  SplitNums = {0, 1, 2, 3, 4}
  Garbage = Garbage
CHECK_DEADLOCK FALSE
INVARIANTS
  ReduceAfterMaps
  ResultIsExact
  NothingLeftBehind
PROPERTY ParentEnds
