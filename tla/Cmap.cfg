\* Two readers of up to two words, up to two askers, both reducers, channels
\* with room for one word and one question. The program ends.
SPECIFICATION FairSpec
CONSTANTS
  Readers = {r1, r2}
  MaxAskers = 2
  Words = {u, v}
  EmptyWord = EmptyWord
  Invalid = Invalid
  MaxInt = 9
  ADD_BUFFER_SIZE = 1
  ASK_BUFFER_SIZE = 1
  WordsEach = 1
  MaxEmpty = 1
CHECK_DEADLOCK FALSE
INVARIANTS
  NoSendOnClosed
  AnswersMatchAskers
  ReductionIsExact
PROPERTIES
  IsCounter
  MainEnds
