\* Two calls, at once or one after the other; an answer arrives in up to three
\* pieces of one byte, two, seven or all that is left.
CONSTANTS
  Calls = {c1, c2}
  Credentials <- SomeCredentials
  Tokens <- SomeTokens
  Names <- SomeNames
  Answers <- SomeAnswers
  ChunkSizes = {1, 2, 7, 200}
  MaxChunks = 3
  Entities <- TwoEntities
SPECIFICATION Spec
INVARIANTS
  TypeOK
  ReturnedIsReady
  Vouched
  InitializedMeansConnected
  ClientsClosed
  VerdictFitsAnswer
  RequestReadsBack
PROPERTIES
  StartupSettles
CHECK_DEADLOCK FALSE
