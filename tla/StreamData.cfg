\* Two names, one text that is written; tables with room for four fields and two trailers.
SPECIFICATION StreamSpec
CONSTANTS
  Names <- TwoNames
  GuestNames <- ThreeNames
  Texts <- SlashTexts
  Paths <- SlashTexts
  LenOf <- Lengths
  Status <- Code
  InitialHeaders <- Tables
  Answers <- SomeAnswers
  MaxFields = 4
  MaxTrailers = 2
  MaxListed = 3
  MaxPairs = 6
  MaxKey = 20
  MaxVal = 4
  MaxMethod = 2
  MaxChunk = 2
  MaxChunks = 2
  MaxHostCalls = 3
CONSTRAINT OneFamily
CHECK_DEADLOCK FALSE
INVARIANTS
  CallsAgree WriteBackStable OnlyItsOwnBytes
PROPERTY OthersUntouched
