CONSTANTS
  MAX_INPUT_ARGS = 5
  Capacity = 1
  MaxTokens = 5
  MaxOutput = 2
SPECIFICATION Spec
INVARIANTS
  TypeOK
  RunsAsWritten
  RightNeedsLeft
  EndMeansLeftEnded
PROPERTY PipelineEnds
