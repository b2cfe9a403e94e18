CONSTANTS
  MaxFrames = 2
  StaleAfter = 2
  ResponseTimeout = 3
  QueueCap = 1

SPECIFICATION Spec

INVARIANT
  PipeClosedEndsInvalid
