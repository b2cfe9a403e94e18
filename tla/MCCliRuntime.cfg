CONSTANTS
  MaxFrames = 3
  StaleAfter = 2
  ResponseTimeout = 3
  QueueCap = 1

SPECIFICATION FairSpec

INVARIANTS
  OneInFlight
  WithdrawnInTime

PROPERTIES
  PipeClosedWithdraws
  GazeMovesForward
  WatchdogSafety
  WatchdogFair
  FramesKeepFlowing
  ShutdownEnds
