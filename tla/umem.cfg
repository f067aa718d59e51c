CONSTANTS
  NumFrames = 11
  RingSize = 3
  BatchSize = 2
  MaxFails = 4
SPECIFICATION UmemSpec
INVARIANTS UmemTypeOK FramesConserved RefillNeverWaits AnswersApart
