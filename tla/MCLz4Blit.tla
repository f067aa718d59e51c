------------------------------- MODULE MCLz4Blit -------------------------------
(* Model-checking instance of Lz4Blit: two frames of 14 bytes, four words of   *)
(* four, the last one not whole; one of literals, which takes three datagrams, *)
(* and one whose match the decoder puts out a word a clock.  A delta reads the *)
(* frame buffer twice.                                                         *)
EXTENDS Lz4Blit

MCFrames == {<<[literals |-> 14, offset |-> 0, match |-> 0]>>,
             <<[literals |-> 3, offset |-> 2, match |-> 10],
               [literals |-> 1, offset |-> 0, match |-> 0]>>}

(* The hypotheses of the theorems Taken and EndWhole, for these frames.        *)
ASSUME FramesHavePixels == EncodesPixels
ASSUME FramesAreWhole == EncodesEach
=============================================================================
