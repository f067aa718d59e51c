----------------------------- MODULE MCLz4Decoder -----------------------------
(* Model-checking instance of Lz4Decoder: frames of two matches and literals   *)
(* around them, with words of four bytes.  Lengths pass those of the token,    *)
(* of a length byte and of two words; offsets reach from a byte to the window. *)
EXTENDS Lz4Decoder

Sequence(literals, offsets, matches) ==
  [literals : literals, offset : offsets, match : matches]

Ending(literals) == [literals : literals, offset : {0}, match : {0}]

MCFrames ==
  {f \in {<<a, z>> : a \in Sequence(1..12, 1..12, 2..17), z \in Ending(1..2)}
         \cup {<<a, b, z>> : a \in Sequence({5, 12}, {1, 5}, {4, 14}),
                  b \in Sequence({0, 3, 11}, 1..15, {2, 9, 13}), z \in Ending({1, 13})} :
     /\ f[1].offset <= f[1].literals
     /\ Len(f) = 3 => f[2].offset <= f[1].literals + f[1].match + f[2].literals}

(* The hypotheses of the theorems of Lz4Decoder_proofs, for these frames. *)
ASSUME FramesEncoded  == EncodesFrames
ASSUME FramesInBlocks == EncodesBlocks
=============================================================================
