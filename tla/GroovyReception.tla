--------------------------- MODULE GroovyReception ---------------------------
(***************************************************************************)
(* GroovyServer implements Reception: which part of its state a reception    *)
(* is, and which bytes the header the core polls claims.                     *)
(***************************************************************************)
EXTENDS GroovyServer

Kind     == IF isBlitting = 0 THEN "none" ELSE IF isBlitting = 1 THEN "frame" ELSE "sound"
Expected == IF isBlitting = 0 THEN 0 ELSE PayloadLength
Got      == IF isBlitting = 0 THEN 0 ELSE poc.bytes_recv

(* The header of the compression in use.                                       *)
BytesTold  == IF blitCompression # 0 THEN lz4.bytes ELSE raw.pixels * Bpp(rgbMode)
ChunksTold == IF blitCompression # 0 THEN lz4.numBlit ELSE raw.numBlit

(* UIO_SET_GROOVY_AUDIO was posted by the last step.                           *)
Played == \E i \in DOMAIN spi : spi[i].op = "AUDIO"

R == INSTANCE Reception WITH
  kind <- Kind, expected <- Expected, got <- Got, deferred <- (hpsBlit = 1),
  told <- BytesTold, aborted <- (ChunksTold = AbortBlit), played <- Played

(* Whatever the client and the network do, the server keeps the promises of    *)
(* Reception: the core is never shown bytes that have not come, a frame that   *)
(* ends short is not shown as whole, and no sound is handed over in part.      *)
KeepsReception == R!ReceptionSpec
=============================================================================
