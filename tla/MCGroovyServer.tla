--------------------------- MODULE MCGroovyServer ---------------------------
(* Model-checking instance of GroovyServer: the datagrams that may arrive.  *)
EXTENDS GroovyReception, TLC

Bare == [cmd |-> "unknown", len |-> 1, frame |-> 0, field |-> 0, size |-> 0,
         delta |-> 0, compression |-> 0, channels |-> 0, rgb |-> 0, px |-> 0,
         timing |-> TRUE, interlace |-> 0]

Cmd(cmd, len, args) == args @@ [cmd |-> cmd, len |-> len] @@ Bare

(* 984 pixels of RGB888 are 2952 bytes: two full chunks and a tail of 8, the  *)
(* length of a raw CMD_BLIT_FIELD_VSYNC.  4400 bytes of LZ4 are two chunks    *)
(* and a tail of 1456.                                                        *)
Payloads == {Cmd("unknown", 1472, <<>>), Cmd("unknown", 1456, <<>>)}

(* Sessions of both kinds. *)
AnyCommands ==
  {Cmd("CLOSE", 1, <<>>),
   Cmd("INIT", 4, [channels |-> 1]),
   Cmd("INIT", 5, [compression |-> 1, channels |-> 2, rgb |-> 2]),
   Cmd("SWITCHRES", 26, [px |-> 984]),
   Cmd("SWITCHRES", 26, [px |-> 984, interlace |-> 1]),
   Cmd("AUDIO", 3, [size |-> 1472 + 1456]),
   Cmd("GET_STATUS", 1, <<>>),
   Cmd("GET_VERSION", 1, <<>>),
   Cmd("BLIT_FIELD_VSYNC", 8, [frame |-> 1]),
   Cmd("BLIT_FIELD_VSYNC", 9, [frame |-> 2, delta |-> 1]),
   Cmd("BLIT_VSYNC", 7, [frame |-> 2]),
   Cmd("BLIT_FIELD_VSYNC", 12, [frame |-> 1, size |-> 4400]),
   Cmd("BLIT_FIELD_VSYNC", 13, [frame |-> 2, size |-> 2928, delta |-> 1])}

AnyPackets == Payloads \union AnyCommands

(* Enough to open, interrupt and close sessions. *)
SessionPackets ==
  Payloads \union
  {Cmd("CLOSE", 1, <<>>),
   Cmd("INIT", 4, <<>>),
   Cmd("SWITCHRES", 26, [px |-> 984]),
   Cmd("BLIT_FIELD_VSYNC", 8, [frame |-> 1])}
=============================================================================
