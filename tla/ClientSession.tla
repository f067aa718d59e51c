---------------------------- MODULE ClientSession ----------------------------
(***************************************************************************)
(* How a client opens a session and follows it: CmdInit, CmdClose, getACK    *)
(* and the status it keeps (groovymister.cpp), against the session and the   *)
(* ACKs of the server (groovy.cpp), over a network that loses and delays.    *)
(*                                                                         *)
(* CmdInit opens a socket, sends INIT and waits 60 ms for an ACK.  The ACKs  *)
(* carry the number of the frame they answer (0 for INIT) and, among the     *)
(* bits of the status, whether sound is on.                                 *)
(*                                                                         *)
(* The handlers of INIT and CLOSE wait for the core to be in S_Idle, with the *)
(* server deaf meanwhile, so each is two steps: the datagram stays at the     *)
(* head of toServer until its handler is done.  Without the screensaver       *)
(* nobody asks the core back at a repeated INIT, which then waits for ever.   *)
(*                                                                         *)
(* Commands arrive in the order they were sent, or not at all; ACKs arrive   *)
(* in any order, or not at all.  Clients run one after the other: a client   *)
(* that crashes leaves its session open and the next one starts anew.        *)
(* Whatever goes wrong (a loss, a crash, an answer later than 60 ms, a       *)
(* client that starts again) is counted in faults.                           *)
(***************************************************************************)
EXTENDS Naturals, Sequences

CONSTANTS
  XDPSettings,         \* the servers to consider: FALSE a UDP socket, TRUE AF_XDP
  ScreensaverSettings, \* TRUE: a poc remains after CLOSE, for the logo
  MaxFaults, MaxFrame, MaxQueue      \* bounds

ASSUME SessionAssumption ==
  /\ {XDPSettings, ScreensaverSettings} \subseteq SUBSET BOOLEAN
  /\ {MaxFaults, MaxFrame, MaxQueue} \subseteq Nat

VARIABLES
  doXDPServer, doScreensaver,   \* settings
  \* server
  isConnected,     \* the global of groovy.cpp
  config,          \* blitCompression and fpga_audio
  poc,             \* "none", "bare" (no modeline: bytes_len = 0) or "mode"
  ackTo,           \* the socket ACKs go to: clientaddr, or the header in sendbuf
  pc,              \* "poll", or the wait for S_Idle: "init" of setInit, "logo" of setClose
  cmd_init,        \* what groovy_FPGA_init told the core last
  fpga_init,       \* 0: the core is in S_Idle
  \* client
  phase,           \* "idle", "waiting" (in getACK(60)) or "connected"
  sock,            \* m_sockFD, 0 when closed
  sockets,         \* sockets opened so far
  wanted,          \* m_lz4Frames and m_soundChan, as booleans
  m_frame,
  fpga,            \* frameEcho and audio of the status
  \* network
  toServer,        \* commands on their way
  acks,            \* ACKs on their way
  \* what the properties and the bounds remember
  opened,          \* m_frame when the last CmdInit was called
  faults

settings    == <<doXDPServer, doScreensaver>>
fpgaVars    == <<cmd_init, fpga_init>>
serverVars  == <<settings, isConnected, config, poc, ackTo, pc, fpgaVars>>
clientVars  == <<phase, sock, sockets, wanted, m_frame, fpga>>
sessionVars == <<serverVars, clientVars, toServer, acks, opened, faults>>

Config == [lz4 : BOOLEAN, audio : BOOLEAN]
Off    == [lz4 |-> FALSE, audio |-> FALSE]

NoStatus == [frameEcho |-> 0, audio |-> FALSE]

Command(type, frame) == [type |-> type, from |-> sock, config |-> wanted, frame |-> frame]

-----------------------------------------------------------------------------
(* The server *)

(* groovy_poll and process_packet_eth: the socket that ACKs go to from the    *)
(* datagram m on.  recvfrom takes it from every datagram; AF_XDP keeps the    *)
(* header of the datagram that found no client connected.                     *)
AckAddress(m) == IF doXDPServer /\ isConnected THEN ackTo ELSE m.from

(* sendACK *)
Ack(to, frame, cfg) ==
  acks' = acks \union {[to |-> to, frame |-> frame, audio |-> cfg.audio]}

(* Two wrong ones: a session that is open keeps its compression; the core is  *)
(* not asked back.                                                           *)
setInit_FirstConfig(m) ==
  /\ isConnected' = TRUE
  /\ config' = IF isConnected THEN config ELSE [config EXCEPT !.lz4 = m.config.lz4]
  /\ poc' = "bare"
  /\ cmd_init' = IF doScreensaver THEN 0 ELSE cmd_init
  /\ pc' = "init"
  /\ UNCHANGED <<toServer, acks>>

setInit_KeepsCore(m) ==
  /\ isConnected' = TRUE
  /\ config' = [config EXCEPT !.lz4 = m.config.lz4]
  /\ poc' = "bare"
  /\ cmd_init' = cmd_init
  /\ pc' = "init"
  /\ UNCHANGED <<toServer, acks>>

(* setInit up to the wait for S_Idle: the core is asked back from the logo.   *)
setInit(m) ==
  /\ isConnected' = TRUE
  /\ config' = [config EXCEPT !.lz4 = m.config.lz4]
  /\ poc' = "bare"
  /\ cmd_init' = IF doScreensaver THEN 0 ELSE cmd_init
  /\ pc' = "init"
  /\ UNCHANGED <<toServer, acks>>

(* Wrong: the compression of the session survives it. *)
setClose_KeepsConfig(m) ==
  /\ isConnected' = FALSE
  /\ config' = config
  /\ poc' = IF doScreensaver THEN "bare" ELSE "none"
  /\ cmd_init' = 0
  /\ IF doScreensaver THEN pc' = "logo" /\ toServer' = toServer
                      ELSE pc' = pc /\ toServer' = Tail(toServer)
  /\ acks' = acks

(* setClose, up to the wait of loadLogo when there is a logo.                 *)
setClose(m) ==
  /\ isConnected' = FALSE
  /\ config' = IF doScreensaver THEN [config EXCEPT !.lz4 = FALSE] ELSE Off
  /\ poc' = IF doScreensaver THEN "bare" ELSE "none"
  /\ cmd_init' = 0
  /\ IF doScreensaver THEN pc' = "logo" /\ toServer' = toServer
                      ELSE pc' = pc /\ toServer' = Tail(toServer)
  /\ acks' = acks

setSwitchres(m) ==
  /\ poc' = IF poc = "none" THEN "none" ELSE "mode"
  /\ toServer' = Tail(toServer)
  /\ UNCHANGED <<isConnected, config, acks, pc, cmd_init>>

(* A BLIT without a modeline is refused, and one without a compressed size in *)
(* a compressed session.                                                     *)
setBlit(m) ==
  /\ IF poc = "mode" /\ (config.lz4 => m.config.lz4)
     THEN Ack(AckAddress(m), m.frame, config) ELSE acks' = acks
  /\ toServer' = Tail(toServer)
  /\ UNCHANGED <<isConnected, config, poc, pc, cmd_init>>

(* groovy_poll: the next datagram. *)
Serve ==
  /\ pc = "poll" /\ toServer # <<>>
  /\ LET m == Head(toServer) IN
     /\ ackTo' = AckAddress(m)
     /\ \/ m.type = "INIT"      /\ setInit(m)
        \/ m.type = "CLOSE"     /\ setClose(m)
        \/ m.type = "SWITCHRES" /\ setSwitchres(m)
        \/ m.type = "BLIT"      /\ setBlit(m)
  /\ UNCHANGED <<settings, fpga_init, clientVars, opened, faults>>

(* Wrong: the cached state of the sound is not updated. *)
InitDone_StaleAudio ==
  /\ pc = "init" /\ fpga_init = 0
  /\ config' = config
  /\ cmd_init' = 1
  /\ Ack(ackTo, 0, config')
  /\ pc' = "poll" /\ toServer' = Tail(toServer)
  /\ UNCHANGED <<settings, isConnected, poc, ackTo, fpga_init, clientVars, opened, faults>>

(* The rest of setInit, once the core is in S_Idle, and sendACK.              *)
InitDone ==
  /\ pc = "init" /\ fpga_init = 0
  /\ config' = [config EXCEPT !.audio = Head(toServer).config.audio]
  /\ cmd_init' = 1
  /\ Ack(ackTo, 0, config')
  /\ pc' = "poll" /\ toServer' = Tail(toServer)
  /\ UNCHANGED <<settings, isConnected, poc, ackTo, fpga_init, clientVars, opened, faults>>

(* The rest of loadLogo, and of setClose.                                     *)
LogoStart ==
  /\ pc = "logo" /\ fpga_init = 0
  /\ config' = [config EXCEPT !.audio = FALSE]
  /\ cmd_init' = 1
  /\ pc' = "poll" /\ toServer' = Tail(toServer)
  /\ UNCHANGED <<settings, isConnected, poc, ackTo, fpga_init, clientVars, acks, opened,
                 faults>>

(* The core leaves S_Idle, and comes back to it, as it was told.              *)
FpgaFollows ==
  /\ fpga_init # cmd_init /\ fpga_init' = cmd_init
  /\ UNCHANGED <<settings, isConnected, config, poc, ackTo, pc, cmd_init, clientVars, toServer,
                 acks, opened, faults>>

(* setInit waits for a core that nobody has told to come back.                *)
WaitsForEver == pc = "init" /\ cmd_init = 1 /\ fpga_init = 1

-----------------------------------------------------------------------------
(* The client *)

(* CmdClose sends CLOSE when a session is open, and closes the socket.        *)
Goodbye == IF phase = "connected" THEN <<Command("CLOSE", 0)>> ELSE <<>>

(* Wrong: the socket is kept. *)
NewSocket_Kept == 1

(* The socket of a new CmdInit. *)
NewSocket == sockets + 1

(* CmdInit, up to the wait for the ACK.  Starting again from an open session   *)
(* counts as a fault only to bound it.  There are MaxFaults + 1 attempts: one  *)
(* more than those that can fail by a fault.                                  *)
CmdInit(cfg) ==
  /\ phase # "waiting" /\ sockets <= MaxFaults
  /\ phase = "connected" => faults < MaxFaults
  /\ faults' = IF phase = "connected" THEN faults + 1 ELSE faults
  /\ phase' = "waiting"
  /\ sock' = NewSocket /\ sockets' = sockets + 1
  /\ wanted' = cfg /\ opened' = m_frame
  /\ toServer' = toServer \o Goodbye
                   \o <<[type |-> "INIT", from |-> sock', config |-> cfg, frame |-> 0]>>
  /\ UNCHANGED <<serverVars, m_frame, fpga, acks>>

(* setFpgaStatus, for an ACK of a newer frame than the status.                *)
Status(a) ==
  IF a.frame > fpga.frameEcho
  THEN [frameEcho |-> a.frame, audio |-> a.audio] ELSE fpga

(* getACK reads an ACK from the socket: in CmdInit any ACK will do, later it  *)
(* is called while the last frame has no ACK (DiffTimeRaster).                *)
getACK(a) ==
  /\ a.to = sock
  /\ \/ phase = "waiting"
     \/ phase = "connected" /\ m_frame # fpga.frameEcho
  /\ acks' = acks \ {a}
  /\ fpga' = Status(a)
  /\ phase' = "connected"
  /\ UNCHANGED <<serverVars, sock, sockets, wanted, m_frame, toServer, opened, faults>>

(* No ACK within 60 ms: CmdInit gives up.  An answer is later than that only  *)
(* by a fault, unless none is to come.                                       *)
Answering == (~WaitsForEver /\ \E i \in 1 .. Len(toServer) : toServer[i].from = sock)
             \/ \E a \in acks : a.to = sock

InitTimeout ==
  /\ phase = "waiting"
  /\ Answering => faults < MaxFaults
  /\ faults' = IF Answering THEN faults + 1 ELSE faults
  /\ phase' = "idle" /\ sock' = 0
  /\ UNCHANGED <<serverVars, sockets, wanted, m_frame, fpga, toServer, acks, opened>>

(* CmdSwitchres and CmdBlit; a new session has to set its modeline.           *)
CmdSwitchres ==
  /\ phase = "connected" /\ Len(toServer) < MaxQueue
  /\ toServer' = Append(toServer, Command("SWITCHRES", 0))
  /\ UNCHANGED <<serverVars, clientVars, acks, opened, faults>>

CmdBlit ==
  /\ phase = "connected" /\ m_frame < MaxFrame /\ Len(toServer) < MaxQueue
  /\ m_frame' = m_frame + 1
  /\ toServer' = Append(toServer, Command("BLIT", m_frame + 1))
  /\ UNCHANGED <<serverVars, phase, sock, sockets, wanted, fpga, acks, opened, faults>>

(* The client ends: by gmw_close, which deletes the object, or by a crash     *)
(* (orderly = FALSE).  The next one numbers its frames from the start.        *)
End(orderly) ==
  /\ faults < MaxFaults /\ faults' = faults + 1
  /\ phase' = "idle" /\ sock' = 0
  /\ m_frame' = 0 /\ opened' = 0 /\ fpga' = NoStatus
  /\ toServer' = IF orderly THEN toServer \o Goodbye ELSE toServer
  /\ UNCHANGED <<serverVars, sockets, wanted, acks>>

-----------------------------------------------------------------------------
(* The network *)

(* A command is lost before the server reads it, or an ACK.                   *)
Lose ==
  /\ faults < MaxFaults /\ faults' = faults + 1
  /\ \/ /\ toServer # <<>> /\ pc = "poll"
        /\ toServer' = Tail(toServer) /\ acks' = acks
     \/ /\ \E a \in acks : acks' = acks \ {a}
        /\ toServer' = toServer
  /\ UNCHANGED <<serverVars, clientVars, opened>>

-----------------------------------------------------------------------------
SessionInit ==
  /\ doXDPServer \in XDPSettings /\ doScreensaver \in ScreensaverSettings
  /\ isConnected = FALSE /\ config = Off /\ ackTo = 0
  /\ poc = "bare"            \* groovy_map_ddr allocates it
  /\ pc = "poll" /\ cmd_init = (IF doScreensaver THEN 1 ELSE 0) /\ fpga_init = cmd_init
  /\ phase = "idle" /\ sock = 0 /\ sockets = 0 /\ wanted = Off
  /\ m_frame = 0 /\ fpga = NoStatus
  /\ toServer = <<>> /\ acks = {} /\ opened = 0 /\ faults = 0

Start == \E cfg \in Config : CmdInit(cfg)
Listen == \E a \in acks : getACK(a)
Resume == InitDone \/ LogoStart

SessionNext ==
  \/ Serve \/ Resume \/ FpgaFollows
  \/ Start \/ Listen \/ InitTimeout \/ CmdSwitchres \/ CmdBlit
  \/ \E orderly \in BOOLEAN : End(orderly)
  \/ Lose

(* The poll loop of the server runs for ever, and so does the core; getACK    *)
(* polls until it has an ACK or 60 ms are over; an application without a      *)
(* session tries again.                                                      *)
SessionSpec ==
  /\ SessionInit /\ [][SessionNext]_sessionVars
  /\ WF_sessionVars(Serve) /\ WF_sessionVars(Resume) /\ WF_sessionVars(FpgaFollows)
  /\ WF_sessionVars(Listen)
  /\ WF_sessionVars(InitTimeout)
  /\ WF_sessionVars(phase = "idle" /\ Start)

-----------------------------------------------------------------------------
(* Properties *)

SessionTypeOK ==
  /\ {doXDPServer, doScreensaver} \subseteq BOOLEAN
  /\ isConnected \in BOOLEAN /\ config \in Config /\ wanted \in Config
  /\ poc \in {"none", "bare", "mode"}
  /\ phase \in {"idle", "waiting", "connected"}
  /\ pc \in {"poll", "init", "logo"} /\ {cmd_init, fpga_init} \subseteq {0, 1}
  /\ ~isConnected => config = (IF pc = "logo" THEN [config EXCEPT !.lz4 = FALSE] ELSE Off)
  /\ isConnected => poc # "none"
  /\ (sock = 0) = (phase = "idle") /\ sock <= sockets /\ ackTo <= sockets
  /\ fpga \in [frameEcho : 0 .. MaxFrame, audio : BOOLEAN]
  /\ \A a \in acks : a.to \in 1 .. sockets /\ a.frame \in 0 .. MaxFrame

(* A client whose CmdInit returned 0 has the session it asked for: the server *)
(* is connected, with its compression and its sound, and answers to its       *)
(* socket.  A late answer to an earlier INIT is never taken for this one's.   *)
SessionAgreement ==
  phase = "connected" =>
    /\ isConnected /\ config = wanted /\ ackTo = sock

(* The frame the client believes acknowledged is one it sent: the raster      *)
(* synchronisation (DiffTimeRaster) never aims at a frame of another session. *)
EchoIsMine == fpga.frameEcho <= m_frame

(* Once a frame of the session is acknowledged the client knows whether the   *)
(* sound it asked for is on, which is what CmdAudio looks at, though an ACK   *)
(* may be late and the status may be left from an earlier session.            *)
SoundKnownByFrame ==
  phase = "connected" /\ fpga.frameEcho > opened => fpga.audio = wanted.audio

(* Stated by groovymister.h, "Data received after CmdInit and CmdBlit calls", *)
(* and not so: the status of a client that is connected says whether sound is *)
(* on.                                                                        *)
SoundKnownAfterInit == phase = "connected" => fpga.audio = wanted.audio

(* Whatever was lost and whichever client crashed, a client that keeps trying *)
(* gets its session over UDP: CmdInit fails only by a fault of its own        *)
(* attempt, so that MaxFaults + 1 attempts are enough.  Only the wait of      *)
(* setInit for a core nobody asked back can keep it out, which takes a        *)
(* server without the screensaver and a session left open.                    *)
ReconnectsOverUDP ==
  ~doXDPServer => []<>(phase = "connected" \/ (WaitsForEver /\ ~doScreensaver))

(* Stated by "set headers preparing send acks", and not so over AF_XDP.       *)
Reconnects == []<>(phase = "connected")
=============================================================================
