----------------------------- MODULE InputStream -----------------------------
(***************************************************************************)
(* The inputs of the player: the server (groovy.cpp) reports the joysticks  *)
(* and the keyboard and mouse of the board to the client, which keeps the   *)
(* last report of each (groovymister.cpp, groovymister_wrapper.cpp).        *)
(*                                                                         *)
(* A report carries the whole state of a device and a stamp: the frame      *)
(* shown and an order within it.  The client drops a report whose stamp is  *)
(* not greater than that of the report it holds, which is its only defence  *)
(* against datagrams that are late.                                         *)
(*                                                                         *)
(* Joystick and PS/2 are the same code twice, with a digital part (buttons, *)
(* keys) that is always reported and an analog part (sticks, mouse) that is *)
(* reported when the device's option is 2.                                  *)
(*                                                                         *)
(* A call of the client and the handling of the datagram it sends are one   *)
(* step: the datagrams whose order matters here are the reports.  The client *)
(* is the C wrapper, as RetroArch uses it.                                   *)
(*                                                                         *)
(* Input events and groovy_poll run in the main loop of MiSTer, one after    *)
(* the other (user_io_poll): no event happens while a reception keeps the    *)
(* core (receiving).                                                         *)
(*                                                                         *)
(* What the server sends it may not be able to send: sendto fails, and over *)
(* AF_XDP the TX ring has no free slot (groovy_note_xdp_tx_drop).  The code *)
(* has then already counted the report as made.  An ACK the ring refuses    *)
(* ends sendACK before it repeats anything.                                 *)
(***************************************************************************)
EXTENDS Naturals, Sequences

CONSTANTS
  Devices,      \* {"joystick", "ps2"}
  DoInputs,     \* doJoyInputs, doPs2Inputs: 0 off, 1 digital, 2 analog too
  doXDPServer,  \* TRUE: inputs come with AF_XDP, FALSE: from a UDP socket
  hpsBlit,      \* 0: a frame is shown at its BLIT, 1: when it is complete
  OrderMod,     \* 256: the order is a uint8_t
  Wraps,        \* FALSE: fewer than OrderMod events happen between two BLITs
  KeepAliveFrames,  \* KEEP_ALIVE_FRAMES
  Values,       \* what a device may say; 0 is "nothing pressed"
  MaxFrame, MaxSent, MaxSockets, MaxLost     \* bounds

ASSUME InputAssumption ==
  /\ DoInputs \in [Devices -> 0 .. 2] /\ doXDPServer \in BOOLEAN
  /\ hpsBlit \in {0, 1} /\ Wraps \in BOOLEAN
  /\ OrderMod \in Nat \ {0} /\ KeepAliveFrames \in Nat \ {0}
  /\ 0 \in Values

VARIABLES
  \* server
  poc,                \* the input half of poc by device, and the frame numbers
  hasPoc,             \* poc # nullptr
  modeline,           \* poc->PoC_bytes_len > 0
  receiving,          \* isCorePriority: the poll loop has the core
  isConnectedInputs,
  clientaddrInputs,   \* the socket reports are sent to
  inputsQueue,        \* UDP: datagrams waiting at sockfdInputs, by their sender
  \* client
  gmw,                \* the object of the wrapper exists
  gmw_inputsBinded,
  sockInputs,         \* m_sockInputsFD, 0 when closed
  sockets,            \* sockets opened so far
  isConnected,        \* m_isConnected
  modeConfigured,     \* m_modeConfigured
  frame,              \* the frame number of the application
  held,               \* joyInputs and ps2Inputs
  \* network, and what the properties remember
  net,                \* reports on their way
  sent,               \* reports made so far
  lost,               \* losses so far: of the network, and of a send that fails
  last,               \* by device: the last report made, and whether it was lost
  unanswered          \* BLITs in a row whose ACK the TX ring refused

serverVars == <<poc, hasPoc, modeline, receiving, isConnectedInputs, clientaddrInputs,
                inputsQueue>>
clientVars == <<gmw, gmw_inputsBinded, sockInputs, sockets, isConnected,
                modeConfigured, frame>>
netVars    == <<net, sent, lost, last, unanswered>>
inputVars  == <<serverVars, clientVars, held, netVars>>

Neutral == [order |-> 0, keep_alive |-> 0, digital |-> 0, analog |-> 0]
ZeroPoc == [frame_recv |-> 0, frame_ddr |-> 0, dev |-> [d \in Devices |-> Neutral]]

NoReport == [to |-> 0, dev |-> "none", frame |-> 0, order |-> 0, digital |-> 0,
             analog |-> 0, seq |-> 0]
NothingHeld == [d \in Devices |-> NoReport]

-----------------------------------------------------------------------------
(* The server: reports *)

(* groovy_send_joysticks and groovy_send_ps2: the report of d in state p.     *)
Report(p, d, n) ==
  [to |-> clientaddrInputs, dev |-> d, frame |-> p.frame_ddr,
   order |-> p.dev[d].order, digital |-> p.dev[d].digital,
   analog |-> IF DoInputs[d] = 2 THEN p.dev[d].analog ELSE 0, seq |-> n]

(* The reports of ds in state p are made, and those of out can be sent.       *)
MakeReports(p, ds, out) ==
  /\ sent + 1 <= MaxSent /\ (out = ds \/ lost < MaxLost)
  /\ sent' = IF ds = {} THEN sent ELSE sent + 1
  /\ net' = net \union {Report(p, d, sent + 1) : d \in out}
  /\ last' = [d \in Devices |->
                IF d \in ds THEN [report |-> Report(p, d, sent + 1), lost |-> d \notin out]
                            ELSE last[d]]
  /\ lost' = IF out = ds THEN lost ELSE lost + 1

(* The state p, after the reports of the devices ds: each starts the count of *)
(* its keep-alive again, whether or not it can be sent.                       *)
Send(p, ds) ==
  /\ \E out \in SUBSET ds : MakeReports(p, ds, out)
  /\ poc' = [p EXCEPT !.dev = [d \in Devices |->
                IF d \in ds THEN [p.dev[d] EXCEPT !.keep_alive = 0] ELSE p.dev[d]]]

Reported == {d \in Devices : isConnectedInputs /\ DoInputs[d] # 0}

(* Wrong: the centre of a stick taken for 128, as if its values were unsigned. *)
Cleared_Unsigned(p) ==
  [p EXCEPT !.dev = [d \in Devices |->
     [p.dev[d] EXCEPT !.digital = 0, !.analog = 128]]]

(* groovy_clear_input_state *)
Cleared(p) ==
  [p EXCEPT !.dev = [d \in Devices |->
     [p.dev[d] EXCEPT !.digital = 0, !.analog = 0]]]

NextOrder(p, ds) ==
  [p EXCEPT !.dev = [d \in Devices |->
     IF d \in ds THEN [p.dev[d] EXCEPT !.order = (@ + 1) % OrderMod] ELSE p.dev[d]]]

(* groovy_neutralize_inputs, before poc becomes what the caller makes of it.  *)
Neutralize(p) ==
  LET q  == NextOrder(Cleared(poc), Reported)
      ds == {d \in Reported : hasPoc}
  IN /\ \E out \in SUBSET ds : MakeReports(q, ds, out)
     /\ poc' = p
     /\ unanswered' = 0

(* Fewer than OrderMod orders are used between two BLITs, unless Wraps.       *)
OrderFree(d) == Wraps \/ poc.dev[d].order + 2 < OrderMod

(* groovy_send_joystick and groovy_send_keyboard *)
Digital(d, v) ==
  /\ hasPoc /\ ~receiving /\ OrderFree(d)
  /\ Send([NextOrder(poc, {d}) EXCEPT !.dev[d].digital = v], {d} \intersect Reported)
  /\ UNCHANGED <<hasPoc, modeline, receiving, isConnectedInputs, clientaddrInputs,
                 inputsQueue, clientVars, held, unanswered>>

(* groovy_send_analog and groovy_send_mouse *)
Analog(d, v) ==
  /\ hasPoc /\ ~receiving /\ OrderFree(d)
  /\ Send([NextOrder(poc, {d}) EXCEPT !.dev[d].analog = v],
          {e \in {d} \intersect Reported : DoInputs[e] = 2})
  /\ UNCHANGED <<hasPoc, modeline, receiving, isConnectedInputs, clientaddrInputs,
                 inputsQueue, clientVars, held, unanswered>>

-----------------------------------------------------------------------------
(* Frames, as far as the inputs see them *)

(* Wrong: one BLIT late. *)
RepeatDue_Late(ticks) == ticks > KeepAliveFrames

(* sendACK repeats a report that is KeepAliveFrames BLITs old.                *)
RepeatDue(ticks) == ticks >= KeepAliveFrames

(* What sendACK repeats in state p.  Over UDP it goes on to the keep-alives    *)
(* whatever sendto returns; over AF_XDP it returns when the TX ring is full    *)
(* (answered = FALSE).  The client never asks for another ACK (GET_STATUS).   *)
KeepAlives(p, answered) ==
  {d \in Devices : answered /\ RepeatDue(p.dev[d].keep_alive)}

(* setBlit, and its sendACK.  The frame is shown at once, or its reception     *)
(* begins (shown = FALSE) and the payload ends it.                            *)
Blitted(shown, answered) ==
  LET p == [poc EXCEPT
              !.frame_recv = frame + 1,
              !.frame_ddr  = IF shown THEN frame + 1 ELSE @,
              !.dev = [d \in Devices |->
                 [poc.dev[d] EXCEPT !.order = 0,
                                    !.keep_alive = IF d \in Reported THEN @ + 1 ELSE @]]]
  IN /\ answered \/ doXDPServer
     /\ Send(p, KeepAlives(p, answered))
     /\ unanswered' = IF answered THEN 0 ELSE unanswered + 1

(* CmdSwitchres, then setSwitchres, when it is not lost.                      *)
CmdSwitchres(arrives) ==
  /\ isConnected /\ ~receiving
  /\ modeConfigured' = TRUE
  /\ modeline' = (modeline \/ (arrives /\ hasPoc))
  /\ UNCHANGED <<poc, hasPoc, receiving, isConnectedInputs, clientaddrInputs, inputsQueue,
                 gmw, gmw_inputsBinded, sockInputs, sockets, isConnected, frame, held,
                 netVars>>

(* CmdBlit.  The server refuses the frame when it knows no modeline.  A       *)
(* duplicated frame is shown at once in both modes.                           *)
CmdBlit(dup, answered) ==
  /\ isConnected /\ modeConfigured /\ frame < MaxFrame /\ ~receiving
  /\ frame' = frame + 1
  /\ IF hasPoc /\ modeline
     THEN /\ Blitted(hpsBlit = 0 \/ dup, answered)
          /\ receiving' = ~dup
     ELSE UNCHANGED <<poc, receiving, netVars>>
  /\ UNCHANGED <<hasPoc, modeline, isConnectedInputs, clientaddrInputs, inputsQueue, gmw,
                 gmw_inputsBinded, sockInputs, sockets, isConnected, modeConfigured, held>>

(* The reception of a frame ends, complete or cut by a loss; with hpsBlit the  *)
(* frame is shown only when it is complete.                                   *)
Received(complete) ==
  /\ receiving
  /\ receiving' = FALSE
  /\ poc' = IF complete THEN [poc EXCEPT !.frame_ddr = poc.frame_recv] ELSE poc
  /\ UNCHANGED <<hasPoc, modeline, isConnectedInputs, clientaddrInputs, inputsQueue,
                 clientVars, held, netVars>>

-----------------------------------------------------------------------------
(* Sessions *)

(* Wrong: the object is kept, with the inputs of the session that is over.    *)
ClientCloses_KeepsObject ==
  /\ sockInputs' = 0 /\ isConnected' = FALSE /\ modeConfigured' = FALSE
  /\ gmw' = FALSE /\ gmw_inputsBinded' = FALSE
  /\ held' = held

(* The client's half of gmw_close.                                            *)
ClientCloses ==
  /\ sockInputs' = 0 /\ isConnected' = FALSE /\ modeConfigured' = FALSE
  /\ gmw' = FALSE /\ gmw_inputsBinded' = FALSE
  /\ held' = NothingHeld

Wanted == \E d \in Devices : DoInputs[d] # 0

(* gmw_close sends CLOSE when the client is connected, closes both sockets    *)
(* and deletes the object.  A client that crashes, and a CLOSE that is lost,  *)
(* are the same without the CLOSE (told = FALSE).  setClose leaves a poc when *)
(* it draws the logo.                                                         *)
gmw_close(told) ==
  /\ gmw /\ ~receiving
  /\ ClientCloses
  /\ IF isConnected /\ told
     THEN /\ Neutralize(ZeroPoc)
          /\ hasPoc' \in BOOLEAN /\ modeline' = FALSE /\ isConnectedInputs' = FALSE
     ELSE UNCHANGED <<poc, hasPoc, modeline, isConnectedInputs, netVars>>
  /\ UNCHANGED <<receiving, clientaddrInputs, inputsQueue, sockets, frame>>

(* setInit reads one datagram at sockfdInputs for the address of the client;  *)
(* with AF_XDP the address was taken when it arrived.                         *)
ReadInputsSocket ==
  IF ~doXDPServer /\ Wanted /\ inputsQueue # <<>>
  THEN /\ clientaddrInputs' = Head(inputsQueue)
       /\ inputsQueue' = Tail(inputsQueue)
       /\ isConnectedInputs' = TRUE
  ELSE /\ UNCHANGED <<clientaddrInputs, inputsQueue>>
       /\ isConnectedInputs' = (isConnectedInputs /\ ~isConnected)

(* gmw_init.  CmdInit begins with CmdClose, which closes both sockets and     *)
(* sends CLOSE when the client was connected.  Then INIT, which is lost, or   *)
(* executed and its ACK lost or received.  The inputs of the last session are *)
(* neutralised by whichever comes first.                                      *)
gmw_init(outcome) ==
  /\ ~receiving
  /\ gmw' = TRUE /\ sockInputs' = 0
  /\ isConnected' = (outcome = "acked") /\ modeConfigured' = FALSE
  /\ frame' = 0
  /\ \/ /\ outcome # "lost"
        /\ Neutralize(ZeroPoc)
        /\ hasPoc' = TRUE /\ modeline' = FALSE
        /\ ReadInputsSocket
     \/ /\ outcome = "lost" /\ isConnected
        /\ Neutralize(ZeroPoc)
        /\ hasPoc' \in BOOLEAN /\ modeline' = FALSE /\ isConnectedInputs' = FALSE
        /\ UNCHANGED <<clientaddrInputs, inputsQueue>>
     \/ /\ outcome = "lost" /\ ~isConnected
        /\ UNCHANGED <<poc, hasPoc, modeline, isConnectedInputs, clientaddrInputs,
                       inputsQueue, netVars>>
  /\ UNCHANGED <<receiving, gmw_inputsBinded, sockets, held>>

(* gmw_bindInputs opens the socket of the inputs once per object, and tells   *)
(* the server its address: AF_XDP takes it as it comes, UDP at the next INIT. *)
gmw_bindInputs ==
  /\ ~gmw_inputsBinded /\ sockets < MaxSockets /\ ~receiving
  /\ gmw' = TRUE /\ gmw_inputsBinded' = TRUE
  /\ sockInputs' = sockets + 1 /\ sockets' = sockets + 1
  /\ IF doXDPServer
     THEN /\ IF Wanted THEN clientaddrInputs' = sockInputs' /\ isConnectedInputs' = TRUE
                       ELSE UNCHANGED <<clientaddrInputs, isConnectedInputs>>
          /\ UNCHANGED inputsQueue
     ELSE /\ inputsQueue' = Append(inputsQueue, sockInputs')
          /\ UNCHANGED <<clientaddrInputs, isConnectedInputs>>
  /\ UNCHANGED <<poc, hasPoc, modeline, receiving, isConnected, modeConfigured, frame, held,
                 netVars>>

(* groovy_stop, and the groovy_start that follows it.                         *)
StopServer ==
  /\ ~receiving
  /\ Neutralize(ZeroPoc)
  /\ hasPoc' = TRUE /\ modeline' = FALSE
  /\ isConnectedInputs' = FALSE /\ inputsQueue' = <<>>
  /\ UNCHANGED <<receiving, clientaddrInputs, clientVars, held>>

-----------------------------------------------------------------------------
(* The client: PollInputs *)

(* Wrong: the order alone, which restarts at every BLIT. *)
Newer_ByOrder(r, h) == r.order > h.order

Newer(r, h) == r.frame > h.frame \/ (r.frame = h.frame /\ r.order > h.order)

(* PollInputs, setFpgaJoystick and setFpgaPS2 for the report r.               *)
PollInputs(r) ==
  /\ net' = net \ {r}
  /\ held' = IF sockInputs # 0 /\ r.to = sockInputs /\ Newer(r, held[r.dev])
             THEN [held EXCEPT ![r.dev] =
                     [r EXCEPT !.analog = IF DoInputs[r.dev] = 2 THEN @
                                          ELSE held[r.dev].analog]]
             ELSE held
  /\ UNCHANGED <<serverVars, clientVars, sent, lost, last, unanswered>>

(* The network loses a report. *)
LoseReport(r) ==
  /\ lost < MaxLost /\ lost' = lost + 1
  /\ net' = net \ {r}
  /\ last' = IF last[r.dev].report = r THEN [last EXCEPT ![r.dev].lost = TRUE] ELSE last
  /\ UNCHANGED <<serverVars, clientVars, held, sent, unanswered>>

-----------------------------------------------------------------------------
InputInit ==
  /\ poc = ZeroPoc /\ hasPoc = TRUE /\ modeline = FALSE /\ receiving = FALSE
  /\ isConnectedInputs = FALSE /\ clientaddrInputs = 0 /\ inputsQueue = <<>>
  /\ gmw = FALSE /\ gmw_inputsBinded = FALSE /\ sockInputs = 0 /\ sockets = 0
  /\ isConnected = FALSE /\ modeConfigured = FALSE /\ frame = 0 /\ held = NothingHeld
  /\ net = {} /\ sent = 0 /\ lost = 0 /\ unanswered = 0
  /\ last = [d \in Devices |-> [report |-> NoReport, lost |-> FALSE]]

Player ==
  \E d \in Devices, v \in Values : Digital(d, v) \/ Analog(d, v)

Session ==
  \/ gmw_bindInputs \/ StopServer
  \/ \E told \in BOOLEAN : gmw_close(told)
  \/ \E outcome \in {"acked", "unacked", "lost"} : gmw_init(outcome)

Frames ==
  \/ \E dup, answered \in BOOLEAN : CmdBlit(dup, answered)
  \/ \E arrives \in BOOLEAN : CmdSwitchres(arrives)
  \/ \E complete \in BOOLEAN : Received(complete)

Reports == \E r \in net : PollInputs(r) \/ LoseReport(r)

InputNext == Player \/ Session \/ Frames \/ Reports

InputSpec == InputInit /\ [][InputNext]_inputVars
-----------------------------------------------------------------------------
(* Properties *)

InputTypeOK ==
  /\ poc \in [frame_recv : Nat, frame_ddr : Nat,
              dev : [Devices -> [order : 0 .. OrderMod - 1, keep_alive : Nat,
                                 digital : Values, analog : Values]]]
  /\ {hasPoc, modeline, receiving, isConnectedInputs, gmw, gmw_inputsBinded, isConnected,
      modeConfigured}
       \subseteq BOOLEAN
  /\ {clientaddrInputs, sockInputs, sockets, frame, sent, lost, unanswered} \subseteq Nat
  /\ \A r \in net : r.seq \in 1 .. sent /\ r.digital \in Values /\ r.analog \in Values

(* The report the client holds is never replaced by one that was sent before  *)
(* it, in whatever order the datagrams arrive: the stamps (frame, order) grow *)
(* with every report of a session, though the order restarts at every BLIT.   *)
NeverGoesBack ==
  [][\A d \in Devices :
       held'[d] # held[d] /\ held'[d] # NoReport => held'[d].seq > held[d].seq]_inputVars

(* Stated by groovymister.h, "Data with last joystick inputs received": once  *)
(* nothing is on its way, the client holds what the player does, unless the   *)
(* last report was lost.  No button stays pressed because a report that       *)
(* arrived was taken for an old one.                                          *)
LastReportHeld ==
  \A d \in Devices :
    LET r == last[d].report IN
    /\ hasPoc /\ isConnectedInputs /\ sockInputs # 0 /\ clientaddrInputs = sockInputs
    /\ r.to = sockInputs /\ ~last[d].lost /\ \A q \in net : q.dev # d
    => /\ held[d].digital = poc.dev[d].digital
       /\ DoInputs[d] = 2 => held[d].analog = poc.dev[d].analog

(* A report may be lost, so it is repeated (KEEP_ALIVE_FRAMES): over UDP no   *)
(* more than KeepAliveFrames BLITs go by before the report of a device whose   *)
(* client listens is made again.  Over AF_XDP a BLIT whose ACK the TX ring     *)
(* refuses repeats nothing, and the report is late by these BLITs alone: the   *)
(* first ACK that can be sent brings it.  No bound holds of a ring that stays  *)
(* full, nor of how many repeats in a row are lost.                            *)
RepeatedInTime ==
  \A d \in Reported : hasPoc => poc.dev[d].keep_alive < KeepAliveFrames + unanswered

(* Stated by the wrapper's header, "listen inputs from MiSTer", and not so:   *)
(* once a client has called gmw_bindInputs and gmw_init, in either order, the *)
(* server reports to the socket the client reads.                             *)
ClientListens ==
  isConnected /\ gmw_inputsBinded =>
    sockInputs # 0 /\ isConnectedInputs /\ clientaddrInputs = sockInputs
=============================================================================
