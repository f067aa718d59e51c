------------------------- MODULE ClientSession_proofs -------------------------
(***************************************************************************)
(* Proofs of the safety properties of ClientSession, for any number of       *)
(* faults, frames and commands on their way.  That a client that believes in *)
(* a session has the one it asked for rests on the socket of an attempt      *)
(* being new: until INIT is served nothing can come to it.                   *)
(***************************************************************************)
EXTENDS ClientSession, TLAPS, SequenceTheorems

-----------------------------------------------------------------------------
(* The inductive invariant *)

Message == [type : {"INIT", "CLOSE", "SWITCHRES", "BLIT"}, from : Nat,
            config : Config, frame : 0 .. MaxFrame]

Answer == [to : Nat, frame : 0 .. MaxFrame, audio : BOOLEAN]

Queued == 1 .. Len(toServer)

Typed ==
  /\ doXDPServer \in BOOLEAN /\ doScreensaver \in BOOLEAN
  /\ isConnected \in BOOLEAN /\ config \in Config /\ wanted \in Config
  /\ poc \in {"none", "bare", "mode"} /\ phase \in {"idle", "waiting", "connected"}
  /\ pc \in {"poll", "init", "logo"} /\ cmd_init \in {0, 1} /\ fpga_init \in {0, 1}
  /\ ~isConnected => config.lz4 = FALSE /\ (pc # "logo" => config = Off)
  /\ isConnected => poc # "none"
  /\ sockets \in Nat /\ sock \in 0 .. sockets /\ ackTo \in 0 .. sockets
  /\ sock = 0 <=> phase = "idle"
  /\ fpga \in [frameEcho : 0 .. MaxFrame, audio : BOOLEAN]
  /\ m_frame \in 0 .. MaxFrame /\ opened \in 0 .. m_frame
  /\ toServer \in Seq(Message) /\ acks \subseteq Answer
  /\ \A a \in acks : a.to \in 1 .. sockets
  /\ \A i \in Queued : toServer[i].from \in 1 .. sockets
  /\ phase # "idle" => sock = sockets
  /\ isConnected => ackTo # 0

(* A handler that waits has its datagram at the head of the queue, and ACKs   *)
(* go to where it came from, unless they keep going where they did.           *)
Handling ==
  pc # "poll" =>
    /\ toServer # <<>>
    /\ toServer[1].type = (IF pc = "init" THEN "INIT" ELSE "CLOSE")
    /\ pc = "init" => isConnected /\ config.lz4 = toServer[1].config.lz4
    /\ pc = "logo" => ~isConnected

(* In CmdInit only the INIT is from the new socket, and it is the last in the *)
(* queue; an answer to this socket answers it.                                *)
Waiting ==
  phase = "waiting" =>
    /\ opened = m_frame
    /\ \A i \in Queued : toServer[i].from = sock =>
         i = Len(toServer) /\ toServer[i].type = "INIT" /\ toServer[i].config = wanted
    /\ ackTo = sock => IF pc = "poll" THEN toServer = <<>> /\ isConnected /\ config = wanted
                                      ELSE toServer # <<>> /\ toServer[1].from = sock
    /\ \A a \in acks : a.to = sock =>
         pc = "poll" /\ ackTo = sock /\ a.frame = 0 /\ a.audio = wanted.audio

(* Once it returned, whatever is on its way is of this session.               *)
Following ==
  phase = "connected" =>
    /\ \A i \in Queued : /\ toServer[i].from = sock
                         /\ toServer[i].type \in {"SWITCHRES", "BLIT"}
                         /\ toServer[i].frame <= m_frame
    /\ \A a \in acks : a.to = sock => a.frame <= m_frame /\ a.audio = wanted.audio

SInv ==
  /\ Typed /\ Handling /\ Waiting /\ Following
  /\ SessionAgreement /\ EchoIsMine /\ SoundKnownByFrame

-----------------------------------------------------------------------------
(* The queue, element by element.                                            *)

LEMMA Dequeue ==
  ASSUME Typed, toServer # <<>>
  PROVE  /\ Len(toServer) \in Nat \ {0} /\ Head(toServer) = toServer[1]
         /\ toServer[1] \in Message /\ toServer[1].from \in 1 .. sockets
         /\ Tail(toServer) \in Seq(Message) /\ Len(Tail(toServer)) = Len(toServer) - 1
         /\ \A i \in 1 .. Len(Tail(toServer)) : Tail(toServer)[i] = toServer[i + 1]
<1>1. toServer \in Seq(Message) BY DEF Typed
<1>2. Len(toServer) \in Nat \ {0} BY <1>1, EmptySeq
<1>3. toServer[1] \in Message BY <1>1, <1>2, ElementOfSeq
<1>4. toServer[1].from \in 1 .. sockets BY <1>2 DEF Typed, Queued
<1> QED BY <1>1, <1>2, <1>3, <1>4, HeadTailProperties

LEMMA Enqueue ==
  ASSUME Typed, NEW m \in Message, m.from \in 1 .. sockets
  PROVE  /\ Len(toServer) \in Nat
         /\ toServer \o <<m>> \in Seq(Message)
         /\ Append(toServer, m) = toServer \o <<m>>
         /\ Len(toServer \o <<m>>) = Len(toServer) + 1
         /\ \A i \in 1 .. Len(toServer) + 1 :
              (toServer \o <<m>>)[i] = IF i <= Len(toServer) THEN toServer[i] ELSE m
<1>1. toServer \in Seq(Message) /\ Len(toServer) \in Nat
  BY LenProperties DEF Typed
<1>2. <<m>> \in Seq(Message) /\ Len(<<m>>) = 1 /\ <<m>>[1] = m
  OBVIOUS
<1>3. Append(toServer, m) = toServer \o <<m>>
  BY <1>1
<1> QED BY <1>1, <1>2, <1>3, ConcatProperties

-----------------------------------------------------------------------------
LEMMA InitInv == SessionInit => SInv
<1> SUFFICES ASSUME SessionInit PROVE SInv
  OBVIOUS
<1>1. toServer = <<>> /\ Len(toServer) = 0 /\ toServer \in Seq(Message)
  BY EmptySeq DEF SessionInit
<1>2. doXDPServer \in BOOLEAN /\ doScreensaver \in BOOLEAN
  BY SessionAssumption DEF SessionInit
<1>3. config \in Config /\ wanted \in Config /\ config = Off /\ config.lz4 = FALSE
  BY DEF SessionInit, Config, Off
<1>4. MaxFrame \in Nat
  BY SessionAssumption
<1>5. fpga \in [frameEcho : 0 .. MaxFrame, audio : BOOLEAN]
  BY <1>4 DEF SessionInit, NoStatus
<1>6. Typed
  <2>1. acks \subseteq Answer /\ \A i \in Queued : FALSE
    BY <1>1 DEF SessionInit, Queued
  <2>2. m_frame \in 0 .. MaxFrame /\ opened \in 0 .. m_frame
    BY <1>4 DEF SessionInit
  <2>3. cmd_init \in {0, 1} /\ fpga_init \in {0, 1} /\ pc = "poll"
    BY DEF SessionInit
  <2> QED
    BY <1>1, <1>2, <1>3, <1>5, <2>1, <2>2, <2>3 DEF SessionInit, Typed
<1> QED
  BY <1>6 DEF SessionInit, SInv, Handling, Waiting, Following, SessionAgreement, EchoIsMine,
              SoundKnownByFrame, NoStatus

LEMMA TypesHold == Typed => SessionTypeOK
<1> SUFFICES ASSUME Typed PROVE SessionTypeOK
  OBVIOUS
<1>1. {doXDPServer, doScreensaver} \subseteq BOOLEAN
  BY DEF Typed
<1>2. (sock = 0) = (phase = "idle")
  BY DEF Typed
<1>3. sock <= sockets /\ ackTo <= sockets
  BY DEF Typed
<1>4. \A a \in acks : a.to \in 1 .. sockets /\ a.frame \in 0 .. MaxFrame
  BY DEF Typed, Answer
<1>5. {cmd_init, fpga_init} \subseteq {0, 1}
  BY DEF Typed
<1>6. ~isConnected => config = (IF pc = "logo" THEN [config EXCEPT !.lz4 = FALSE] ELSE Off)
  BY DEF Typed, Config, Off
<1> QED
  BY <1>1, <1>2, <1>3, <1>4, <1>5, <1>6, Zenon DEF Typed, SessionTypeOK

LEMMA StutterInv == SInv /\ UNCHANGED sessionVars => SInv'
<1> SUFFICES ASSUME SInv, UNCHANGED sessionVars PROVE SInv'
  OBVIOUS
<1> QED
  BY DEF SInv, Typed, Queued, Handling, Waiting, Following, SessionAgreement,
         EchoIsMine, SoundKnownByFrame, sessionVars, serverVars, clientVars, settings,
         fpgaVars

-----------------------------------------------------------------------------
(* The answer to a datagram that is done with at once.                        *)
Answers(m) ==
  \/ acks' = acks
  \/ \E a \in Answer : /\ acks' = acks \union {a}
                       /\ a.to = ackTo' /\ a.audio = config'.audio
                       /\ m.type = "BLIT" /\ a.frame = m.frame

(* The datagram is done with, or held while its handler waits.               *)
Continues(m) ==
  \/ /\ pc' = "poll" /\ toServer' = Tail(toServer)
     /\ m.type # "INIT" /\ Answers(m)
     /\ m.type # "CLOSE" => isConnected' = isConnected /\ config' = config
     /\ ~isConnected' => config' = Off
  \/ /\ pc' = "init" /\ toServer' = toServer /\ acks' = acks
     /\ m.type = "INIT" /\ isConnected' /\ config'.lz4 = m.config.lz4
  \/ /\ pc' = "logo" /\ toServer' = toServer /\ acks' = acks
     /\ m.type = "CLOSE" /\ ~isConnected' /\ config'.lz4 = FALSE

LEMMA Served ==
  ASSUME Typed, Serve, NEW m \in Message, m = toServer[1]
  PROVE  /\ ackTo' = AckAddress(m) /\ ackTo' \in 1 .. sockets
         /\ isConnected' \in BOOLEAN /\ config' \in Config
         /\ poc' \in {"none", "bare", "mode"} /\ cmd_init' \in {0, 1}
         /\ isConnected' => poc' # "none"
         /\ Continues(m)
<1>1. toServer # <<>> /\ m = Head(toServer) /\ m.from \in 1 .. sockets /\ pc = "poll"
  BY Dequeue DEF Serve
<1>2. m.type \in {"INIT", "CLOSE", "SWITCHRES", "BLIT"} /\ m.config \in Config
      /\ m.frame \in 0 .. MaxFrame
  BY DEF Message
<1>3. ackTo' = AckAddress(m) /\ ackTo' \in 1 .. sockets
  BY <1>1 DEF Serve, AckAddress, Typed
<1>4. ASSUME NEW f \in 0 .. MaxFrame, NEW cfg \in Config, Ack(AckAddress(m), f, cfg)
      PROVE  /\ [to |-> ackTo', frame |-> f, audio |-> cfg.audio] \in Answer
             /\ acks' = acks \union {[to |-> ackTo', frame |-> f, audio |-> cfg.audio]}
  BY <1>3, <1>4 DEF Ack, Answer, Config, Typed
<1>5. CASE m.type = "INIT" /\ setInit(m)
  <2>1. isConnected' = TRUE /\ poc' = "bare" /\ pc' = "init" /\ cmd_init' \in {0, 1}
        /\ toServer' = toServer /\ acks' = acks
    BY <1>5 DEF setInit, Typed
  <2>2. config' \in Config /\ config'.lz4 = m.config.lz4
    BY <1>2, <1>5 DEF setInit, Typed, Config
  <2> QED
    BY <1>3, <1>5, <2>1, <2>2 DEF Continues
<1>6. CASE m.type = "CLOSE" /\ setClose(m)
  <2>1. isConnected' = FALSE /\ poc' \in {"none", "bare"} /\ cmd_init' = 0 /\ acks' = acks
    BY <1>6 DEF setClose
  <2>2. CASE doScreensaver
    <3>1. config' \in Config /\ config'.lz4 = FALSE /\ pc' = "logo" /\ toServer' = toServer
      BY <1>6, <2>2 DEF setClose, Typed, Config
    <3> QED
      BY <1>3, <1>6, <2>1, <3>1 DEF Continues
  <2>3. CASE ~doScreensaver
    <3>1. config' = Off /\ Off \in Config /\ pc' = "poll" /\ toServer' = Tail(toServer)
      BY <1>1, <1>6, <2>3 DEF setClose, Off, Config
    <3> QED
      BY <1>3, <1>6, <2>1, <3>1 DEF Continues, Answers
  <2> QED
    BY <2>2, <2>3
<1>7. CASE m.type = "SWITCHRES" /\ setSwitchres(m)
  <2>1. isConnected' = isConnected /\ config' = config /\ acks' = acks /\ pc' = "poll"
        /\ toServer' = Tail(toServer) /\ cmd_init' = cmd_init
        /\ poc' \in {"none", "mode"} /\ (poc # "none" => poc' # "none")
    BY <1>1, <1>7 DEF setSwitchres
  <2> QED
    BY <1>1, <1>3, <1>7, <2>1 DEF Answers, Typed, Continues
<1>8. CASE m.type = "BLIT" /\ setBlit(m)
  <2>1. isConnected' = isConnected /\ config' = config /\ poc' = poc /\ config \in Config
        /\ pc' = "poll" /\ toServer' = Tail(toServer) /\ cmd_init' = cmd_init
    BY <1>1, <1>8 DEF setBlit, Typed
  <2>2. Answers(m)
    BY <1>2, <1>4, <1>8, <2>1 DEF setBlit, Answers
  <2> QED
    BY <1>1, <1>3, <1>8, <2>1, <2>2 DEF Typed, Continues
<1> QED
  BY <1>1, <1>5, <1>6, <1>7, <1>8 DEF Serve

(* While a client follows its session no handler waits.                      *)
LEMMA ConnectedPolls == ASSUME SInv, phase = "connected" PROVE pc = "poll"
<1> SUFFICES ASSUME pc # "poll" PROVE FALSE
  OBVIOUS
<1>1. toServer # <<>> /\ toServer[1].type \in {"INIT", "CLOSE"}
  BY DEF SInv, Handling
<1>2. 1 \in Queued
  BY <1>1, Dequeue DEF SInv, Queued
<1> QED
  BY <1>1, <1>2 DEF SInv, Following

LEMMA ServeInv == SInv /\ Serve => SInv'
<1> SUFFICES ASSUME SInv, Serve PROVE SInv'
  OBVIOUS
<1> DEFINE m == toServer[1]
<1>1. Typed /\ toServer # <<>> /\ pc = "poll"
  BY DEF SInv, Serve
<1>2. /\ Len(toServer) \in Nat \ {0}
      /\ m \in Message /\ m.from \in 1 .. sockets
      /\ Tail(toServer) \in Seq(Message) /\ Len(Tail(toServer)) = Len(toServer) - 1
      /\ \A i \in 1 .. Len(Tail(toServer)) : Tail(toServer)[i] = toServer[i + 1]
  BY <1>1, Dequeue
<1>3. /\ ackTo' = AckAddress(m) /\ ackTo' \in 1 .. sockets
      /\ isConnected' \in BOOLEAN /\ config' \in Config
      /\ poc' \in {"none", "bare", "mode"} /\ cmd_init' \in {0, 1}
      /\ isConnected' => poc' # "none"
      /\ Continues(m)
  BY <1>1, <1>2, Served
<1>4. UNCHANGED <<doXDPServer, doScreensaver, fpga_init, phase, sock, sockets, wanted, m_frame,
                  fpga, opened>>
  BY DEF Serve, clientVars, settings
<1>5. m = toServer[1] /\ 1 \in Queued
  BY <1>2 DEF Queued
<1> HIDE DEF m
<1>6. EchoIsMine' /\ SoundKnownByFrame'
  BY <1>4 DEF SInv, EchoIsMine, SoundKnownByFrame
<1>7. phase = "waiting" =>
        /\ m.from = sock => m.type = "INIT" /\ m.config = wanted
        /\ ackTo # sock /\ (ackTo' = sock => m.from = sock)
  <2> SUFFICES ASSUME phase = "waiting"
               PROVE  /\ m.from = sock => m.type = "INIT" /\ m.config = wanted
                      /\ ackTo # sock /\ (ackTo' = sock => m.from = sock)
    OBVIOUS
  <2>1. m.from = sock => m.type = "INIT" /\ m.config = wanted
    BY <1>5 DEF SInv, Waiting
  <2>2. ackTo # sock
    BY <1>1 DEF SInv, Waiting
  <2> QED
    BY <1>3, <2>1, <2>2 DEF AckAddress
<1>8. phase = "connected" => m.from = sock /\ m.type \in {"SWITCHRES", "BLIT"}
                             /\ m.frame <= m_frame
  BY <1>5 DEF SInv, Following
<1>9. CASE pc' # "poll"
  <2>1. /\ toServer' = toServer /\ acks' = acks
        /\ \/ pc' = "init" /\ m.type = "INIT" /\ isConnected' /\ config'.lz4 = m.config.lz4
           \/ pc' = "logo" /\ m.type = "CLOSE" /\ ~isConnected' /\ config'.lz4 = FALSE
    BY <1>3, <1>9 DEF Continues
  <2>2. phase # "connected"
    BY <1>8, <2>1
  <2>3. Typed'
    BY <1>1, <1>3, <1>4, <2>1 DEF Typed, Queued
  <2>4. Handling'
    BY <1>1, <1>5, <2>1 DEF Handling
  <2>5. Waiting'
    <3> SUFFICES ASSUME phase = "waiting" PROVE Waiting'
      BY <1>4 DEF Waiting
    <3>1. \A a \in acks : a.to # sock
      BY <1>7 DEF SInv, Waiting
    <3> QED
      BY <1>1, <1>4, <1>5, <1>7, <1>9, <2>1, <3>1 DEF SInv, Waiting, Queued
  <2> QED
    BY <1>4, <1>6, <2>2, <2>3, <2>4, <2>5 DEF SInv, Following, SessionAgreement
<1>10. CASE pc' = "poll"
  <2>1. /\ toServer' = Tail(toServer) /\ m.type # "INIT" /\ Answers(m)
        /\ m.type # "CLOSE" => isConnected' = isConnected /\ config' = config
        /\ ~isConnected' => config' = Off
    BY <1>3, <1>10 DEF Continues
  <2>2. /\ Len(toServer') = Len(toServer) - 1 /\ toServer' \in Seq(Message)
        /\ \A i \in Queued' : i \in 1 .. Len(toServer') /\ i + 1 \in Queued
                                /\ toServer'[i] = toServer[i + 1]
    BY <1>2, <2>1 DEF Queued
  <2>3. Typed'
    <3>1. acks' \subseteq Answer /\ \A a \in acks' : a.to \in 1 .. sockets
      BY <1>1, <1>3, <2>1 DEF Answers, Typed
    <3>2. \A i \in Queued' : toServer'[i].from \in 1 .. sockets
      BY <1>1, <2>2 DEF Typed
    <3>3. ~isConnected' => config'.lz4 = FALSE
      BY <2>1 DEF Off
    <3> QED
      BY <1>1, <1>3, <1>4, <1>10, <2>1, <2>2, <3>1, <3>2, <3>3 DEF Typed
  <2>4. Handling'
    BY <1>10 DEF Handling
  <2>5. Waiting'
    <3> SUFFICES ASSUME phase = "waiting" PROVE Waiting'
      BY <1>4 DEF Waiting
    <3>1. ackTo' # sock
      BY <1>7, <2>1
    <3>2. \A i \in Queued' : toServer'[i].from = sock =>
            i = Len(toServer') /\ toServer'[i].type = "INIT" /\ toServer'[i].config = wanted
      <4> SUFFICES ASSUME NEW i \in Queued', toServer'[i].from = sock
                   PROVE  /\ i = Len(toServer')
                          /\ toServer'[i].type = "INIT" /\ toServer'[i].config = wanted
        OBVIOUS
      <4>1. i + 1 = Len(toServer) /\ toServer'[i].type = "INIT" /\ toServer'[i].config = wanted
        BY <2>2 DEF SInv, Waiting
      <4> QED
        BY <1>2, <2>2, <4>1
    <3>3. \A a \in acks' : a.to # sock
      <4>1. \A a \in acks : a.to # sock
        BY <1>7 DEF SInv, Waiting
      <4> QED
        BY <2>1, <3>1, <4>1 DEF Answers
    <3> QED
      BY <1>4, <3>1, <3>2, <3>3 DEF SInv, Waiting
  <2>6. Following' /\ SessionAgreement'
    <3> SUFFICES ASSUME phase = "connected" PROVE Following' /\ SessionAgreement'
      BY <1>4 DEF Following, SessionAgreement
    <3>1. isConnected' /\ config' = wanted /\ ackTo' = sock
      <4>1. isConnected /\ config = wanted /\ ackTo = sock
        BY DEF SInv, SessionAgreement
      <4>2. ackTo' \in {ackTo, m.from}
        BY <1>3 DEF AckAddress
      <4> QED
        BY <1>8, <2>1, <4>1, <4>2
    <3>2. \A i \in Queued' : /\ toServer'[i].from = sock
                             /\ toServer'[i].type \in {"SWITCHRES", "BLIT"}
                             /\ toServer'[i].frame <= m_frame
      BY <2>2 DEF SInv, Following
    <3>3. \A a \in acks' : a.to = sock => a.frame <= m_frame /\ a.audio = wanted.audio
      BY <1>8, <2>1, <3>1 DEF SInv, Following, Answers
    <3> QED
      BY <1>4, <3>1, <3>2, <3>3 DEF Following, SessionAgreement
  <2> QED
    BY <1>6, <2>3, <2>4, <2>5, <2>6 DEF SInv
<1> QED
  BY <1>9, <1>10

(* The wait of a handler is over: its datagram leaves the queue, and INIT is   *)
(* answered with the settings it asked for.                                   *)
LEMMA ResumeInv == SInv /\ Resume => SInv'
<1> SUFFICES ASSUME SInv, Resume PROVE SInv'
  OBVIOUS
<1> DEFINE m == toServer[1]
<1>1. Typed /\ pc \in {"init", "logo"} /\ toServer # <<>>
  BY DEF SInv, Handling, Resume, InitDone, LogoStart
<1>2. /\ Len(toServer) \in Nat \ {0}
      /\ m \in Message /\ m = Head(toServer)
      /\ Tail(toServer) \in Seq(Message) /\ Len(Tail(toServer)) = Len(toServer) - 1
      /\ \A i \in 1 .. Len(Tail(toServer)) : Tail(toServer)[i] = toServer[i + 1]
  BY <1>1, Dequeue
<1>3. /\ pc' = "poll" /\ cmd_init' = 1 /\ toServer' = Tail(toServer)
      /\ UNCHANGED <<doXDPServer, doScreensaver, isConnected, poc, ackTo, fpga_init, phase,
                     sock, sockets, wanted, m_frame, fpga, opened>>
  BY DEF Resume, InitDone, LogoStart, clientVars, settings
<1>4. phase # "connected"
  BY <1>1, ConnectedPolls
<1>5. /\ Len(toServer') = Len(toServer) - 1 /\ toServer' \in Seq(Message)
      /\ \A i \in Queued' : i \in 1 .. Len(toServer') /\ i + 1 \in Queued
                              /\ toServer'[i] = toServer[i + 1]
  BY <1>2, <1>3 DEF Queued
<1>6. m = toServer[1] /\ 1 \in Queued /\ m.config \in Config
  BY <1>2 DEF Queued, Message
<1> HIDE DEF m
<1>7. /\ config' \in Config
      /\ \/ /\ pc = "init" /\ config' = m.config /\ isConnected /\ m.type = "INIT"
            /\ acks' = acks \union {[to |-> ackTo, frame |-> 0, audio |-> m.config.audio]}
         \/ /\ pc = "logo" /\ config' = Off /\ acks' = acks /\ ~isConnected /\ m.type = "CLOSE"
  <2>1. CASE InitDone
    <3>1. isConnected /\ config.lz4 = m.config.lz4 /\ m.type = "INIT" /\ config \in Config
      BY <1>1, <1>6, <2>1 DEF InitDone, SInv, Handling, Typed
    <3>2. config' = [config EXCEPT !.audio = m.config.audio]
      BY <1>2, <1>6, <2>1 DEF InitDone
    <3>3. config' = m.config
      BY <1>6, <3>1, <3>2 DEF Config
    <3> QED
      BY <1>6, <2>1, <3>1, <3>3 DEF InitDone, Ack
  <2>2. CASE LogoStart
    <3>1. ~isConnected /\ config.lz4 = FALSE /\ config \in Config /\ m.type = "CLOSE"
      BY <1>1, <1>6, <2>2 DEF LogoStart, SInv, Handling, Typed
    <3>2. config' = Off
      BY <2>2, <3>1 DEF LogoStart, Config, Off
    <3> QED
      BY <2>2, <3>1, <3>2 DEF LogoStart, Config, Off
  <2> QED
    BY <2>1, <2>2 DEF Resume
<1>8. Typed'
  <2>1. isConnected => ackTo \in 1 .. sockets
    BY <1>1 DEF Typed
  <2>2. acks' \subseteq Answer /\ \A a \in acks' : a.to \in 1 .. sockets
    BY <1>1, <1>6, <1>7, <2>1, SessionAssumption DEF Typed, Answer, Config
  <2>3. \A i \in Queued' : toServer'[i].from \in 1 .. sockets
    BY <1>1, <1>5 DEF Typed
  <2>4. ~isConnected' => config' = Off /\ config'.lz4 = FALSE
    BY <1>3, <1>7 DEF Off
  <2> QED
    BY <1>1, <1>3, <1>5, <1>7, <2>2, <2>3, <2>4 DEF Typed
<1>9. Waiting'
  <2> SUFFICES ASSUME phase = "waiting" PROVE Waiting'
    BY <1>3 DEF Waiting
  <2>1. \A i \in Queued' : toServer'[i].from = sock =>
          i = Len(toServer') /\ toServer'[i].type = "INIT" /\ toServer'[i].config = wanted
    <3> SUFFICES ASSUME NEW i \in Queued', toServer'[i].from = sock
                 PROVE  /\ i = Len(toServer')
                        /\ toServer'[i].type = "INIT" /\ toServer'[i].config = wanted
      OBVIOUS
    <3>1. i + 1 = Len(toServer) /\ toServer'[i].type = "INIT" /\ toServer'[i].config = wanted
      BY <1>5 DEF SInv, Waiting
    <3> QED
      BY <1>2, <1>5, <3>1
  <2>2. ackTo = sock => Len(toServer) = 1 /\ m.type = "INIT" /\ m.config = wanted
    BY <1>1, <1>6 DEF SInv, Waiting
  <2>3. ackTo = sock => toServer' = <<>> /\ isConnected /\ config' = wanted
    BY <1>5, <1>7, <2>2, EmptySeq
  <2>4. \A a \in acks : a.to # sock
    BY <1>1 DEF SInv, Waiting
  <2>5. \A a \in acks' : a.to = sock =>
          ackTo = sock /\ a.frame = 0 /\ a.audio = wanted.audio
    BY <1>7, <2>2, <2>4
  <2> QED
    BY <1>3, <2>1, <2>3, <2>5 DEF SInv, Waiting
<1> QED
  BY <1>3, <1>4, <1>8, <1>9 DEF SInv, Handling, Following, SessionAgreement, EchoIsMine,
                                SoundKnownByFrame

LEMMA FpgaFollowsInv == SInv /\ FpgaFollows => SInv'
<1> SUFFICES ASSUME SInv, FpgaFollows PROVE SInv'
  OBVIOUS
<1>1. UNCHANGED <<doXDPServer, doScreensaver, isConnected, config, poc, ackTo, pc, cmd_init,
                  phase, sock, sockets, wanted, m_frame, fpga, toServer, acks, opened>>
      /\ fpga_init' = cmd_init
  BY DEF FpgaFollows, clientVars, settings
<1> QED
  BY <1>1 DEF SInv, Typed, Queued, Handling, Waiting, Following, SessionAgreement, EchoIsMine,
              SoundKnownByFrame

-----------------------------------------------------------------------------
(* CmdInit: the new socket is nobody's yet, and INIT is the last of the queue. *)
LEMMA CmdInitInv ==
  ASSUME SInv, NEW cfg \in Config, CmdInit(cfg)
  PROVE  SInv'
<1> DEFINE init == [type |-> "INIT", from |-> sockets + 1, config |-> cfg, frame |-> 0]
<1>1. Typed /\ sockets \in Nat
  BY DEF SInv, Typed
<1>2. /\ phase' = "waiting" /\ sock' = sockets + 1 /\ sockets' = sockets + 1
      /\ wanted' = cfg /\ opened' = m_frame
      /\ toServer' = toServer \o Goodbye \o <<init>>
      /\ UNCHANGED <<doXDPServer, doScreensaver, isConnected, config, poc, ackTo, pc,
                     cmd_init, fpga_init, m_frame, fpga, acks>>
  BY DEF CmdInit, NewSocket, serverVars, settings, fpgaVars
<1>3. init \in Message
  BY <1>1, SessionAssumption DEF Message
<1>4. PICK old \in Seq(Message) :
        /\ toServer \o Goodbye = old
        /\ \A i \in 1 .. Len(old) : old[i].from \in 1 .. sockets
  <2>1. CASE phase = "connected"
    <3> DEFINE bye == Command("CLOSE", 0)
    <3>1. bye \in Message /\ bye.from \in 1 .. sockets
      BY <1>1, <2>1, SessionAssumption DEF Command, Message, Typed
    <3>2. Goodbye = <<bye>>
      BY <2>1 DEF Goodbye
    <3> HIDE DEF bye
    <3>3. /\ toServer \o <<bye>> \in Seq(Message)
          /\ Len(toServer \o <<bye>>) = Len(toServer) + 1 /\ Len(toServer) \in Nat
          /\ \A i \in 1 .. Len(toServer) + 1 :
               (toServer \o <<bye>>)[i] = IF i <= Len(toServer) THEN toServer[i] ELSE bye
      BY <1>1, <3>1, Enqueue
    <3>4. \A i \in 1 .. Len(toServer) : toServer[i].from \in 1 .. sockets
      BY <1>1 DEF Typed, Queued
    <3>5. \A i \in 1 .. Len(toServer \o <<bye>>) :
            (toServer \o <<bye>>)[i].from \in 1 .. sockets
      BY <3>1, <3>3, <3>4
    <3> QED
      BY <3>2, <3>3, <3>5
  <2>2. CASE phase # "connected"
    <3>1. toServer \o Goodbye = toServer
      BY <1>1, <2>2, ConcatEmptySeq DEF Goodbye, Typed
    <3> QED
      BY <1>1, <3>1 DEF Typed, Queued
  <2> QED
    BY <2>1, <2>2
<1> HIDE DEF init
<1>5. /\ Len(old) \in Nat /\ toServer' \in Seq(Message) /\ Len(toServer') = Len(old) + 1
      /\ \A i \in 1 .. Len(old) + 1 : toServer'[i] = IF i <= Len(old) THEN old[i] ELSE init
  <2>1. <<init>> \in Seq(Message) /\ Len(<<init>>) = 1 /\ <<init>>[1] = init
    BY <1>3
  <2>2. Len(old) \in Nat
    BY LenProperties
  <2> QED
    BY <1>2, <1>4, <2>1, <2>2, ConcatProperties
<1>6. init.from = sockets + 1 /\ init.type = "INIT" /\ init.config = cfg
  BY DEF init
<1>7. Typed'
  <2>1. \A i \in Queued' : toServer'[i].from \in 1 .. sockets'
    BY <1>1, <1>2, <1>4, <1>5, <1>6 DEF Queued
  <2>2. \A a \in acks' : a.to \in 1 .. sockets'
    BY <1>1, <1>2 DEF Typed
  <2>3. ackTo' \in 0 .. sockets' /\ sock' \in 0 .. sockets' /\ sock' # 0 /\ sockets' \in Nat
    BY <1>1, <1>2 DEF Typed
  <2>4. opened' \in 0 .. m_frame' /\ m_frame' \in 0 .. MaxFrame
    BY <1>1, <1>2, SessionAssumption DEF Typed
  <2> QED
    BY <1>1, <1>2, <1>5, <2>1, <2>2, <2>3, <2>4 DEF Typed
<1>8. Waiting'
  <2>1. \A i \in Queued' : toServer'[i].from = sock' =>
          i = Len(toServer') /\ toServer'[i].type = "INIT" /\ toServer'[i].config = wanted'
    BY <1>1, <1>2, <1>4, <1>5, <1>6 DEF Queued
  <2>2. ackTo' # sock' /\ \A a \in acks' : a.to # sock'
    BY <1>1, <1>2 DEF Typed
  <2> QED
    BY <1>2, <2>1, <2>2 DEF Waiting
<1>9. EchoIsMine'
  BY <1>2 DEF SInv, EchoIsMine
<1>10. Handling'
  <2> SUFFICES ASSUME pc # "poll" PROVE Handling'
    BY <1>2 DEF Handling
  <2>1. phase # "connected" /\ Len(toServer) \in Nat \ {0}
    BY <1>1, ConnectedPolls, Dequeue DEF SInv, Handling
  <2>2. toServer \o Goodbye = toServer
    BY <1>1, <2>1, ConcatEmptySeq DEF Goodbye, Typed
  <2>3. toServer'[1] = toServer[1] /\ toServer' # <<>>
    BY <1>4, <1>5, <2>1, <2>2, EmptySeq
  <2> QED
    BY <1>2, <2>3 DEF SInv, Handling
<1> QED
  BY <1>2, <1>7, <1>8, <1>9, <1>10 DEF SInv, Following, SessionAgreement, SoundKnownByFrame

(* getACK: in CmdInit the ACK is of frame 0 and leaves the status alone.       *)
LEMMA getACKInv ==
  ASSUME SInv, NEW a \in acks, getACK(a)
  PROVE  SInv'
<1>1. /\ Typed /\ a \in Answer /\ a.to = sock /\ acks' = acks \ {a}
      /\ fpga' = Status(a) /\ phase' = "connected" /\ phase \in {"waiting", "connected"}
      /\ UNCHANGED <<doXDPServer, doScreensaver, isConnected, config, poc, ackTo, pc,
                     cmd_init, fpga_init, sock, sockets, wanted, m_frame, toServer, opened>>
  BY DEF SInv, Typed, getACK, serverVars, settings, fpgaVars
<1>2. SessionAgreement'
  BY <1>1 DEF SInv, Waiting, SessionAgreement
<1>3. a.frame <= m_frame /\ a.audio = wanted.audio
  BY <1>1 DEF SInv, Waiting, Following, Typed
<1>4. Following'
  <2>1. CASE phase = "connected"
    BY <1>1, <2>1 DEF SInv, Following, Queued
  <2>2. CASE phase = "waiting"
    <3>1. toServer = <<>> /\ Len(toServer) = 0
      BY <1>1, <2>2, EmptySeq DEF SInv, Waiting
    <3>2. \A b \in acks : b.to = sock => b.frame = 0 /\ b.audio = wanted.audio
      BY <2>2 DEF SInv, Waiting
    <3>3. 0 <= m_frame
      BY <1>1, SessionAssumption DEF Typed
    <3> QED
      BY <1>1, <3>1, <3>2, <3>3 DEF Following, Queued
  <2> QED
    BY <1>1, <2>1, <2>2
<1>5. /\ fpga' \in [frameEcho : 0 .. MaxFrame, audio : BOOLEAN]
      /\ \/ fpga' = fpga
         \/ fpga'.frameEcho = a.frame /\ fpga'.audio = a.audio
  BY <1>1 DEF Status, Typed, Answer
<1>6. EchoIsMine'
  BY <1>1, <1>3, <1>5 DEF SInv, EchoIsMine
<1>7. SoundKnownByFrame'
  <2>1. CASE phase = "connected"
    BY <1>1, <1>3, <1>5, <2>1 DEF SInv, SoundKnownByFrame
  <2>2. CASE phase = "waiting"
    <3>1. a.frame = 0 /\ opened = m_frame
      BY <1>1, <2>2 DEF SInv, Waiting
    <3>2. fpga' = fpga
      BY <1>1, <3>1, SessionAssumption DEF Status, Typed
    <3>3. fpga.frameEcho \in Nat /\ opened \in Nat /\ fpga.frameEcho <= opened
      BY <1>1, <3>1, SessionAssumption DEF SInv, EchoIsMine, Typed
    <3> QED
      BY <1>1, <3>2, <3>3 DEF SoundKnownByFrame
  <2> QED
    BY <1>1, <2>1, <2>2
<1>8. Typed'
  BY <1>1, <1>5 DEF Typed, Queued
<1> QED
  BY <1>1, <1>2, <1>4, <1>6, <1>7, <1>8 DEF SInv, Waiting, Handling

LEMMA InitTimeoutInv == SInv /\ InitTimeout => SInv'
<1> SUFFICES ASSUME SInv, InitTimeout PROVE SInv'
  OBVIOUS
<1>1. /\ phase' = "idle" /\ sock' = 0
      /\ UNCHANGED <<doXDPServer, doScreensaver, isConnected, config, poc, ackTo, pc,
                     cmd_init, fpga_init, sockets, wanted, m_frame, fpga, toServer, acks, opened>>
  BY DEF InitTimeout, serverVars, settings, fpgaVars
<1>2. Typed'
  BY <1>1 DEF SInv, Typed, Queued
<1> QED
  BY <1>1, <1>2 DEF SInv, Handling, Waiting, Following, SessionAgreement, EchoIsMine,
                    SoundKnownByFrame

LEMMA CmdSwitchresInv == SInv /\ CmdSwitchres => SInv'
<1> SUFFICES ASSUME SInv, CmdSwitchres PROVE SInv'
  OBVIOUS
<1> DEFINE m == Command("SWITCHRES", 0)
<1>1. /\ Typed /\ phase = "connected" /\ toServer' = Append(toServer, m)
      /\ UNCHANGED <<doXDPServer, doScreensaver, isConnected, config, poc, ackTo, pc,
                     cmd_init, fpga_init, phase, sock, sockets, wanted, m_frame, fpga, acks, opened>>
  BY DEF SInv, CmdSwitchres, serverVars, clientVars, settings, fpgaVars
<1>2. /\ m \in Message /\ m.from = sock /\ m.type = "SWITCHRES" /\ m.frame = 0
      /\ sock \in 1 .. sockets /\ 0 <= m_frame
  BY <1>1, SessionAssumption DEF Command, Message, Typed
<1> HIDE DEF m
<1>3. /\ Len(toServer) \in Nat /\ toServer' \in Seq(Message)
      /\ Len(toServer') = Len(toServer) + 1
      /\ \A i \in 1 .. Len(toServer') :
           toServer'[i] = IF i <= Len(toServer) THEN toServer[i] ELSE m
  BY <1>1, <1>2, Enqueue
<1>4. \A i \in Queued' :
        \/ i \in Queued /\ toServer'[i] = toServer[i]
        \/ toServer'[i] = m
  BY <1>3 DEF Queued
<1>5. Typed'
  BY <1>1, <1>2, <1>3, <1>4 DEF Typed
<1>6. Following'
  BY <1>1, <1>2, <1>4 DEF SInv, Following
<1>7. Handling'
  BY <1>1, ConnectedPolls DEF Handling
<1> QED
  BY <1>1, <1>5, <1>6, <1>7 DEF SInv, Waiting, SessionAgreement, EchoIsMine, SoundKnownByFrame

LEMMA CmdBlitInv == SInv /\ CmdBlit => SInv'
<1> SUFFICES ASSUME SInv, CmdBlit PROVE SInv'
  OBVIOUS
<1> DEFINE m == Command("BLIT", m_frame + 1)
<1>1. /\ Typed /\ phase = "connected" /\ toServer' = Append(toServer, m)
      /\ m_frame' = m_frame + 1 /\ m_frame < MaxFrame
      /\ UNCHANGED <<doXDPServer, doScreensaver, isConnected, config, poc, ackTo, pc,
                     cmd_init, fpga_init, phase, sock, sockets, wanted, fpga, acks, opened>>
  BY DEF SInv, CmdBlit, serverVars, settings, fpgaVars
<1>2. /\ m \in Message /\ m.from = sock /\ m.type = "BLIT" /\ m.frame = m_frame'
      /\ sock \in 1 .. sockets /\ m_frame \in Nat /\ m_frame' \in 0 .. MaxFrame
  BY <1>1, SessionAssumption DEF Command, Message, Typed
<1> HIDE DEF m
<1>3. /\ Len(toServer) \in Nat /\ toServer' \in Seq(Message)
      /\ Len(toServer') = Len(toServer) + 1
      /\ \A i \in 1 .. Len(toServer') :
           toServer'[i] = IF i <= Len(toServer) THEN toServer[i] ELSE m
  BY <1>1, <1>2, Enqueue
<1>4. \A i \in Queued' :
        \/ i \in Queued /\ toServer'[i] = toServer[i]
        \/ toServer'[i] = m
  BY <1>3 DEF Queued
<1>5. opened' \in 0 .. m_frame'
  BY <1>1, <1>2 DEF Typed
<1>6. Typed'
  BY <1>1, <1>2, <1>3, <1>4, <1>5 DEF Typed
<1>7. Following'
  <2>1. \A i \in Queued' : /\ toServer'[i].from = sock
                           /\ toServer'[i].type \in {"SWITCHRES", "BLIT"}
                           /\ toServer'[i].frame <= m_frame'
    <3>1. \A i \in Queued : /\ toServer[i].from = sock
                            /\ toServer[i].type \in {"SWITCHRES", "BLIT"}
                            /\ toServer[i].frame <= m_frame /\ toServer[i] \in Message
      BY <1>1, ElementOfSeq DEF SInv, Following, Typed, Queued
    <3>2. \A i \in Queued : toServer[i].frame <= m_frame'
      BY <1>1, <1>2, <3>1, SessionAssumption DEF Message
    <3> QED
      BY <1>2, <1>4, <3>1, <3>2
  <2>2. \A a \in acks : a.to = sock => a.frame <= m_frame' /\ a.audio = wanted.audio
    BY <1>1, <1>2, SessionAssumption DEF SInv, Following, Typed, Answer
  <2> QED
    BY <1>1, <2>1, <2>2 DEF Following
<1>8. EchoIsMine' /\ SoundKnownByFrame'
  BY <1>1, <1>2, SessionAssumption DEF SInv, EchoIsMine, SoundKnownByFrame, Typed
<1>9. Handling'
  BY <1>1, ConnectedPolls DEF Handling
<1> QED
  BY <1>1, <1>6, <1>7, <1>8, <1>9 DEF SInv, Waiting, SessionAgreement

LEMMA EndInv ==
  ASSUME SInv, NEW orderly \in BOOLEAN, End(orderly)
  PROVE  SInv'
<1>1. /\ Typed /\ phase' = "idle" /\ sock' = 0 /\ m_frame' = 0 /\ opened' = 0
      /\ fpga' = NoStatus
      /\ toServer' = IF orderly THEN toServer \o Goodbye ELSE toServer
      /\ UNCHANGED <<doXDPServer, doScreensaver, isConnected, config, poc, ackTo, pc,
                     cmd_init, fpga_init, sockets, wanted, acks>>
  BY DEF SInv, End, serverVars, settings, fpgaVars
<1>2. toServer' \in Seq(Message) /\ \A i \in Queued' : toServer'[i].from \in 1 .. sockets
  <2>1. CASE toServer' = toServer
    BY <1>1, <2>1 DEF Typed, Queued
  <2>2. CASE toServer' = toServer \o Goodbye /\ phase = "connected"
    <3> DEFINE bye == Command("CLOSE", 0)
    <3>1. bye \in Message /\ bye.from \in 1 .. sockets /\ Goodbye = <<bye>>
      BY <1>1, <2>2, SessionAssumption DEF Command, Message, Typed, Goodbye
    <3> HIDE DEF bye
    <3> QED
      BY <1>1, <2>2, <3>1, Enqueue DEF Typed, Queued
  <2>3. CASE phase # "connected"
    BY <1>1, <2>1, <2>3, ConcatEmptySeq DEF Goodbye, Typed
  <2> QED
    BY <1>1, <2>1, <2>2, <2>3
<1>3. MaxFrame \in Nat
  BY SessionAssumption
<1>4. fpga' \in [frameEcho : 0 .. MaxFrame, audio : BOOLEAN] /\ fpga'.frameEcho = 0
  BY <1>1, <1>3 DEF NoStatus
<1>5. Typed'
  <2>1. m_frame' \in 0 .. MaxFrame /\ opened' \in 0 .. m_frame'
    BY <1>1, <1>3
  <2>2. sockets \in Nat /\ sock' \in 0 .. sockets /\ (sock' = 0 <=> phase' = "idle")
    BY <1>1 DEF Typed
  <2>3. fpga' \in [frameEcho : 0 .. MaxFrame, audio : BOOLEAN]
    BY <1>4
  <2> QED
    BY <1>1, <1>2, <2>1, <2>2, <2>3 DEF Typed
<1>6. Handling'
  <2>1. CASE phase = "connected"
    BY <1>1, <2>1, ConnectedPolls DEF Handling
  <2>2. CASE phase # "connected"
    <3>1. toServer' = toServer
      BY <1>1, <2>2, ConcatEmptySeq DEF Goodbye, Typed
    <3> QED
      BY <1>1, <3>1 DEF SInv, Handling
  <2> QED
    BY <2>1, <2>2
<1> QED
  BY <1>1, <1>4, <1>5, <1>6 DEF SInv, Waiting, Following, SessionAgreement, EchoIsMine,
                          SoundKnownByFrame

LEMMA LoseInv == SInv /\ Lose => SInv'
<1> SUFFICES ASSUME SInv, Lose PROVE SInv'
  OBVIOUS
<1>1. /\ Typed
      /\ UNCHANGED <<doXDPServer, doScreensaver, isConnected, config, poc, ackTo, pc,
                     cmd_init, fpga_init, phase, sock, sockets, wanted, m_frame, fpga, opened>>
  BY DEF SInv, Lose, serverVars, clientVars, settings, fpgaVars
<1>2. CASE pc = "poll" /\ toServer # <<>> /\ toServer' = Tail(toServer) /\ acks' = acks
  <2>1. /\ Len(toServer) \in Nat \ {0}
        /\ toServer' \in Seq(Message) /\ Len(toServer') = Len(toServer) - 1
        /\ \A i \in 1 .. Len(toServer') : toServer'[i] = toServer[i + 1]
    BY <1>1, <1>2, Dequeue
  <2>2. \A i \in Queued' : i + 1 \in Queued /\ toServer'[i] = toServer[i + 1]
    BY <2>1 DEF Queued
  <2>3. Typed'
    BY <1>1, <1>2, <2>1, <2>2 DEF Typed
  <2>4. Waiting'
    <3> SUFFICES ASSUME phase = "waiting" PROVE Waiting'
      BY <1>1 DEF Waiting
    <3>1. \A i \in Queued' : toServer'[i].from = sock =>
            i + 1 = Len(toServer) /\ toServer'[i].type = "INIT" /\ toServer'[i].config = wanted
      BY <2>2 DEF SInv, Waiting
    <3>2. \A i \in Queued' : i + 1 = Len(toServer) => i = Len(toServer')
      BY <2>1 DEF Queued
    <3> QED
      BY <1>1, <1>2, <3>1, <3>2 DEF SInv, Waiting
  <2>5. Following'
    BY <1>1, <1>2, <2>2 DEF SInv, Following
  <2> QED
    BY <1>1, <1>2, <2>3, <2>4, <2>5 DEF SInv, Handling, SessionAgreement, EchoIsMine,
                                              SoundKnownByFrame
<1>3. CASE acks' \subseteq acks /\ toServer' = toServer
  BY <1>1, <1>3 DEF SInv, Typed, Queued, Handling, Waiting, Following, SessionAgreement, EchoIsMine,
                    SoundKnownByFrame
<1> QED
  BY <1>2, <1>3 DEF Lose

LEMMA NextInv == SInv /\ [SessionNext]_sessionVars => SInv'
<1> SUFFICES ASSUME SInv, [SessionNext]_sessionVars PROVE SInv'
  OBVIOUS
<1>1. CASE Serve BY <1>1, ServeInv
<1>2. CASE Start BY <1>2, CmdInitInv DEF Start
<1>3. CASE Listen BY <1>3, getACKInv DEF Listen
<1>4. CASE InitTimeout BY <1>4, InitTimeoutInv
<1>5. CASE CmdSwitchres BY <1>5, CmdSwitchresInv
<1>6. CASE CmdBlit BY <1>6, CmdBlitInv
<1>7. CASE \E orderly \in BOOLEAN : End(orderly) BY <1>7, EndInv
<1>8. CASE Lose BY <1>8, LoseInv
<1>9. CASE UNCHANGED sessionVars BY <1>9, StutterInv
<1>10. CASE Resume BY <1>10, ResumeInv
<1>11. CASE FpgaFollows BY <1>11, FpgaFollowsInv
<1> QED BY <1>1, <1>2, <1>3, <1>4, <1>5, <1>6, <1>7, <1>8, <1>9, <1>10, <1>11 DEF SessionNext

LEMMA SessionInvariant == SessionSpec => []SInv
<1> QED BY InitInv, NextInv, PTL DEF SessionSpec

-----------------------------------------------------------------------------
(* The variables of client and server keep their types, and a server without  *)
(* a session has no settings (groovy.cpp, groovymister.cpp).                  *)
THEOREM SessionTyped == SessionSpec => []SessionTypeOK
<1>1. SInv => SessionTypeOK BY TypesHold DEF SInv
<1> QED BY <1>1, SessionInvariant, PTL

(* However many commands and ACKs are lost or late, and however many clients  *)
(* crash, a client whose CmdInit returned 0 has the session it asked for, and *)
(* the server answers to its socket, over UDP and over AF_XDP.                *)
THEOREM AgreementSafe == SessionSpec => []SessionAgreement
<1>1. SInv => SessionAgreement BY DEF SInv
<1> QED BY <1>1, SessionInvariant, PTL

(* The frame a client believes acknowledged is one it sent: an ACK of another *)
(* session is never taken for it.                                             *)
THEOREM EchoSafe == SessionSpec => []EchoIsMine
<1>1. SInv => EchoIsMine BY DEF SInv
<1> QED BY <1>1, SessionInvariant, PTL

(* Once a frame of the session is acknowledged the status says whether the    *)
(* sound of this session is on, though it survives CmdInit.                   *)
THEOREM SoundSafe == SessionSpec => []SoundKnownByFrame
<1>1. SInv => SoundKnownByFrame BY DEF SInv
<1> QED BY <1>1, SessionInvariant, PTL
=============================================================================
