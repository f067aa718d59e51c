-------------------------- MODULE InputStream_proofs --------------------------
(***************************************************************************)
(* Proofs of the safety properties of InputStream, for any devices, values   *)
(* and bounds.  Types and keep-alives hold with every setting; that the      *)
(* client never goes back and ends with the last report needs the stamps to  *)
(* grow with the reports, which they do when a frame is shown at its BLIT    *)
(* (hpsBlit = 0) and the order does not wrap between two BLITs.              *)
(***************************************************************************)
EXTENDS InputStream, TLAPS, SequenceTheorems

-----------------------------------------------------------------------------
(* Types, and how long ago each device was reported.                          *)

DeviceState == [order : 0 .. OrderMod - 1, keep_alive : Nat, digital : Values,
                analog : Values]

PocState == [frame_recv : Nat, frame_ddr : Nat, dev : [Devices -> DeviceState]]

ReportOf(devices) ==
  [to : Nat, dev : devices, frame : Nat, order : Nat, digital : Values, analog : Values,
   seq : Nat]

Kept == ReportOf(Devices \union {"none"})

Typed ==
  /\ poc \in PocState
  /\ hasPoc \in BOOLEAN /\ modeline \in BOOLEAN /\ receiving \in BOOLEAN
  /\ isConnectedInputs \in BOOLEAN /\ gmw \in BOOLEAN /\ gmw_inputsBinded \in BOOLEAN
  /\ isConnected \in BOOLEAN /\ modeConfigured \in BOOLEAN
  /\ sockets \in Nat /\ sockInputs \in 0 .. sockets /\ clientaddrInputs \in 0 .. sockets
  /\ frame \in Nat /\ sent \in Nat /\ lost \in Nat /\ unanswered \in Nat
  /\ inputsQueue \in Seq(Nat)
  /\ \A i \in 1 .. Len(inputsQueue) : inputsQueue[i] <= sockets
  /\ net \subseteq ReportOf(Devices)
  /\ \A r \in net : r.to <= sockets /\ r.seq \in 1 .. sent
  /\ held \in [Devices -> Kept] /\ \A d \in Devices : held[d].seq <= sent
  /\ last \in [Devices -> [report : Kept, lost : BOOLEAN]]
  /\ \A d \in Devices : last[d].report.to <= sockets

(* A device that is not reported does not age.                                *)
Limit == KeepAliveFrames + unanswered

Ticking ==
  \A d \in Devices : /\ poc.dev[d].keep_alive < Limit
                     /\ d \notin Reported => poc.dev[d].keep_alive = 0

TInv == Typed /\ Ticking

-----------------------------------------------------------------------------
(* The stamps: what is on its way to the socket of the client is ordered as   *)
(* it was sent, and nothing is stamped later than the server is.              *)

Mine(d) == {r \in net : r.dev = d /\ r.to = sockInputs}

Now(d) == [frame |-> poc.frame_ddr, order |-> poc.dev[d].order]

Ordered ==
  sockInputs # 0 =>
    \A d \in Devices :
      /\ \A r \in Mine(d) : /\ r.seq # held[d].seq
                            /\ r.seq > held[d].seq => Newer(r, held[d])
                            /\ r.seq < held[d].seq => Newer(held[d], r)
      /\ \A r, q \in Mine(d) : /\ r.seq < q.seq => Newer(q, r)
                               /\ r.seq = q.seq => r = q

Listening == sockInputs # 0 /\ isConnectedInputs /\ clientaddrInputs = sockInputs

Bounded ==
  Listening => \A d \in Devices : /\ \A r \in Mine(d) : ~Newer(r, Now(d))
                                  /\ ~Newer(held[d], Now(d))

Growing ==
  /\ \A d \in Devices : poc.dev[d].order + 1 < OrderMod
  /\ poc.frame_recv = poc.frame_ddr
  /\ isConnected => poc.frame_ddr <= frame

Unbound == ~gmw_inputsBinded => sockInputs = 0 /\ held = NothingHeld

(* The last report of a device is on its way, or lost, or held; and it says   *)
(* what the server knows.                                                    *)
Says(r, d, p) == /\ r.digital = p.digital
                 /\ DoInputs[d] = 2 => r.analog = p.analog

LastKept ==
  \A d \in Devices :
    LET r == last[d].report IN
    /\ \A q \in net : q.dev = d => q.seq <= r.seq
    /\ r.to # 0 => DoInputs[d] # 0
    /\ sockInputs # 0 /\ r.to = sockInputs /\ ~last[d].lost =>
         \/ r \in net /\ r.dev = d /\ held[d].seq <= r.seq
         \/ held[d].seq = r.seq /\ Says(held[d], d, r)
    /\ Listening /\ hasPoc /\ r.to = sockInputs => Says(r, d, poc.dev[d])

Stamps == Ordered /\ Bounded /\ Growing /\ Unbound /\ LastKept

SInv == TInv /\ Stamps

(* A frame is shown at its BLIT, and the order does not wrap between two.      *)
Stamping == hpsBlit = 0 /\ ~Wraps /\ OrderMod > 1

-----------------------------------------------------------------------------
(* Sending                                                                    *)

(* The reports of the devices ds in state q are made, and some of them sent.   *)
Sends(q, ds) ==
  /\ \E out \in SUBSET ds :
       /\ net' = net \union {Report(q, d, sent + 1) : d \in out}
       /\ last' = [d \in Devices |->
                     IF d \in ds THEN [report |-> Report(q, d, sent + 1),
                                       lost |-> d \notin out]
                                 ELSE last[d]]
  /\ sent' \in Nat /\ sent <= sent' /\ (ds # {} => sent' = sent + 1)
  /\ lost' \in Nat

LEMMA Positive ==
  /\ OrderMod \in Nat \ {0} /\ KeepAliveFrames \in Nat \ {0} /\ 0 \in Values
  /\ DoInputs \in [Devices -> 0 .. 2] /\ 0 \in 0 .. OrderMod - 1
<1> QED
  BY InputAssumption

LEMMA LimitAbove ==
  ASSUME Typed
  PROVE  Limit \in Nat /\ Limit = KeepAliveFrames + unanswered /\ 0 < Limit
<1> QED
  BY Positive DEF Limit, Typed

LEMMA MadeSends ==
  ASSUME Typed, NEW q, NEW ds, NEW out \in SUBSET ds, MakeReports(q, ds, out)
  PROVE  Sends(q, ds)
<1>1. /\ net' = net \union {Report(q, d, sent + 1) : d \in out}
      /\ last' = [d \in Devices |->
                    IF d \in ds THEN [report |-> Report(q, d, sent + 1), lost |-> d \notin out]
                                ELSE last[d]]
  BY Zenon DEF MakeReports
<1>2. /\ sent' = IF ds = {} THEN sent ELSE sent + 1
      /\ lost' = IF out = ds THEN lost ELSE lost + 1
  BY Zenon DEF MakeReports
<1>3. /\ sent' \in Nat /\ sent <= sent' /\ (ds # {} => sent' = sent + 1)
      /\ lost' \in Nat
  BY <1>2 DEF Typed
<1> QED
  BY <1>1, <1>3, Zenon DEF Sends

LEMMA ReportFields ==
  ASSUME Typed, NEW q \in PocState, NEW d \in Devices
  PROVE  LET r == Report(q, d, sent + 1) IN
         /\ r \in ReportOf(Devices) /\ r \in Kept
         /\ r.to = clientaddrInputs /\ r.dev = d /\ r.seq = sent + 1
         /\ r.frame = q.frame_ddr /\ r.order = q.dev[d].order
         /\ r.digital = q.dev[d].digital
         /\ DoInputs[d] = 2 => r.analog = q.dev[d].analog
<1>1. q.dev[d] \in DeviceState /\ q.frame_ddr \in Nat
  BY DEF PocState
<1>2. q.dev[d].order \in Nat /\ q.dev[d].digital \in Values /\ q.dev[d].analog \in Values
  BY <1>1, Positive DEF DeviceState
<1> QED
  BY <1>1, <1>2, Positive DEF Report, ReportOf, Kept, Typed

LEMMA SendEffect ==
  ASSUME Typed, NEW p \in PocState, NEW ds \in SUBSET Devices, Send(p, ds)
  PROVE  /\ Sends(p, ds) /\ poc' \in PocState
         /\ poc'.frame_recv = p.frame_recv /\ poc'.frame_ddr = p.frame_ddr
         /\ \A d \in Devices :
              /\ poc'.dev[d].order = p.dev[d].order
              /\ poc'.dev[d].digital = p.dev[d].digital
              /\ poc'.dev[d].analog = p.dev[d].analog
              /\ poc'.dev[d].keep_alive = IF d \in ds THEN 0 ELSE p.dev[d].keep_alive
<1> DEFINE dev == [d \in Devices |-> IF d \in ds THEN [p.dev[d] EXCEPT !.keep_alive = 0]
                                                 ELSE p.dev[d]]
<1>1. Sends(p, ds)
  <2>1. PICK out \in SUBSET ds : MakeReports(p, ds, out)
    BY Zenon DEF Send
  <2> QED
    BY <2>1, MadeSends
<1>2. poc' = [p EXCEPT !.dev = dev]
  BY DEF Send
<1>3. \A d \in Devices :
        /\ dev[d] \in DeviceState
        /\ dev[d].order = p.dev[d].order /\ dev[d].digital = p.dev[d].digital
        /\ dev[d].analog = p.dev[d].analog
        /\ dev[d].keep_alive = IF d \in ds THEN 0 ELSE p.dev[d].keep_alive
  BY DEF PocState, DeviceState
<1>4. dev \in [Devices -> DeviceState]
  BY <1>3
<1> HIDE DEF dev
<1>5. /\ poc' \in PocState /\ poc'.dev = dev
      /\ poc'.frame_recv = p.frame_recv /\ poc'.frame_ddr = p.frame_ddr
  BY <1>2, <1>4 DEF PocState
<1> QED
  BY <1>1, <1>3, <1>5

LEMMA NextOrderState ==
  ASSUME NEW p \in PocState, NEW ds \in SUBSET Devices
  PROVE  /\ NextOrder(p, ds) \in PocState
         /\ NextOrder(p, ds).frame_recv = p.frame_recv
         /\ NextOrder(p, ds).frame_ddr = p.frame_ddr
         /\ \A d \in Devices :
              /\ NextOrder(p, ds).dev[d].order =
                   IF d \in ds THEN (p.dev[d].order + 1) % OrderMod ELSE p.dev[d].order
              /\ NextOrder(p, ds).dev[d].digital = p.dev[d].digital
              /\ NextOrder(p, ds).dev[d].analog = p.dev[d].analog
              /\ NextOrder(p, ds).dev[d].keep_alive = p.dev[d].keep_alive
<1> DEFINE dev == [d \in Devices |->
                     IF d \in ds THEN [p.dev[d] EXCEPT !.order = (@ + 1) % OrderMod]
                                 ELSE p.dev[d]]
<1>1. NextOrder(p, ds) = [p EXCEPT !.dev = dev]
  BY DEF NextOrder
<1>2. ASSUME NEW d \in Devices
      PROVE  /\ dev[d] \in DeviceState
             /\ dev[d].order =
                  IF d \in ds THEN (p.dev[d].order + 1) % OrderMod ELSE p.dev[d].order
             /\ dev[d].digital = p.dev[d].digital /\ dev[d].analog = p.dev[d].analog
             /\ dev[d].keep_alive = p.dev[d].keep_alive
  <2>1. p.dev[d] \in DeviceState /\ p.dev[d].order \in Nat
    BY Positive DEF PocState, DeviceState
  <2>2. (p.dev[d].order + 1) % OrderMod \in 0 .. OrderMod - 1
    BY <2>1, Positive
  <2> QED
    BY <2>1, <2>2 DEF DeviceState
<1>3. dev \in [Devices -> DeviceState]
  BY <1>2
<1> HIDE DEF dev
<1> QED
  BY <1>1, <1>2, <1>3 DEF PocState

LEMMA NeutralState ==
  /\ ZeroPoc \in PocState /\ ZeroPoc.frame_recv = 0 /\ ZeroPoc.frame_ddr = 0
  /\ \A d \in Devices : /\ ZeroPoc.dev[d].order = 0 /\ ZeroPoc.dev[d].keep_alive = 0
                        /\ ZeroPoc.dev[d].digital = 0 /\ ZeroPoc.dev[d].analog = 0
<1>1. Neutral \in DeviceState
  BY Positive DEF Neutral, DeviceState
<1> QED
  BY <1>1 DEF ZeroPoc, PocState, Neutral

LEMMA NeutralizeEffect ==
  ASSUME Typed, Neutralize(ZeroPoc)
  PROVE  /\ poc' = ZeroPoc /\ unanswered' = 0
         /\ \E q \in PocState, ds \in SUBSET Reported :
              /\ Sends(q, ds) /\ q.frame_ddr = poc.frame_ddr
              /\ \A d \in ds : q.dev[d].order = (poc.dev[d].order + 1) % OrderMod
<1> DEFINE q  == NextOrder(Cleared(poc), Reported)
           ds == {d \in Reported : hasPoc}
           dev == [d \in Devices |-> [poc.dev[d] EXCEPT !.digital = 0, !.analog = 0]]
<1>1. poc' = ZeroPoc /\ unanswered' = 0 /\ Sends(q, ds)
  <2>1. PICK out \in SUBSET ds : MakeReports(q, ds, out)
    BY Zenon DEF Neutralize
  <2>2. Sends(q, ds)
    BY <2>1, MadeSends
  <2> QED
    BY <2>2 DEF Neutralize
<1>2. poc \in PocState /\ \A d \in Devices : poc.dev[d] \in DeviceState
  BY DEF Typed, PocState
<1>3. \A d \in Devices : dev[d] \in DeviceState /\ dev[d].order = poc.dev[d].order
  BY <1>2, Positive DEF DeviceState
<1>4. Cleared(poc) = [poc EXCEPT !.dev = dev]
  BY DEF Cleared
<1>5. dev \in [Devices -> DeviceState]
  BY <1>3
<1> HIDE DEF dev
<1>6. /\ Cleared(poc) \in PocState /\ Cleared(poc).frame_ddr = poc.frame_ddr
      /\ Cleared(poc).dev = dev
  BY <1>2, <1>4, <1>5 DEF PocState
<1>7. Reported \in SUBSET Devices
  BY DEF Reported
<1>8. /\ q \in PocState /\ q.frame_ddr = poc.frame_ddr
      /\ \A d \in Reported : q.dev[d].order = (poc.dev[d].order + 1) % OrderMod
  BY <1>3, <1>6, <1>7, NextOrderState
<1>9. ds \in SUBSET Reported
  OBVIOUS
<1> HIDE DEF q, ds
<1> QED
  BY <1>1, <1>8, <1>9

LEMMA SendsTyped ==
  ASSUME Typed, NEW q \in PocState, NEW ds \in SUBSET Devices, Sends(q, ds)
  PROVE  /\ sent' \in Nat /\ sent <= sent' /\ lost' \in Nat
         /\ net' \subseteq ReportOf(Devices)
         /\ \A r \in net' : r.to <= sockets /\ r.seq \in 1 .. sent'
         /\ last' \in [Devices -> [report : Kept, lost : BOOLEAN]]
         /\ \A d \in Devices : last'[d].report.to <= sockets
<1>1. \A d \in ds : LET r == Report(q, d, sent + 1) IN
        r \in ReportOf(Devices) /\ r \in Kept /\ r.to = clientaddrInputs /\ r.seq = sent + 1
  BY ReportFields
<1>2. sent \in Nat /\ sent' \in Nat /\ sent <= sent' /\ lost' \in Nat
      /\ clientaddrInputs <= sockets /\ (ds # {} => sent' = sent + 1)
  BY DEF Typed, Sends
<1>3. ASSUME NEW r \in net'
      PROVE  r \in ReportOf(Devices) /\ r.to <= sockets /\ r.seq \in 1 .. sent'
  <2>1. CASE r \in net
    BY <1>2, <2>1 DEF Typed
  <2>2. CASE r \notin net
    <3>1. PICK d \in ds : r = Report(q, d, sent + 1)
      BY <2>2 DEF Sends
    <3> QED
      BY <1>1, <1>2, <3>1
  <2> QED
    BY <2>1, <2>2
<1>4. ASSUME NEW d \in Devices
      PROVE  last'[d] \in [report : Kept, lost : BOOLEAN] /\ last'[d].report.to <= sockets
  <2>1. CASE d \in ds
    <3>1. PICK out : last'[d] = [report |-> Report(q, d, sent + 1), lost |-> d \notin out]
      BY <2>1 DEF Sends
    <3> QED
      BY <1>1, <1>2, <2>1, <3>1
  <2>2. CASE d \notin ds
    BY <2>2 DEF Sends, Typed
  <2> QED
    BY <2>1, <2>2
<1>5. last' \in [Devices -> [report : Kept, lost : BOOLEAN]]
  <2>0. PICK out \in SUBSET ds :
          last' = [d \in Devices |->
                IF d \in ds THEN [report |-> Report(q, d, sent + 1), lost |-> d \notin out]
                            ELSE last[d]]
    BY DEF Sends
  <2> DEFINE new == [d \in Devices |->
                IF d \in ds THEN [report |-> Report(q, d, sent + 1), lost |-> d \notin out]
                            ELSE last[d]]
  <2>1. last' = new
    BY <2>0
  <2>2. \A d \in Devices : new[d] \in [report : Kept, lost : BOOLEAN]
    BY <1>4, <2>1
  <2> QED
    BY <2>1, <2>2
<1> QED
  BY <1>2, <1>3, <1>4, <1>5

LEMMA NewerOrder ==
  ASSUME NEW S, NEW r \in ReportOf(S), NEW T, NEW q \in ReportOf(T)
  PROVE  /\ r.frame \in Nat /\ r.order \in Nat /\ q.frame \in Nat /\ q.order \in Nat
         /\ Newer(r, q) => ~Newer(q, r)
<1> QED
  BY DEF ReportOf, Newer

(* Reports that are later than everything before keep the order.              *)
LEMMA SendsOrdered ==
  ASSUME Typed, Ordered, Bounded, UNCHANGED <<sockInputs, held>>,
         NEW q \in PocState, NEW ds \in SUBSET Reported, Sends(q, ds),
         \A d \in ds : Newer([frame |-> q.frame_ddr, order |-> q.dev[d].order], Now(d))
  PROVE  Ordered'
<1> SUFFICES ASSUME sockInputs # 0, NEW d \in Devices
             PROVE  /\ \A r \in Mine(d)' : /\ r.seq # held[d].seq
                                           /\ r.seq > held[d].seq => Newer(r, held[d])
                                           /\ r.seq < held[d].seq => Newer(held[d], r)
                    /\ \A r, p \in Mine(d)' : /\ r.seq < p.seq => Newer(p, r)
                                              /\ r.seq = p.seq => r = p
  BY DEF Ordered
<1> DEFINE new == Report(q, d, sent + 1)
<1>1. ds \in SUBSET Devices
  BY DEF Reported
<1>2. /\ new \in ReportOf(Devices) /\ new.seq = sent + 1 /\ new.to = clientaddrInputs
      /\ new.frame = q.frame_ddr /\ new.order = q.dev[d].order /\ new.dev = d
  BY ReportFields
<1>3. \A r \in Mine(d)' : r \in Mine(d) \/ (r = new /\ d \in ds /\ Listening)
  <2> SUFFICES ASSUME NEW r \in net', r.dev = d, r.to = sockInputs, r \notin net
               PROVE  r = new /\ d \in ds /\ Listening
    BY DEF Mine
  <2>1. PICK e \in ds : r = Report(q, e, sent + 1)
    BY DEF Sends
  <2>2. e = d /\ clientaddrInputs = sockInputs
    BY <1>1, <2>1, ReportFields
  <2> QED
    BY <2>1, <2>2 DEF Reported, Listening
<1> HIDE DEF new
<1>4. \A r \in Mine(d) : r \in ReportOf(Devices) /\ r.seq \in Nat /\ r.seq <= sent
  BY DEF Mine, Typed
<1>5. held[d] \in Kept /\ held[d].seq \in Nat /\ held[d].seq <= sent /\ sent \in Nat
  BY DEF Typed, Kept, ReportOf
<1>6. poc.frame_ddr \in Nat /\ poc.dev[d].order \in Nat
  BY Positive DEF Typed, PocState, DeviceState
<1>7. ASSUME d \in ds, Listening, NEW r, r.frame \in Nat, r.order \in Nat, ~Newer(r, Now(d))
      PROVE  Newer(new, r)
  <2>1. new.frame \in Nat /\ new.order \in Nat
    BY <1>2 DEF ReportOf
  <2>2. Newer([frame |-> new.frame, order |-> new.order], Now(d))
    BY <1>2, <1>7
  <2> QED
    BY <1>6, <1>7, <2>1, <2>2 DEF Newer, Now
<1>8. \A r \in Mine(d) : d \in ds /\ Listening => Newer(new, r)
  BY <1>4, <1>7 DEF Bounded, ReportOf
<1>9. d \in ds /\ Listening => Newer(new, held[d])
  BY <1>5, <1>7 DEF Bounded, Kept, ReportOf
<1>10. \A r \in Mine(d)' : /\ r.seq # held[d].seq
                           /\ r.seq > held[d].seq => Newer(r, held[d])
                           /\ r.seq < held[d].seq => Newer(held[d], r)
  BY <1>2, <1>3, <1>5, <1>9 DEF Ordered
<1>11. \A r, p \in Mine(d)' : /\ r.seq < p.seq => Newer(p, r)
                              /\ r.seq = p.seq => r = p
  <2> SUFFICES ASSUME NEW r \in Mine(d)', NEW p \in Mine(d)'
               PROVE  /\ r.seq < p.seq => Newer(p, r)
                      /\ r.seq = p.seq => r = p
    OBVIOUS
  <2>1. CASE r \in Mine(d) /\ p \in Mine(d)
    BY <2>1 DEF Ordered
  <2>2. CASE r \in Mine(d) /\ p = new /\ d \in ds /\ Listening
    BY <1>2, <1>4, <1>5, <1>8, <2>2
  <2>3. CASE p \in Mine(d) /\ r = new /\ d \in ds /\ Listening
    BY <1>2, <1>4, <1>5, <2>3
  <2>4. CASE r = new /\ p = new
    BY <1>2, <1>5, <2>4
  <2> QED
    BY <1>3, <2>1, <2>2, <2>3, <2>4
<1> QED
  BY <1>10, <1>11

(* And stay behind the server, when they carry its stamp.                     *)
LEMMA SendsBounded ==
  ASSUME Typed, Bounded, poc' \in PocState,
         UNCHANGED <<sockInputs, clientaddrInputs, isConnectedInputs, held>>,
         NEW q \in PocState, NEW ds \in SUBSET Reported, Sends(q, ds),
         \A d \in ds : Now(d)' = [frame |-> q.frame_ddr, order |-> q.dev[d].order],
         \A d \in Devices : ~Newer(Now(d), Now(d)')
  PROVE  Bounded'
<1> SUFFICES ASSUME Listening, NEW d \in Devices
             PROVE  /\ \A r \in Mine(d)' : ~Newer(r, Now(d)')
                    /\ ~Newer(held[d], Now(d)')
  BY DEF Bounded, Listening
<1>1. /\ poc.frame_ddr \in Nat /\ poc.dev[d].order \in Nat
      /\ poc'.frame_ddr \in Nat /\ poc'.dev[d].order \in Nat
  BY Positive DEF Typed, PocState, DeviceState
<1>2. ASSUME NEW r, r.frame \in Nat, r.order \in Nat, ~Newer(r, Now(d))
      PROVE  ~Newer(r, Now(d)')
  BY <1>1, <1>2 DEF Newer, Now
<1>3. held[d].frame \in Nat /\ held[d].order \in Nat
  BY DEF Typed, Kept, ReportOf
<1>4. ASSUME NEW r \in Mine(d)'
      PROVE  ~Newer(r, Now(d)')
  <2>1. CASE r \in net
    <3>1. r \in Mine(d) /\ r.frame \in Nat /\ r.order \in Nat
      BY <1>4, <2>1 DEF Mine, Typed, ReportOf
    <3> QED
      BY <1>2, <3>1 DEF Bounded
  <2>2. CASE r \notin net
    <3>1. PICK e \in ds : r = Report(q, e, sent + 1)
      BY <1>4, <2>2 DEF Sends, Mine
    <3>2. e = d /\ r.frame = q.frame_ddr /\ r.order = q.dev[d].order
      BY <1>4, <3>1, ReportFields DEF Mine, Reported
    <3>3. r.frame = poc'.frame_ddr /\ r.order = poc'.dev[d].order
      BY <3>1, <3>2 DEF Now
    <3> QED
      BY <1>1, <3>3 DEF Newer, Now
  <2> QED
    BY <2>1, <2>2
<1> QED
  BY <1>2, <1>3, <1>4 DEF Bounded

(* A report that is sent is the last of its device.                           *)
LEMMA SendsLast ==
  ASSUME Typed, LastKept, NEW q \in PocState, NEW ds \in SUBSET Reported, Sends(q, ds),
         NEW d \in Devices
  PROVE  /\ \A p \in net' : p.dev = d => p.seq <= last'[d].report.seq
         /\ last'[d].report.to # 0 => DoInputs[d] # 0
         /\ d \notin ds => last'[d] = last[d]
         /\ d \in ds => /\ last'[d].report = Report(q, d, sent + 1)
                        /\ ~last'[d].lost => last'[d].report \in net'
                        /\ Says(last'[d].report, d, q.dev[d])
<1>1. ds \in SUBSET Devices /\ \A e \in ds : DoInputs[e] # 0
  BY DEF Reported
<1>2. \A e \in ds : LET r == Report(q, e, sent + 1) IN
        /\ r.dev = e /\ r.seq = sent + 1 /\ r.digital = q.dev[e].digital
        /\ DoInputs[e] = 2 => r.analog = q.dev[e].analog
  BY <1>1, ReportFields
<1>3. sent \in Nat /\ \A p \in net : p.seq \in 1 .. sent
  BY DEF Typed
<1>4. ASSUME NEW p \in net', p.dev = d, p \notin net
      PROVE  d \in ds /\ p.seq = sent + 1
  <2>1. PICK e \in ds : p = Report(q, e, sent + 1)
    BY <1>4 DEF Sends
  <2> QED
    BY <1>2, <1>4, <2>1
<1>5. CASE d \in ds
  <2>1. last'[d].report = Report(q, d, sent + 1)
    BY <1>5 DEF Sends
  <2>2. ~last'[d].lost => Report(q, d, sent + 1) \in net'
    <3>1. PICK out \in SUBSET ds :
            /\ net' = net \union {Report(q, e, sent + 1) : e \in out}
            /\ last'[d] = [report |-> Report(q, d, sent + 1), lost |-> d \notin out]
      BY <1>5 DEF Sends
    <3>2. last'[d].lost = (d \notin out)
      BY <3>1
    <3> QED
      BY <3>1, <3>2
  <2>3. \A p \in net' : p.dev = d => p.seq <= sent + 1
    BY <1>3, <1>4
  <2> QED
    BY <1>1, <1>2, <1>5, <2>1, <2>2, <2>3 DEF Says
<1>6. CASE d \notin ds
  <2>1. last'[d] = last[d]
    BY <1>6 DEF Sends
  <2> QED
    BY <1>4, <1>6, <2>1 DEF LastKept
<1> QED
  BY <1>5, <1>6

LEMMA SendsKept ==
  ASSUME Typed, LastKept, UNCHANGED <<sockInputs, held>>,
         NEW q \in PocState, NEW ds \in SUBSET Reported, Sends(q, ds), NEW d \in Devices
  PROVE  LET r == last'[d].report IN
         sockInputs # 0 /\ r.to = sockInputs /\ ~last'[d].lost =>
           \/ r \in net' /\ r.dev = d /\ held[d].seq <= r.seq
           \/ held[d].seq = r.seq /\ Says(held[d], d, r)
<1>1. ds \in SUBSET Devices
  BY DEF Reported
<1>2. CASE d \in ds
  <2>1. /\ last'[d].report = Report(q, d, sent + 1)
        /\ ~last'[d].lost => last'[d].report \in net'
    BY <1>2, SendsLast
  <2>2. last'[d].report.dev = d /\ last'[d].report.seq = sent + 1
    BY <1>1, <1>2, <2>1, ReportFields
  <2>3. held[d].seq <= sent /\ sent \in Nat /\ held[d].seq \in Nat
    BY DEF Typed, Kept, ReportOf
  <2> QED
    BY <2>1, <2>2, <2>3
<1>3. CASE d \notin ds
  <2>1. last'[d] = last[d] /\ net \subseteq net'
    BY <1>3, SendsLast DEF Sends
  <2> QED
    BY <2>1 DEF LastKept
<1> QED
  BY <1>2, <1>3

-----------------------------------------------------------------------------
(* An event of the player, digital or analog.                                 *)

(* What an event of d leaves: q was sent to the devices ds.                   *)
EventSends(d, q, ds) ==
  /\ q \in PocState /\ ds \in SUBSET Reported /\ ds \subseteq {d} /\ Sends(q, ds)
  /\ q.frame_ddr = poc'.frame_ddr
  /\ \A e \in Devices :
       /\ poc'.dev[e].order = q.dev[e].order
       /\ poc'.dev[e].digital = q.dev[e].digital
       /\ poc'.dev[e].analog = q.dev[e].analog
       /\ poc'.dev[e].keep_alive = IF e \in ds THEN 0 ELSE poc.dev[e].keep_alive
       /\ e # d => /\ poc'.dev[e].order = poc.dev[e].order
                   /\ poc'.dev[e].digital = poc.dev[e].digital
                   /\ poc'.dev[e].analog = poc.dev[e].analog
  /\ d \notin ds => \/ d \notin Reported
                    \/ DoInputs[d] # 2 /\ poc'.dev[d].digital = poc.dev[d].digital

LEMMA EventEffect ==
  ASSUME Typed, NEW d \in Devices, NEW v \in Values, Digital(d, v) \/ Analog(d, v)
  PROVE  /\ poc' \in PocState
         /\ poc'.frame_recv = poc.frame_recv /\ poc'.frame_ddr = poc.frame_ddr
         /\ poc'.dev[d].order = (poc.dev[d].order + 1) % OrderMod
         /\ OrderFree(d)
         /\ \E q, ds : EventSends(d, q, ds)
         /\ UNCHANGED <<hasPoc, modeline, receiving, isConnectedInputs, clientaddrInputs,
                        inputsQueue, gmw, gmw_inputsBinded, sockInputs, sockets, isConnected,
                        modeConfigured, frame, held, unanswered>>
<1>1. poc \in PocState /\ {d} \in SUBSET Devices
  BY DEF Typed
<1> DEFINE n == NextOrder(poc, {d})
<1>2. /\ n \in PocState /\ n.frame_recv = poc.frame_recv /\ n.frame_ddr = poc.frame_ddr
      /\ \A e \in Devices :
           /\ n.dev[e].order =
                IF e = d THEN (poc.dev[e].order + 1) % OrderMod ELSE poc.dev[e].order
           /\ n.dev[e].digital = poc.dev[e].digital /\ n.dev[e].analog = poc.dev[e].analog
           /\ n.dev[e].keep_alive = poc.dev[e].keep_alive
  BY <1>1, NextOrderState
<1> HIDE DEF n
<1>3. /\ OrderFree(d)
      /\ UNCHANGED <<hasPoc, modeline, receiving, isConnectedInputs, clientaddrInputs,
                     inputsQueue, gmw, gmw_inputsBinded, sockInputs, sockets, isConnected,
                     modeConfigured, frame, held, unanswered>>
  BY DEF Digital, Analog, clientVars
<1>4. CASE Digital(d, v)
  <2> DEFINE q == [n EXCEPT !.dev[d].digital = v]
             ds == {d} \intersect Reported
  <2>1. Send(q, ds) /\ ds \in SUBSET Reported /\ ds \in SUBSET Devices /\ ds \subseteq {d}
    BY <1>4 DEF Digital, n, Reported
  <2>2. /\ q \in PocState /\ q.frame_recv = n.frame_recv /\ q.frame_ddr = n.frame_ddr
        /\ \A e \in Devices :
             /\ q.dev[e].order = n.dev[e].order /\ q.dev[e].analog = n.dev[e].analog
             /\ q.dev[e].keep_alive = n.dev[e].keep_alive
             /\ e # d => q.dev[e].digital = n.dev[e].digital
    BY <1>2, SMTT(60) DEF PocState, DeviceState
  <2>3. d \notin ds => d \notin Reported
    OBVIOUS
  <2> HIDE DEF q, ds
  <2>4. /\ Sends(q, ds) /\ poc' \in PocState
        /\ poc'.frame_recv = q.frame_recv /\ poc'.frame_ddr = q.frame_ddr
        /\ \A e \in Devices :
             /\ poc'.dev[e].order = q.dev[e].order
             /\ poc'.dev[e].digital = q.dev[e].digital
             /\ poc'.dev[e].analog = q.dev[e].analog
             /\ poc'.dev[e].keep_alive = IF e \in ds THEN 0 ELSE q.dev[e].keep_alive
    BY <2>1, <2>2, SendEffect
  <2>5. EventSends(d, q, ds)
    BY <1>2, <2>1, <2>2, <2>3, <2>4 DEF EventSends
  <2>6. poc'.dev[d].order = n.dev[d].order
    BY <2>2, <2>4
  <2> QED
    BY <1>2, <1>3, <2>2, <2>4, <2>5, <2>6
<1>5. CASE Analog(d, v)
  <2> DEFINE q == [n EXCEPT !.dev[d].analog = v]
             ds == {e \in {d} \intersect Reported : DoInputs[e] = 2}
  <2>1. Send(q, ds) /\ ds \in SUBSET Reported /\ ds \in SUBSET Devices /\ ds \subseteq {d}
    BY <1>5 DEF Analog, n, Reported
  <2>2. /\ q \in PocState /\ q.frame_recv = n.frame_recv /\ q.frame_ddr = n.frame_ddr
        /\ \A e \in Devices :
             /\ q.dev[e].order = n.dev[e].order /\ q.dev[e].digital = n.dev[e].digital
             /\ q.dev[e].keep_alive = n.dev[e].keep_alive
             /\ e # d => q.dev[e].analog = n.dev[e].analog
    BY <1>2, SMTT(60) DEF PocState, DeviceState
  <2>3. d \notin ds => d \notin Reported \/ DoInputs[d] # 2
    OBVIOUS
  <2> HIDE DEF q, ds
  <2>4. /\ Sends(q, ds) /\ poc' \in PocState
        /\ poc'.frame_recv = q.frame_recv /\ poc'.frame_ddr = q.frame_ddr
        /\ \A e \in Devices :
             /\ poc'.dev[e].order = q.dev[e].order
             /\ poc'.dev[e].digital = q.dev[e].digital
             /\ poc'.dev[e].analog = q.dev[e].analog
             /\ poc'.dev[e].keep_alive = IF e \in ds THEN 0 ELSE q.dev[e].keep_alive
    BY <2>1, <2>2, SendEffect
  <2>5. EventSends(d, q, ds)
    BY <1>2, <2>1, <2>2, <2>3, <2>4 DEF EventSends
  <2>6. poc'.dev[d].order = n.dev[d].order
    BY <2>2, <2>4
  <2> QED
    BY <1>2, <1>3, <2>2, <2>4, <2>5, <2>6
<1> QED
  BY <1>4, <1>5

(* A BLIT that the server takes: the frame may be shown, the orders restart,   *)
(* and what has waited too long is repeated.                                  *)
LEMMA BlittedEffect ==
  ASSUME TInv, NEW shown \in BOOLEAN, NEW answered \in BOOLEAN, Blitted(shown, answered)
  PROVE  /\ poc' \in PocState /\ poc'.frame_recv = frame + 1
         /\ poc'.frame_ddr = IF shown THEN frame + 1 ELSE poc.frame_ddr
         /\ \A d \in Devices : /\ poc'.dev[d].order = 0
                               /\ poc'.dev[d].digital = poc.dev[d].digital
                               /\ poc'.dev[d].analog = poc.dev[d].analog
                               /\ poc'.dev[d].keep_alive < Limit'
                               /\ d \notin Reported => poc'.dev[d].keep_alive = 0
         /\ unanswered' \in Nat
         /\ \E q \in PocState, ds \in SUBSET Reported :
              /\ Sends(q, ds) /\ q.frame_ddr = poc'.frame_ddr
              /\ \A d \in Devices : /\ q.dev[d].order = 0
                                    /\ q.dev[d].digital = poc.dev[d].digital
                                    /\ q.dev[d].analog = poc.dev[d].analog
<1> DEFINE dev == [d \in Devices |->
                 [poc.dev[d] EXCEPT !.order = 0,
                                    !.keep_alive = IF d \in Reported THEN @ + 1 ELSE @]]
           q == [poc EXCEPT !.frame_recv = frame + 1,
                            !.frame_ddr  = IF shown THEN frame + 1 ELSE @,
                            !.dev = dev]
           ds == {d \in Devices : answered /\ RepeatDue(q.dev[d].keep_alive)}
<1>1. Send(q, ds) /\ unanswered' = IF answered THEN 0 ELSE unanswered + 1
  BY DEF Blitted, KeepAlives
<1>2. /\ poc \in PocState /\ frame \in Nat /\ unanswered \in Nat
      /\ \A d \in Devices : /\ poc.dev[d] \in DeviceState
                            /\ poc.dev[d].keep_alive < Limit
                            /\ d \notin Reported => poc.dev[d].keep_alive = 0
  BY DEF TInv, Typed, Ticking, PocState
<1>3. ASSUME NEW d \in Devices
      PROVE  /\ dev[d] \in DeviceState /\ dev[d].order = 0
             /\ dev[d].digital = poc.dev[d].digital /\ dev[d].analog = poc.dev[d].analog
             /\ dev[d].keep_alive = IF d \in Reported THEN poc.dev[d].keep_alive + 1
                                                      ELSE poc.dev[d].keep_alive
  <2>1. poc.dev[d] \in DeviceState /\ poc.dev[d].keep_alive \in Nat
    BY <1>2 DEF DeviceState
  <2>2. dev[d] = [poc.dev[d] EXCEPT !.order = 0,
                    !.keep_alive = IF d \in Reported THEN poc.dev[d].keep_alive + 1
                                                     ELSE poc.dev[d].keep_alive]
    OBVIOUS
  <2> HIDE DEF dev
  <2>3. PICK k \in Nat : k = IF d \in Reported THEN poc.dev[d].keep_alive + 1
                                               ELSE poc.dev[d].keep_alive
    BY <2>1
  <2>4. dev[d] = [poc.dev[d] EXCEPT !.order = 0, !.keep_alive = k]
    BY <2>2, <2>3
  <2> QED
    BY <2>1, <2>3, <2>4, Positive DEF DeviceState
<1>4. dev \in [Devices -> DeviceState]
  BY <1>3
<1> HIDE DEF dev
<1>5. /\ q \in PocState /\ q.dev = dev /\ q.frame_recv = frame + 1
      /\ q.frame_ddr = IF shown THEN frame + 1 ELSE poc.frame_ddr
  <2>1. PICK f \in Nat : f = IF shown THEN frame + 1 ELSE poc.frame_ddr
    BY <1>2 DEF PocState
  <2>a. q = [poc EXCEPT !.frame_recv = frame + 1, !.frame_ddr = f, !.dev = dev]
    BY <2>1
  <2> HIDE DEF q
  <2>b. /\ DOMAIN q = DOMAIN poc /\ q.frame_recv = frame + 1 /\ q.frame_ddr = f
        /\ q.dev = dev
    BY <1>2, <2>a DEF PocState
  <2>2. q = [frame_recv |-> frame + 1, frame_ddr |-> f, dev |-> dev]
    BY <1>2, <2>a DEF PocState
  <2> HIDE DEF q
  <2>3. frame + 1 \in Nat
    BY <1>2
  <2>4. q \in PocState
    BY <1>4, <2>1, <2>2, <2>3 DEF PocState
  <2> QED
    BY <2>1, <2>2, <2>4
<1>6. ds \in SUBSET Devices /\ \A d \in Devices :
        d \notin ds => ~answered \/ ~(q.dev[d].keep_alive >= KeepAliveFrames)
  BY DEF RepeatDue
<1>7. ds \in SUBSET Reported
  <2> SUFFICES ASSUME NEW d \in ds PROVE d \in Reported
    OBVIOUS
  <2>1. d \in Devices /\ q.dev[d].keep_alive >= KeepAliveFrames
    BY DEF RepeatDue
  <2>2. d \notin Reported => q.dev[d].keep_alive = 0
    BY <1>2, <1>3, <1>5, <2>1
  <2> QED
    BY <2>1, <2>2, Positive
<1> HIDE DEF q, ds
<1>8. /\ Sends(q, ds) /\ poc' \in PocState
      /\ poc'.frame_recv = q.frame_recv /\ poc'.frame_ddr = q.frame_ddr
      /\ \A d \in Devices :
           /\ poc'.dev[d].order = q.dev[d].order
           /\ poc'.dev[d].digital = q.dev[d].digital
           /\ poc'.dev[d].analog = q.dev[d].analog
           /\ poc'.dev[d].keep_alive = IF d \in ds THEN 0 ELSE q.dev[d].keep_alive
  BY <1>1, <1>5, <1>6, SendEffect DEF TInv
<1>9. /\ unanswered' \in Nat
      /\ \A d \in Devices :
           /\ poc'.dev[d].keep_alive < Limit'
           /\ d \notin Reported => poc'.dev[d].keep_alive = 0
  <2>1. /\ unanswered' \in Nat
        /\ answered => Limit' = KeepAliveFrames
        /\ ~answered => Limit' = Limit + 1
    BY <1>1, <1>2, Positive DEF Limit
  <2> SUFFICES ASSUME NEW d \in Devices
               PROVE  /\ poc'.dev[d].keep_alive < Limit'
                      /\ d \notin Reported => poc'.dev[d].keep_alive = 0
    BY <2>1
  <2>2. /\ poc.dev[d].keep_alive \in Nat /\ KeepAliveFrames \in Nat \ {0}
        /\ Limit \in Nat /\ 0 < Limit
    BY <1>2, Positive, LimitAbove DEF DeviceState, TInv
  <2>3. q.dev[d].keep_alive = IF d \in Reported THEN poc.dev[d].keep_alive + 1
                                                ELSE poc.dev[d].keep_alive
    BY <1>3, <1>5
  <2>4. q.dev[d].keep_alive < Limit + 1
    BY <1>2, <2>2, <2>3
  <2>5. poc'.dev[d].keep_alive = IF d \in ds THEN 0 ELSE q.dev[d].keep_alive
    BY <1>8
  <2>6. poc'.dev[d].keep_alive < Limit'
    <3>1. CASE d \in ds
      BY <2>1, <2>2, <2>5, <3>1
    <3>2. CASE d \notin ds /\ answered
      BY <1>6, <2>1, <2>2, <2>3, <2>5, <3>2
    <3>3. CASE d \notin ds /\ ~answered
      BY <2>1, <2>2, <2>4, <2>5, <3>3
    <3> QED
      BY <3>1, <3>2, <3>3
  <2> QED
    BY <1>2, <2>3, <2>5, <2>6
<1> QED
  BY <1>3, <1>5, <1>7, <1>8, <1>9

-----------------------------------------------------------------------------
(* Types, action by action.                                                   *)

LEMMA InitTyped == InputInit => TInv
<1> SUFFICES ASSUME InputInit PROVE TInv
  OBVIOUS
<1>1. poc \in PocState /\ \A d \in Devices : poc.dev[d].keep_alive = 0
  BY NeutralState DEF InputInit
<1>2. NoReport \in Kept /\ NoReport.to = 0 /\ NoReport.seq = 0
  BY Positive DEF NoReport, Kept, ReportOf
<1>3. NothingHeld \in [Devices -> Kept] /\ \A d \in Devices : NothingHeld[d].seq = 0
  BY <1>2 DEF NothingHeld
<1>4. /\ last \in [Devices -> [report : Kept, lost : BOOLEAN]]
      /\ \A d \in Devices : last[d].report.to = 0
  BY <1>2 DEF InputInit
<1>5. inputsQueue \in Seq(Nat) /\ Len(inputsQueue) = 0
  BY DEF InputInit
<1>6. 0 < KeepAliveFrames
  BY Positive
<1>7. Ticking
  <2>1. Limit = KeepAliveFrames
    BY Positive DEF InputInit, Limit
  <2> QED
    BY <1>1, <1>6, <2>1 DEF Ticking
<1>8. /\ hasPoc \in BOOLEAN /\ modeline \in BOOLEAN /\ receiving \in BOOLEAN
      /\ isConnectedInputs \in BOOLEAN /\ gmw \in BOOLEAN /\ gmw_inputsBinded \in BOOLEAN
      /\ isConnected \in BOOLEAN /\ modeConfigured \in BOOLEAN
      /\ sockets = 0 /\ sockInputs = 0 /\ clientaddrInputs = 0
      /\ frame = 0 /\ sent = 0 /\ lost = 0 /\ unanswered = 0 /\ net = {} /\ held = NothingHeld
  BY DEF InputInit
<1> QED
  BY <1>1, <1>3, <1>4, <1>5, <1>7, <1>8 DEF TInv, Typed

LEMMA NothingTyped ==
  NothingHeld \in [Devices -> Kept] /\ \A d \in Devices : NothingHeld[d].seq = 0
<1>1. NoReport \in Kept /\ NoReport.seq = 0
  BY Positive DEF NoReport, Kept, ReportOf
<1> QED
  BY <1>1 DEF NothingHeld

LEMMA PlayerTyped ==
  ASSUME TInv, NEW d \in Devices, NEW v \in Values, Digital(d, v) \/ Analog(d, v)
  PROVE  TInv'
<1>1. Typed /\ Ticking
  BY DEF TInv
<1>2. PICK q, ds : EventSends(d, q, ds)
  BY <1>1, EventEffect
<1>3. q \in PocState /\ ds \in SUBSET Devices /\ Sends(q, ds)
  BY <1>2 DEF EventSends, Reported
<1>4. /\ poc' \in PocState
      /\ UNCHANGED <<hasPoc, modeline, receiving, isConnectedInputs, clientaddrInputs,
                     inputsQueue, gmw, gmw_inputsBinded, sockInputs, sockets, isConnected,
                     modeConfigured, frame, held, unanswered>>
  BY <1>1, EventEffect
<1>5. Ticking'
  <2> SUFFICES ASSUME NEW e \in Devices
               PROVE  /\ poc'.dev[e].keep_alive < Limit
                      /\ e \notin Reported => poc'.dev[e].keep_alive = 0
    BY <1>4 DEF Ticking, Reported, Limit
  <2>1. poc'.dev[e].keep_alive = IF e \in ds THEN 0 ELSE poc.dev[e].keep_alive
    BY <1>2 DEF EventSends
  <2>2. 0 < Limit
    BY <1>1, LimitAbove
  <2> QED
    BY <1>1, <2>1, <2>2 DEF Ticking
<1>6. Typed'
  <2>1. held' = held /\ sent \in Nat /\ sent' \in Nat /\ sent <= sent'
    BY <1>1, <1>3, <1>4, SendsTyped DEF Typed
  <2>2. \A e \in Devices : held'[e].seq <= sent'
    BY <1>1, <2>1, SMTT(60) DEF Typed, Kept, ReportOf
  <2> QED
    BY <1>1, <1>3, <1>4, <2>1, <2>2, SendsTyped DEF Typed
<1> QED
  BY <1>5, <1>6 DEF TInv

LEMMA BlittedTyped ==
  ASSUME TInv, NEW shown \in BOOLEAN, NEW answered \in BOOLEAN, Blitted(shown, answered),
         UNCHANGED isConnectedInputs
  PROVE  /\ poc' \in PocState /\ Ticking' /\ unanswered' \in Nat
         /\ sent' \in Nat /\ sent <= sent' /\ lost' \in Nat
         /\ net' \subseteq ReportOf(Devices)
         /\ \A r \in net' : r.to <= sockets /\ r.seq \in 1 .. sent'
         /\ last' \in [Devices -> [report : Kept, lost : BOOLEAN]]
         /\ \A d \in Devices : last'[d].report.to <= sockets
<1>1. PICK q \in PocState, ds \in SUBSET Reported : Sends(q, ds)
  BY BlittedEffect
<1>2. ds \in SUBSET Devices /\ Typed
  BY DEF Reported, TInv
<1>3. poc' \in PocState /\ Ticking' /\ unanswered' \in Nat
  BY BlittedEffect DEF Ticking, Reported, Limit
<1> QED
  BY <1>1, <1>2, <1>3, SendsTyped

LEMMA FramesTyped ==
  ASSUME TInv, Frames
  PROVE  TInv'
<1>1. Typed /\ Ticking
  BY DEF TInv
<1>2. ASSUME NEW dup \in BOOLEAN, NEW answered \in BOOLEAN, CmdBlit(dup, answered)
      PROVE  TInv'
  <2>1. /\ frame' = frame + 1
        /\ UNCHANGED <<hasPoc, modeline, isConnectedInputs, clientaddrInputs, inputsQueue,
                       gmw, gmw_inputsBinded, sockInputs, sockets, isConnected,
                       modeConfigured, held>>
    BY <1>2 DEF CmdBlit
  <2>2. CASE hasPoc /\ modeline
    <3>1. (hpsBlit = 0 \/ dup) \in BOOLEAN
      OBVIOUS
    <3>2. Blitted(hpsBlit = 0 \/ dup, answered) /\ receiving' = ~dup
      BY <1>2, <2>2 DEF CmdBlit
    <3>3. /\ poc' \in PocState /\ Ticking' /\ unanswered' \in Nat
          /\ sent' \in Nat /\ sent <= sent' /\ lost' \in Nat
          /\ net' \subseteq ReportOf(Devices)
          /\ \A r \in net' : r.to <= sockets /\ r.seq \in 1 .. sent'
          /\ last' \in [Devices -> [report : Kept, lost : BOOLEAN]]
          /\ \A d \in Devices : last'[d].report.to <= sockets
      BY <2>1, <3>1, <3>2, BlittedTyped
    <3>4. \A d \in Devices : held'[d].seq <= sent'
      BY <1>1, <2>1, <3>3 DEF Typed, Kept, ReportOf
    <3> QED
      BY <1>1, <2>1, <3>2, <3>3, <3>4, SMTT(60) DEF TInv, Typed
  <2>3. CASE ~(hasPoc /\ modeline)
    BY <1>1, <1>2, <2>1, <2>3 DEF CmdBlit, netVars, TInv, Typed, Ticking, Reported, Limit
  <2> QED
    BY <2>2, <2>3
<1>3. ASSUME NEW arrives \in BOOLEAN, CmdSwitchres(arrives)
      PROVE  TInv'
  <2>1. modeline' \in BOOLEAN
    BY <1>1, <1>3 DEF CmdSwitchres, Typed
  <2> QED
    BY <1>1, <1>3, <2>1 DEF CmdSwitchres, netVars, TInv, Typed, Ticking, Reported, Limit
<1>4. ASSUME NEW complete \in BOOLEAN, Received(complete)
      PROVE  TInv'
  <2>1. poc' \in PocState /\ poc'.dev = poc.dev
    BY <1>1, <1>4 DEF Received, Typed, PocState
  <2> QED
    BY <1>1, <1>4, <2>1
    DEF Received, clientVars, netVars, TInv, Typed, Ticking, Reported, Limit
<1> QED
  BY <1>2, <1>3, <1>4 DEF Frames

LEMMA NeutralTyped ==
  ASSUME Typed, Neutralize(ZeroPoc)
  PROVE  /\ poc' \in PocState /\ Ticking' /\ unanswered' \in Nat
         /\ sent' \in Nat /\ sent <= sent' /\ lost' \in Nat
         /\ net' \subseteq ReportOf(Devices)
         /\ \A r \in net' : r.to <= sockets /\ r.seq \in 1 .. sent'
         /\ last' \in [Devices -> [report : Kept, lost : BOOLEAN]]
         /\ \A d \in Devices : last'[d].report.to <= sockets
         /\ \A d \in Devices : held[d].seq <= sent'
<1>1. PICK q \in PocState, ds \in SUBSET Reported : Sends(q, ds)
  BY NeutralizeEffect
<1>2. ds \in SUBSET Devices
  BY DEF Reported
<1>3. poc' \in PocState /\ \A d \in Devices : poc'.dev[d].keep_alive = 0
  BY NeutralizeEffect, NeutralState
<1>4. 0 < KeepAliveFrames
  BY Positive
<1>5. Ticking' /\ unanswered' \in Nat
  <2>1. unanswered' = 0 /\ Limit' = KeepAliveFrames
    BY NeutralizeEffect, Positive DEF Limit
  <2> QED
    BY <1>3, <1>4, <2>1 DEF Ticking
<1>6. \A d \in Devices : held[d].seq <= sent'
  <2>1. sent \in Nat /\ sent' \in Nat /\ sent <= sent'
    BY <1>1, <1>2, SendsTyped DEF Typed
  <2> QED
    BY <2>1 DEF Typed, Kept, ReportOf
<1> QED
  BY <1>1, <1>2, <1>3, <1>5, <1>6, SendsTyped

LEMMA CloseTyped ==
  ASSUME TInv, NEW told \in BOOLEAN, gmw_close(told)
  PROVE  TInv'
<1>1. Typed /\ Ticking
  BY DEF TInv
<1>2. /\ sockInputs' = 0 /\ isConnected' = FALSE /\ modeConfigured' = FALSE
      /\ gmw' = FALSE /\ gmw_inputsBinded' = FALSE /\ held' = NothingHeld
      /\ UNCHANGED <<receiving, clientaddrInputs, inputsQueue, sockets, frame>>
  BY DEF gmw_close, ClientCloses
<1>3. 0 \in 0 .. sockets
  BY <1>1 DEF Typed
<1>4. CASE isConnected /\ told
  <2>1. /\ Neutralize(ZeroPoc) /\ hasPoc' \in BOOLEAN /\ modeline' = FALSE
        /\ isConnectedInputs' = FALSE
    BY <1>4 DEF gmw_close
  <2>2. \A d \in Devices : held'[d].seq <= sent'
    BY <1>1, <1>2, <2>1, NothingTyped, NeutralTyped DEF Typed
  <2> QED
    BY <1>1, <1>2, <1>3, <2>1, <2>2, NeutralTyped, NothingTyped DEF TInv, Typed
<1>5. CASE ~(isConnected /\ told)
  <2>1. UNCHANGED <<poc, hasPoc, modeline, isConnectedInputs, net, sent, lost, last,
                    unanswered>>
    BY <1>5 DEF gmw_close, netVars
  <2>2. Ticking'
    BY <1>1, <2>1 DEF Ticking, Reported, Limit
  <2>3. \A d \in Devices : held'[d].seq <= sent'
    BY <1>1, <1>2, <2>1, NothingTyped DEF Typed
  <2> QED
    BY <1>1, <1>2, <1>3, <2>1, <2>2, <2>3, NothingTyped DEF TInv, Typed
<1> QED
  BY <1>4, <1>5

LEMMA QueueTyped ==
  ASSUME Typed, ReadInputsSocket
  PROVE  /\ isConnectedInputs' \in BOOLEAN /\ clientaddrInputs' \in 0 .. sockets
         /\ inputsQueue' \in Seq(Nat)
         /\ \A i \in 1 .. Len(inputsQueue') : inputsQueue'[i] <= sockets
<1>1. CASE ~doXDPServer /\ Wanted /\ inputsQueue # <<>>
  <2>1. /\ clientaddrInputs' = Head(inputsQueue) /\ inputsQueue' = Tail(inputsQueue)
        /\ isConnectedInputs' = TRUE
    BY <1>1 DEF ReadInputsSocket
  <2>2. /\ inputsQueue \in Seq(Nat) /\ sockets \in Nat /\ Len(inputsQueue) \in Nat
        /\ Len(inputsQueue) > 0
        /\ \A i \in 1 .. Len(inputsQueue) : inputsQueue[i] \in Nat /\ inputsQueue[i] <= sockets
    BY <1>1, EmptySeq DEF Typed
  <2>3. Head(inputsQueue) = inputsQueue[1]
    BY <2>2
  <2>4. /\ Tail(inputsQueue) \in Seq(Nat) /\ Len(Tail(inputsQueue)) = Len(inputsQueue) - 1
        /\ \A i \in 1 .. Len(Tail(inputsQueue)) : Tail(inputsQueue)[i] = inputsQueue[i + 1]
    BY <1>1, <2>2, HeadTailProperties
  <2>5. \A i \in 1 .. Len(inputsQueue) - 1 : i + 1 \in 1 .. Len(inputsQueue)
    BY <2>2
  <2> QED
    BY <2>1, <2>2, <2>3, <2>4, <2>5
<1>2. CASE ~(~doXDPServer /\ Wanted /\ inputsQueue # <<>>)
  <2>1. /\ UNCHANGED <<clientaddrInputs, inputsQueue>>
        /\ isConnectedInputs' = (isConnectedInputs /\ ~isConnected)
    BY <1>2 DEF ReadInputsSocket
  <2> QED
    BY <2>1 DEF Typed
<1> QED
  BY <1>1, <1>2

LEMMA InitCallTyped ==
  ASSUME TInv, NEW outcome, gmw_init(outcome)
  PROVE  TInv'
<1>1. Typed /\ Ticking
  BY DEF TInv
<1>2. /\ gmw' = TRUE /\ sockInputs' = 0 /\ isConnected' \in BOOLEAN
      /\ modeConfigured' = FALSE /\ frame' = 0
      /\ UNCHANGED <<receiving, gmw_inputsBinded, sockets, held>>
  BY DEF gmw_init
<1>3. 0 \in 0 .. sockets /\ frame' \in Nat
  BY <1>1, <1>2 DEF Typed
<1>4. CASE /\ Neutralize(ZeroPoc) /\ hasPoc' = TRUE /\ modeline' = FALSE
           /\ ReadInputsSocket
  BY <1>1, <1>2, <1>3, <1>4, NeutralTyped, QueueTyped DEF TInv, Typed
<1>5. CASE /\ Neutralize(ZeroPoc) /\ hasPoc' \in BOOLEAN /\ modeline' = FALSE
           /\ isConnectedInputs' = FALSE
           /\ UNCHANGED <<clientaddrInputs, inputsQueue>>
  BY <1>1, <1>2, <1>3, <1>5, NeutralTyped DEF TInv, Typed
<1>6. CASE UNCHANGED <<poc, hasPoc, modeline, isConnectedInputs, clientaddrInputs,
                       inputsQueue, netVars>>
  BY <1>1, <1>2, <1>3, <1>6 DEF netVars, TInv, Typed, Ticking, Reported, Limit
<1> QED
  BY <1>4, <1>5, <1>6 DEF gmw_init

LEMMA BindTyped ==
  ASSUME TInv, gmw_bindInputs
  PROVE  TInv'
<1>1. Typed /\ Ticking
  BY DEF TInv
<1>2. /\ gmw' = TRUE /\ gmw_inputsBinded' = TRUE
      /\ sockInputs' = sockets + 1 /\ sockets' = sockets + 1
      /\ UNCHANGED <<poc, hasPoc, modeline, receiving, isConnected, modeConfigured, frame,
                     held, net, sent, lost, last, unanswered>>
  BY DEF gmw_bindInputs, netVars
<1>3. sockets \in Nat /\ sockets' \in Nat /\ sockInputs' \in 0 .. sockets'
  BY <1>1, <1>2 DEF Typed
<1>4. /\ clientaddrInputs' \in 0 .. sockets' /\ isConnectedInputs' \in BOOLEAN
      /\ inputsQueue' = inputsQueue \/ inputsQueue' = Append(inputsQueue, sockets + 1)
  <2>1. /\ \/ clientaddrInputs' = sockInputs' /\ isConnectedInputs' = TRUE
           \/ clientaddrInputs' = clientaddrInputs /\ isConnectedInputs' = isConnectedInputs
        /\ inputsQueue' = inputsQueue \/ inputsQueue' = Append(inputsQueue, sockInputs')
    BY DEF gmw_bindInputs
  <2>2. clientaddrInputs \in 0 .. sockets /\ isConnectedInputs \in BOOLEAN
    BY <1>1 DEF Typed
  <2>3. clientaddrInputs \in 0 .. sockets'
    BY <1>2, <1>3, <2>2
  <2> QED
    BY <1>2, <1>3, <2>1, <2>2, <2>3
<1>5. /\ inputsQueue' \in Seq(Nat)
      /\ \A i \in 1 .. Len(inputsQueue') : inputsQueue'[i] <= sockets'
  <2>1. /\ inputsQueue \in Seq(Nat) /\ Len(inputsQueue) \in Nat
        /\ \A i \in 1 .. Len(inputsQueue) : inputsQueue[i] \in Nat /\ inputsQueue[i] <= sockets
    BY <1>1 DEF Typed
  <2>2. CASE inputsQueue' = inputsQueue
    BY <1>2, <1>3, <2>1, <2>2
  <2>3. CASE inputsQueue' = Append(inputsQueue, sockets + 1)
    <3>1. /\ inputsQueue' \in Seq(Nat) /\ Len(inputsQueue') = Len(inputsQueue) + 1
          /\ inputsQueue'[Len(inputsQueue) + 1] = sockets + 1
          /\ \A i \in 1 .. Len(inputsQueue) : inputsQueue'[i] = inputsQueue[i]
      BY <1>3, <2>1, <2>3, AppendProperties
    <3> QED
      BY <1>2, <1>3, <2>1, <3>1
  <2> QED
    BY <1>4, <2>2, <2>3
<1>6. \A r \in net' : r.to <= sockets' /\ r.seq \in 1 .. sent'
  BY <1>1, <1>2, <1>3 DEF Typed, ReportOf
<1>7. \A d \in Devices : last'[d].report.to <= sockets'
  BY <1>1, <1>2, <1>3 DEF Typed, Kept, ReportOf
<1>8. Ticking'
  <2>1. isConnectedInputs => isConnectedInputs'
    BY DEF gmw_bindInputs
  <2> QED
    BY <1>1, <1>2, <2>1 DEF Ticking, Reported, Limit
<1> QED
  BY <1>1, <1>2, <1>3, <1>4, <1>5, <1>6, <1>7, <1>8 DEF TInv, Typed

LEMMA StopTyped ==
  ASSUME TInv, StopServer
  PROVE  TInv'
<1>1. Typed /\ Ticking
  BY DEF TInv
<1>2. /\ Neutralize(ZeroPoc) /\ hasPoc' = TRUE /\ modeline' = FALSE
      /\ isConnectedInputs' = FALSE /\ inputsQueue' = <<>>
      /\ UNCHANGED <<receiving, clientaddrInputs, gmw, gmw_inputsBinded, sockInputs, sockets,
                     isConnected, modeConfigured, frame, held>>
  BY DEF StopServer, clientVars
<1>3. inputsQueue' \in Seq(Nat) /\ \A i \in 1 .. Len(inputsQueue') : FALSE
  BY <1>2
<1> QED
  BY <1>1, <1>2, <1>3, NeutralTyped DEF TInv, Typed

LEMMA PollTyped ==
  ASSUME TInv, NEW r \in net, PollInputs(r)
  PROVE  TInv'
<1>1. Typed /\ Ticking
  BY DEF TInv
<1>2. /\ net' = net \ {r}
      /\ UNCHANGED <<poc, hasPoc, modeline, receiving, isConnectedInputs, clientaddrInputs,
                     inputsQueue, gmw, gmw_inputsBinded, sockInputs, sockets, isConnected,
                     modeConfigured, frame, sent, lost, last, unanswered>>
  BY DEF PollInputs, serverVars, clientVars
<1>3. r \in ReportOf(Devices) /\ r.seq \in 1 .. sent
  BY <1>1 DEF Typed
<1>4. held' \in [Devices -> Kept] /\ \A d \in Devices : held'[d].seq <= sent'
  <2>1. CASE held' = held
    BY <1>1, <1>2, <2>1 DEF Typed
  <2>2. CASE held' # held
    <3> DEFINE new == [r EXCEPT !.analog = IF DoInputs[r.dev] = 2 THEN @
                                           ELSE held[r.dev].analog]
    <3>1. held' = [held EXCEPT ![r.dev] = new]
      BY <2>2 DEF PollInputs
    <3>2. r.dev \in Devices /\ held[r.dev].analog \in Values /\ r.analog \in Values
      BY <1>1, <1>3 DEF Typed, Kept, ReportOf
    <3>3. PICK a \in Values : new = [r EXCEPT !.analog = a]
      BY <3>2
    <3> HIDE DEF new
    <3>4. new \in Kept /\ new.seq = r.seq
      BY <1>3, <3>2, <3>3 DEF ReportOf, Kept
    <3> QED
      BY <1>1, <1>2, <1>3, <3>1, <3>2, <3>4 DEF Typed
  <2> QED
    BY <2>1, <2>2
<1> QED
  BY <1>1, <1>2, <1>4 DEF TInv, Typed, Ticking, Reported, Limit

LEMMA LoseTyped ==
  ASSUME TInv, NEW r \in net, LoseReport(r)
  PROVE  TInv'
<1>1. Typed /\ Ticking
  BY DEF TInv
<1>2. /\ net' = net \ {r} /\ lost' = lost + 1
      /\ UNCHANGED <<poc, hasPoc, modeline, receiving, isConnectedInputs, clientaddrInputs,
                     inputsQueue, gmw, gmw_inputsBinded, sockInputs, sockets, isConnected,
                     modeConfigured, frame, held, sent, unanswered>>
  BY DEF LoseReport, serverVars, clientVars
<1>3. /\ last' \in [Devices -> [report : Kept, lost : BOOLEAN]]
      /\ \A d \in Devices : last'[d].report = last[d].report
  <2>1. last' = last \/ last' = [last EXCEPT ![r.dev].lost = TRUE]
    BY DEF LoseReport
  <2>2. r.dev \in Devices /\ last \in [Devices -> [report : Kept, lost : BOOLEAN]]
    BY <1>1 DEF Typed, ReportOf
  <2>3. CASE last' = last
    BY <2>2, <2>3
  <2>4. CASE last' = [last EXCEPT ![r.dev].lost = TRUE]
    <3> DEFINE new == [last[r.dev] EXCEPT !.lost = TRUE]
    <3>1. new \in [report : Kept, lost : BOOLEAN] /\ new.report = last[r.dev].report
      BY <2>2
    <3>2. last' = [last EXCEPT ![r.dev] = new]
      BY <2>4
    <3> HIDE DEF new
    <3> QED
      BY <2>2, <3>1, <3>2
  <2> QED
    BY <2>1, <2>3, <2>4
<1>4. lost' \in Nat
  BY <1>1, <1>2 DEF Typed
<1> QED
  BY <1>1, <1>2, <1>3, <1>4 DEF TInv, Typed, Ticking, Reported, Limit

LEMMA StepTyped == TInv /\ [InputNext]_inputVars => TInv'
<1> SUFFICES ASSUME TInv, [InputNext]_inputVars PROVE TInv'
  OBVIOUS
<1>1. CASE Player
  BY <1>1, PlayerTyped DEF Player
<1>2. CASE Frames
  BY <1>2, FramesTyped
<1>3. CASE Session
  BY <1>3, CloseTyped, InitCallTyped, BindTyped, StopTyped DEF Session
<1>4. CASE Reports
  BY <1>4, PollTyped, LoseTyped DEF Reports
<1>5. CASE UNCHANGED inputVars
  BY <1>5 DEF inputVars, serverVars, clientVars, netVars, TInv, Typed, Ticking, Reported, Limit
<1> QED
  BY <1>1, <1>2, <1>3, <1>4, <1>5 DEF InputNext

LEMMA InputInvariant == InputSpec => []TInv
<1> QED
  BY InitTyped, StepTyped, PTL DEF InputSpec

(* Every state of the server and of the client has its type, for any devices, *)
(* values, kind of server and options.                                       *)
THEOREM InputTyped == InputSpec => []InputTypeOK
<1>1. TInv => InputTypeOK
  <2> SUFFICES ASSUME TInv PROVE InputTypeOK
    OBVIOUS
  <2>1. poc \in [frame_recv : Nat, frame_ddr : Nat,
              dev : [Devices -> [order : 0 .. OrderMod - 1, keep_alive : Nat,
                                 digital : Values, analog : Values]]]
    BY DEF TInv, Typed, PocState, DeviceState
  <2>2. {hasPoc, modeline, receiving, isConnectedInputs, gmw, gmw_inputsBinded, isConnected,
         modeConfigured} \subseteq BOOLEAN
    BY DEF TInv, Typed
  <2>3. {clientaddrInputs, sockInputs, sockets, frame, sent, lost, unanswered} \subseteq Nat
    <3>1. clientaddrInputs \in Nat /\ sockInputs \in Nat
      BY DEF TInv, Typed
    <3> QED
      BY <3>1 DEF TInv, Typed
  <2>4. \A r \in net : r.seq \in 1 .. sent /\ r.digital \in Values /\ r.analog \in Values
    BY DEF TInv, Typed, ReportOf
  <2> QED
    BY <2>1, <2>2, <2>3, <2>4, Zenon DEF InputTypeOK
<1> QED
  BY <1>1, InputInvariant, PTL

(* A device whose client listens is reported at least every KeepAliveFrames   *)
(* BLITs, not counting the BLITs whose ACK the TX ring refuses, whatever else *)
(* is lost and whenever sessions begin and end; over UDP there are none.      *)
THEOREM RepeatSafe == InputSpec => []RepeatedInTime
<1>1. TInv => RepeatedInTime
  BY Zenon DEF TInv, Ticking, Limit, RepeatedInTime, Reported
<1> QED
  BY <1>1, InputInvariant, PTL

-----------------------------------------------------------------------------
(* The stamps, action by action.                                              *)

LEMMA InitStamps == Stamping /\ InputInit => Stamps
<1> SUFFICES ASSUME Stamping, InputInit PROVE Stamps
  OBVIOUS
<1>1. /\ net = {} /\ sockInputs = 0 /\ held = NothingHeld /\ isConnected = FALSE
      /\ \A d \in Devices : last[d].report.to = 0
  BY DEF InputInit, NoReport
<1>2. Ordered /\ Bounded /\ Unbound /\ LastKept
  BY <1>1 DEF Ordered, Bounded, Unbound, LastKept, Listening
<1>3. Growing
  <2>1. poc = ZeroPoc
    BY DEF InputInit
  <2>2. 0 + 1 < OrderMod
    BY Positive DEF Stamping
  <2> QED
    BY <1>1, <2>1, <2>2, NeutralState DEF Growing
<1> QED
  BY <1>2, <1>3 DEF Stamps

(* What neither the reports nor their stamps take part in.                    *)
LEMMA StillStamps ==
  ASSUME TInv, Stamps,
         UNCHANGED <<net, held, last, sockInputs, gmw_inputsBinded, isConnectedInputs,
                     clientaddrInputs, hasPoc>>,
         poc'.dev = poc.dev, poc'.frame_ddr = poc.frame_ddr, poc'.frame_recv = poc.frame_recv,
         isConnected' => isConnected, frame' \in Nat, frame <= frame'
  PROVE  Stamps'
<1>1. poc.frame_ddr \in Nat /\ frame \in Nat
  BY DEF TInv, Typed, PocState
<1>2. \A d \in Devices : Mine(d)' = Mine(d) /\ Now(d)' = Now(d)
  BY DEF Mine, Now
<1>3. Ordered'
  BY <1>2 DEF Stamps, Ordered
<1>4. Bounded'
  BY <1>2 DEF Stamps, Bounded, Listening
<1>5. Growing'
  BY <1>1 DEF Stamps, Growing
<1>6. Unbound'
  BY DEF Stamps, Unbound
<1>7. LastKept'
  BY DEF Stamps, LastKept, Listening, Says
<1> QED
  BY <1>3, <1>4, <1>5, <1>6, <1>7 DEF Stamps

LEMMA PlayerStamps ==
  ASSUME Stamping, TInv, Stamps, NEW d \in Devices, NEW v \in Values,
         Digital(d, v) \/ Analog(d, v)
  PROVE  Stamps'
<1>1. Typed /\ Ordered /\ Bounded /\ Growing /\ Unbound /\ LastKept
  BY DEF TInv, Stamps
<1>2. PICK q, ds : EventSends(d, q, ds)
  BY <1>1, EventEffect
<1>3. /\ q \in PocState /\ ds \in SUBSET Reported /\ ds \subseteq {d} /\ Sends(q, ds)
      /\ q.frame_ddr = poc'.frame_ddr
      /\ \A e \in Devices : poc'.dev[e].order = q.dev[e].order
      /\ \A e \in Devices : e # d => poc'.dev[e].order = poc.dev[e].order
  BY <1>2 DEF EventSends
<1>4. /\ poc' \in PocState
      /\ poc'.frame_recv = poc.frame_recv /\ poc'.frame_ddr = poc.frame_ddr
      /\ UNCHANGED <<hasPoc, isConnectedInputs, clientaddrInputs, gmw_inputsBinded, sockInputs,
                     isConnected, frame, held>>
  BY <1>1, EventEffect
<1>5. /\ poc.frame_ddr \in Nat
      /\ \A e \in Devices : poc.dev[e].order \in Nat
  BY <1>1, Positive DEF Typed, PocState, DeviceState
<1>6. /\ poc'.dev[d].order = poc.dev[d].order + 1
      /\ poc'.dev[d].order + 1 < OrderMod
  <2>1. /\ poc'.dev[d].order = (poc.dev[d].order + 1) % OrderMod
        /\ OrderFree(d)
    BY <1>1, EventEffect
  <2>2. poc.dev[d].order + 2 < OrderMod
    BY <2>1 DEF OrderFree, Stamping
  <2> QED
    BY <1>5, <2>1, <2>2, Positive
<1>7. Ordered'
  <2>1. ASSUME NEW e \in ds
        PROVE  Newer([frame |-> q.frame_ddr, order |-> q.dev[e].order], Now(e))
    <3>1. e = d
      BY <1>3, <2>1
    <3>2. q.frame_ddr = poc.frame_ddr /\ q.dev[d].order = poc.dev[d].order + 1
      BY <1>3, <1>4, <1>6
    <3> QED
      BY <1>5, <3>1, <3>2 DEF Newer, Now
  <2> QED
    BY <1>1, <1>3, <1>4, <2>1, SendsOrdered
<1>8. Bounded'
  <2>1. \A e \in ds : Now(e)' = [frame |-> q.frame_ddr, order |-> q.dev[e].order]
    BY <1>3 DEF Now, Reported
  <2>2. ASSUME NEW e \in Devices
        PROVE  ~Newer(Now(e), Now(e)')
    <3>1. poc'.dev[e].order = poc.dev[e].order \/ poc'.dev[e].order = poc.dev[e].order + 1
      BY <1>3, <1>6
    <3> QED
      BY <1>4, <1>5, <3>1 DEF Newer, Now
  <2> QED
    BY <1>1, <1>3, <1>4, <2>1, <2>2, SendsBounded
<1>9. Growing'
  BY <1>1, <1>3, <1>4, <1>6 DEF Growing
<1>10. Unbound'
  BY <1>1, <1>4 DEF Unbound
<1>11. LastKept'
  <2> SUFFICES ASSUME NEW e \in Devices
               PROVE  LET r == last'[e].report IN
                      Listening' /\ hasPoc' /\ r.to = sockInputs' =>
                        Says(r, e, poc'.dev[e])
    BY <1>1, <1>3, <1>4, SendsLast, SendsKept DEF LastKept
  <2> SUFFICES ASSUME Listening, hasPoc, last'[e].report.to = sockInputs
               PROVE  Says(last'[e].report, e, poc'.dev[e])
    BY <1>4 DEF Listening
  <2>1. CASE e \in ds
    <3>1. Says(last'[e].report, e, q.dev[e])
      BY <1>1, <1>3, <2>1, SendsLast
    <3> QED
      BY <1>2, <3>1 DEF EventSends, Says
  <2>2. CASE e \notin ds
    <3>1. last'[e] = last[e] /\ (last[e].report.to # 0 => DoInputs[e] # 0)
      BY <1>1, <1>3, <2>2, SendsLast DEF LastKept
    <3>2. DoInputs[e] # 0 /\ e \in Reported
      BY <3>1 DEF Listening, Reported
    <3>3. Says(last[e].report, e, poc.dev[e])
      BY <1>1, <3>1 DEF LastKept
    <3>4. /\ poc'.dev[e].digital = poc.dev[e].digital
          /\ DoInputs[e] = 2 => poc'.dev[e].analog = poc.dev[e].analog
      BY <1>2, <2>2, <3>2 DEF EventSends
    <3> QED
      BY <3>1, <3>3, <3>4 DEF Says
  <2> QED
    BY <2>1, <2>2
<1> QED
  BY <1>7, <1>8, <1>9, <1>10, <1>11 DEF Stamps

LEMMA BlittedStamps ==
  ASSUME Stamping, TInv, Stamps, NEW answered \in BOOLEAN, Blitted(TRUE, answered),
         isConnected, frame' = frame + 1,
         UNCHANGED <<hasPoc, isConnectedInputs, clientaddrInputs, gmw_inputsBinded, sockInputs,
                     isConnected, held>>
  PROVE  Stamps'
<1>1. Typed /\ Ordered /\ Bounded /\ Growing /\ Unbound /\ LastKept
  BY DEF TInv, Stamps
<1>2. PICK q \in PocState, ds \in SUBSET Reported :
        /\ Sends(q, ds) /\ q.frame_ddr = poc'.frame_ddr
        /\ \A d \in Devices : /\ q.dev[d].order = 0
                              /\ q.dev[d].digital = poc.dev[d].digital
                              /\ q.dev[d].analog = poc.dev[d].analog
  BY BlittedEffect
<1>3. /\ poc' \in PocState /\ poc'.frame_recv = frame + 1 /\ poc'.frame_ddr = frame + 1
      /\ \A d \in Devices : /\ poc'.dev[d].order = 0
                            /\ poc'.dev[d].digital = poc.dev[d].digital
                            /\ poc'.dev[d].analog = poc.dev[d].analog
  BY BlittedEffect
<1>4. poc.frame_ddr \in Nat /\ frame \in Nat /\ poc.frame_ddr < frame + 1
  BY <1>1 DEF Typed, PocState, Growing
<1>5. \A d \in Devices : Now(d)' = [frame |-> frame + 1, order |-> 0]
  BY <1>3 DEF Now
<1>6. ASSUME NEW d \in Devices
      PROVE  Newer(Now(d)', Now(d)) /\ ~Newer(Now(d), Now(d)')
  <2>1. Now(d)'.frame = frame + 1 /\ Now(d).frame = poc.frame_ddr
    BY <1>5 DEF Now
  <2>2. Now(d)'.frame > Now(d).frame /\ ~(Now(d).frame > Now(d)'.frame)
        /\ Now(d).frame # Now(d)'.frame
    BY <1>4, <2>1
  <2> QED
    BY <2>2 DEF Newer
<1>7. \A d \in ds : Now(d)' = [frame |-> q.frame_ddr, order |-> q.dev[d].order]
  BY <1>2, <1>3, <1>5 DEF Reported
<1>8. ds \subseteq Devices
  BY DEF Reported
<1>9. Ordered'
  <2>1. \A d \in ds : Newer([frame |-> q.frame_ddr, order |-> q.dev[d].order], Now(d))
    BY <1>6, <1>7, <1>8
  <2> QED
    BY <1>1, <1>2, <2>1, SendsOrdered
<1>10. Bounded'
  BY <1>1, <1>2, <1>3, <1>6, <1>7, SendsBounded
<1>11. Growing'
  <2>1. 0 + 1 < OrderMod /\ frame + 1 <= frame'
    BY <1>4, Positive DEF Stamping
  <2> QED
    BY <1>3, <2>1 DEF Growing
<1>12. Unbound'
  BY <1>1 DEF Unbound
<1>13. LastKept'
  <2> SUFFICES ASSUME NEW d \in Devices
               PROVE  LET r == last'[d].report IN
                      Listening' /\ hasPoc' /\ r.to = sockInputs' =>
                        Says(r, d, poc'.dev[d])
    BY <1>1, <1>2, SendsLast, SendsKept DEF LastKept
  <2> SUFFICES ASSUME Listening, hasPoc, last'[d].report.to = sockInputs
               PROVE  Says(last'[d].report, d, poc'.dev[d])
    BY DEF Listening
  <2>1. CASE d \in ds
    <3>1. Says(last'[d].report, d, q.dev[d])
      BY <1>1, <1>2, <2>1, SendsLast
    <3> QED
      BY <1>2, <1>3, <3>1 DEF Says
  <2>2. CASE d \notin ds
    <3>1. last'[d] = last[d]
      BY <1>1, <1>2, <2>2, SendsLast
    <3>2. Says(last[d].report, d, poc.dev[d])
      BY <1>1, <3>1 DEF LastKept
    <3> QED
      BY <1>3, <3>1, <3>2 DEF Says
  <2> QED
    BY <2>1, <2>2
<1> QED
  BY <1>9, <1>10, <1>11, <1>12, <1>13 DEF Stamps

LEMMA FramesStamps ==
  ASSUME Stamping, TInv, Stamps, Frames
  PROVE  Stamps'
<1>1. frame \in Nat /\ frame + 1 \in Nat /\ frame <= frame + 1
  BY DEF TInv, Typed
<1>2. ASSUME NEW dup \in BOOLEAN, NEW answered \in BOOLEAN, CmdBlit(dup, answered)
      PROVE  Stamps'
  <2>1. /\ isConnected /\ frame' = frame + 1
        /\ UNCHANGED <<hasPoc, isConnectedInputs, clientaddrInputs, gmw_inputsBinded,
                       sockInputs, isConnected, held>>
    BY <1>2 DEF CmdBlit
  <2>2. CASE hasPoc /\ modeline
    <3>1. Blitted(hpsBlit = 0 \/ dup, answered)
      BY <1>2, <2>2 DEF CmdBlit
    <3>2. (hpsBlit = 0 \/ dup) = TRUE
      BY DEF Stamping
    <3>3. Blitted(TRUE, answered)
      BY <3>1, <3>2
    <3> QED
      BY <2>1, <3>3, BlittedStamps
  <2>3. CASE ~(hasPoc /\ modeline)
    <3>1. UNCHANGED <<poc, net, last>>
      BY <1>2, <2>3 DEF CmdBlit, netVars
    <3> QED
      BY <1>1, <2>1, <3>1, StillStamps
  <2> QED
    BY <2>2, <2>3
<1>3. ASSUME NEW arrives \in BOOLEAN, CmdSwitchres(arrives)
      PROVE  Stamps'
  <2>1. UNCHANGED <<poc, hasPoc, isConnectedInputs, clientaddrInputs, gmw_inputsBinded,
                    sockInputs, isConnected, frame, held, net, last>>
    BY <1>3 DEF CmdSwitchres, netVars
  <2> QED
    BY <1>1, <2>1, StillStamps
<1>4. ASSUME NEW complete \in BOOLEAN, Received(complete)
      PROVE  Stamps'
  <2>1. UNCHANGED <<hasPoc, isConnectedInputs, clientaddrInputs, gmw_inputsBinded,
                    sockInputs, isConnected, frame, held, net, last>>
    BY <1>4 DEF Received, clientVars, netVars
  <2>2. poc \in PocState /\ poc.frame_recv = poc.frame_ddr
    BY DEF TInv, Typed, Stamps, Growing
  <2>3. /\ poc'.dev = poc.dev /\ poc'.frame_ddr = poc.frame_ddr
        /\ poc'.frame_recv = poc.frame_recv
    BY <1>4, <2>2 DEF Received, PocState
  <2> QED
    BY <1>1, <2>1, <2>3, StillStamps
<1> QED
  BY <1>2, <1>3, <1>4 DEF Frames

(* While the client has no socket, only what was sent last matters.           *)
LEMMA DeafStamps ==
  ASSUME sockInputs' = 0, Growing',
         gmw_inputsBinded' \/ held' = NothingHeld,
         \A d \in Devices :
           /\ \A q \in net' : q.dev = d => q.seq <= last'[d].report.seq
           /\ last'[d].report.to # 0 => DoInputs[d] # 0
  PROVE  Stamps'
<1> QED
  BY DEF Stamps, Ordered, Bounded, Unbound, LastKept, Listening

(* The inputs are neutralised: the server starts its stamps again.            *)
LEMMA NeutralStamps ==
  ASSUME Stamping, TInv, Stamps, Neutralize(ZeroPoc)
  PROVE  /\ poc'.frame_recv = 0 /\ poc'.frame_ddr = 0
         /\ \A d \in Devices : poc'.dev[d].order + 1 < OrderMod
         /\ \A d \in Devices :
              /\ \A q \in net' : q.dev = d => q.seq <= last'[d].report.seq
              /\ last'[d].report.to # 0 => DoInputs[d] # 0
<1>1. Typed /\ LastKept
  BY DEF TInv, Stamps
<1>2. PICK q \in PocState, ds \in SUBSET Reported : Sends(q, ds)
  BY <1>1, NeutralizeEffect
<1>3. poc' = ZeroPoc
  BY <1>1, NeutralizeEffect
<1>4. 0 + 1 < OrderMod
  BY Positive DEF Stamping
<1> QED
  BY <1>1, <1>2, <1>3, <1>4, NeutralState, SendsLast

LEMMA CloseStamps ==
  ASSUME Stamping, TInv, Stamps, NEW told \in BOOLEAN, gmw_close(told)
  PROVE  Stamps'
<1>1. sockInputs' = 0 /\ isConnected' = FALSE /\ held' = NothingHeld
  BY DEF gmw_close, ClientCloses
<1>2. CASE isConnected /\ told
  <2>1. Neutralize(ZeroPoc)
    BY <1>2 DEF gmw_close
  <2>2. Growing'
    BY <1>1, <2>1, NeutralStamps DEF Growing
  <2> QED
    BY <1>1, <2>1, <2>2, NeutralStamps, DeafStamps
<1>3. CASE ~(isConnected /\ told)
  <2>1. UNCHANGED <<poc, net, last>>
    BY <1>3 DEF gmw_close, netVars
  <2>2. Growing'
    BY <1>1, <2>1 DEF Stamps, Growing
  <2>3. \A d \in Devices :
          /\ \A q \in net' : q.dev = d => q.seq <= last'[d].report.seq
          /\ last'[d].report.to # 0 => DoInputs[d] # 0
    BY <2>1 DEF Stamps, LastKept
  <2> QED
    BY <1>1, <2>2, <2>3, DeafStamps
<1> QED
  BY <1>2, <1>3

LEMMA InitCallStamps ==
  ASSUME Stamping, TInv, Stamps, NEW outcome, gmw_init(outcome)
  PROVE  Stamps'
<1>1. /\ sockInputs' = 0 /\ (isConnected' = (outcome = "acked")) /\ frame' = 0
      /\ UNCHANGED <<gmw_inputsBinded, held>>
  BY DEF gmw_init
<1>2. gmw_inputsBinded' \/ held' = NothingHeld
  BY <1>1 DEF Stamps, Unbound
<1>3. CASE Neutralize(ZeroPoc)
  <2>1. Growing'
    BY <1>1, <1>3, NeutralStamps DEF Growing
  <2> QED
    BY <1>1, <1>2, <1>3, <2>1, NeutralStamps, DeafStamps
<1>4. CASE outcome = "lost" /\ UNCHANGED <<poc, netVars>>
  <2>1. UNCHANGED <<poc, net, last>> /\ ~isConnected'
    BY <1>1, <1>4 DEF netVars
  <2>2. Growing'
    BY <2>1 DEF Stamps, Growing
  <2>3. \A d \in Devices :
          /\ \A q \in net' : q.dev = d => q.seq <= last'[d].report.seq
          /\ last'[d].report.to # 0 => DoInputs[d] # 0
    BY <2>1 DEF Stamps, LastKept
  <2> QED
    BY <1>1, <1>2, <2>2, <2>3, DeafStamps
<1> QED
  BY <1>3, <1>4 DEF gmw_init

LEMMA BindStamps ==
  ASSUME Stamping, TInv, Stamps, gmw_bindInputs
  PROVE  Stamps'
<1>1. Typed /\ Growing /\ LastKept
  BY DEF TInv, Stamps
<1>2. /\ gmw_inputsBinded' = TRUE /\ sockInputs' = sockets + 1
      /\ UNCHANGED <<poc, hasPoc, isConnected, frame, held, net, last>>
  BY DEF gmw_bindInputs, netVars
<1>3. held = NothingHeld
  BY DEF gmw_bindInputs, Stamps, Unbound
<1>4. \A d \in Devices : Mine(d)' = {}
  <2>1. \A r \in net : r.to \in Nat /\ r.to # sockets + 1
    BY <1>1 DEF Typed, ReportOf
  <2> QED
    BY <1>2, <2>1 DEF Mine
<1>5. Ordered'
  BY <1>4 DEF Ordered
<1>6. Bounded'
  <2> SUFFICES ASSUME NEW d \in Devices PROVE ~Newer(held[d]', Now(d)')
    BY <1>4 DEF Bounded
  <2>1. held[d]' = NoReport /\ Now(d)' = Now(d)
    BY <1>2, <1>3 DEF NothingHeld, Now
  <2>2. poc.frame_ddr \in Nat /\ poc.dev[d].order \in Nat
    BY <1>1, Positive DEF Typed, PocState, DeviceState
  <2> QED
    BY <2>1, <2>2 DEF Newer, Now, NoReport
<1>7. Growing'
  BY <1>1, <1>2 DEF Growing
<1>8. Unbound'
  BY <1>2 DEF Unbound
<1>9. \A d \in Devices : last'[d].report.to # sockInputs'
  <2>1. sockets \in Nat /\ \A d \in Devices : last[d].report.to \in Nat
    BY <1>1 DEF Typed, Kept, ReportOf
  <2> QED
    BY <1>1, <1>2, <2>1 DEF Typed
<1>10. LastKept'
  BY <1>1, <1>2, <1>9 DEF LastKept
<1> QED
  BY <1>5, <1>6, <1>7, <1>8, <1>10 DEF Stamps

LEMMA StopStamps ==
  ASSUME Stamping, TInv, Stamps, StopServer
  PROVE  Stamps'
<1>1. Typed /\ Ordered /\ Bounded /\ Growing /\ Unbound /\ LastKept
  BY DEF TInv, Stamps
<1>2. /\ Neutralize(ZeroPoc) /\ isConnectedInputs' = FALSE
      /\ UNCHANGED <<gmw_inputsBinded, sockInputs, isConnected, frame, held>>
  BY DEF StopServer, clientVars
<1>3. PICK q \in PocState, ds \in SUBSET Reported :
        /\ Sends(q, ds) /\ q.frame_ddr = poc.frame_ddr
        /\ \A d \in ds : q.dev[d].order = (poc.dev[d].order + 1) % OrderMod
  BY <1>1, <1>2, NeutralizeEffect
<1>4. ASSUME NEW d \in ds
      PROVE  Newer([frame |-> q.frame_ddr, order |-> q.dev[d].order], Now(d))
  <2>1. poc.dev[d].order \in Nat /\ poc.dev[d].order + 1 < OrderMod /\ poc.frame_ddr \in Nat
    BY <1>1, Positive DEF Typed, PocState, DeviceState, Growing, Reported
  <2>2. (poc.dev[d].order + 1) % OrderMod = poc.dev[d].order + 1
    BY <2>1, Positive
  <2>3. poc.dev[d].order + 1 > poc.dev[d].order
    BY <2>1
  <2> QED
    BY <1>3, <2>2, <2>3 DEF Newer, Now
<1>5. Ordered'
  BY <1>1, <1>2, <1>3, <1>4, SendsOrdered
<1>6. ~Listening'
  BY <1>2 DEF Listening
<1>7. Growing'
  <2>1. isConnected' => 0 <= frame'
    BY <1>1, <1>2 DEF Typed
  <2> QED
    BY <1>2, <2>1, NeutralStamps DEF Growing
<1>8. LastKept'
  BY <1>1, <1>2, <1>3, <1>6, SendsLast, SendsKept DEF LastKept
<1> QED
  BY <1>1, <1>2, <1>5, <1>6, <1>7, <1>8 DEF Stamps, Bounded, Unbound

(* A report that the client takes is the next one it should have.             *)
LEMMA TakenIsLater ==
  ASSUME Typed, Ordered, NEW d \in Devices, NEW r \in Mine(d), sockInputs # 0,
         Newer(r, held[d])
  PROVE  r.seq > held[d].seq
<1>1. /\ r \in ReportOf(Devices) /\ held[d] \in Kept
  BY DEF Mine, Typed
<1>2. ~Newer(held[d], r)
  BY <1>1, NewerOrder DEF Kept
<1>3. r.seq \in Nat /\ held[d].seq \in Nat
  BY <1>1 DEF ReportOf, Kept
<1>4. r.seq # held[d].seq /\ (r.seq < held[d].seq => Newer(held[d], r))
  BY DEF Ordered
<1> QED
  BY <1>2, <1>3, <1>4

(* Poll: the report is dropped, or becomes what the client holds.             *)
Takes(r) == sockInputs # 0 /\ r.to = sockInputs /\ Newer(r, held[r.dev])

LEMMA PollEffect ==
  ASSUME Typed, NEW r \in net, PollInputs(r)
  PROVE  /\ r \in ReportOf(Devices) /\ r.dev \in Devices
         /\ net' = net \ {r}
         /\ UNCHANGED <<poc, hasPoc, isConnectedInputs, clientaddrInputs, gmw_inputsBinded,
                        sockInputs, isConnected, frame, last>>
         /\ ~Takes(r) => held' = held
         /\ \A d \in Devices : d # r.dev => held'[d] = held[d]
         /\ Takes(r) => LET h == held'[r.dev] IN
                        /\ h.frame = r.frame /\ h.order = r.order /\ h.seq = r.seq
                        /\ h.digital = r.digital
                        /\ DoInputs[r.dev] = 2 => h.analog = r.analog
<1>1. /\ net' = net \ {r}
      /\ UNCHANGED <<poc, hasPoc, isConnectedInputs, clientaddrInputs, gmw_inputsBinded,
                     sockInputs, isConnected, frame, last>>
  BY DEF PollInputs, serverVars, clientVars
<1>2. r \in ReportOf(Devices) /\ r.dev \in Devices
  BY DEF Typed, ReportOf
<1>3. CASE ~Takes(r)
  BY <1>1, <1>2, <1>3 DEF PollInputs, Takes
<1>4. CASE Takes(r)
  <2> DEFINE a == IF DoInputs[r.dev] = 2 THEN r.analog ELSE held[r.dev].analog
             new == [r EXCEPT !.analog = a]
  <2>1. held' = [held EXCEPT ![r.dev] = new]
    BY <1>4 DEF PollInputs, Takes
  <2>2. DoInputs[r.dev] = 2 => a = r.analog
    OBVIOUS
  <2> HIDE DEF a
  <2>3. /\ new.frame = r.frame /\ new.order = r.order /\ new.seq = r.seq
        /\ new.digital = r.digital /\ new.analog = a
    BY <1>2 DEF ReportOf
  <2> HIDE DEF new
  <2>4. held'[r.dev] = new /\ \A d \in Devices : d # r.dev => held'[d] = held[d]
    BY <1>2, <2>1 DEF Typed
  <2> QED
    BY <1>1, <1>2, <1>4, <2>2, <2>3, <2>4
<1> QED
  BY <1>3, <1>4

LEMMA PollStamps ==
  ASSUME TInv, Stamps, NEW r \in net, PollInputs(r)
  PROVE  Stamps'
<1>1. Typed /\ Ordered /\ Bounded /\ Growing /\ Unbound /\ LastKept
  BY DEF TInv, Stamps
<1>2. /\ r \in ReportOf(Devices) /\ r.dev \in Devices
      /\ net' = net \ {r}
      /\ UNCHANGED <<poc, hasPoc, isConnectedInputs, clientaddrInputs, gmw_inputsBinded,
                     sockInputs, isConnected, frame, last>>
      /\ ~Takes(r) => held' = held
      /\ \A d \in Devices : d # r.dev => held'[d] = held[d]
  BY <1>1, PollEffect
<1>3. Takes(r) => LET h == held'[r.dev] IN
        /\ h.frame = r.frame /\ h.order = r.order /\ h.seq = r.seq /\ h.digital = r.digital
        /\ DoInputs[r.dev] = 2 => h.analog = r.analog
  BY <1>1, PollEffect
<1>4. Takes(r) => r \in Mine(r.dev) /\ r.seq > held[r.dev].seq
  BY <1>1, <1>2, TakenIsLater DEF Takes, Mine
<1>5. \A d \in Devices : held'[d] = held[d] \/ (Takes(r) /\ d = r.dev)
  BY <1>2
<1>6. \A d \in Devices : Mine(d)' = Mine(d) \ {r} /\ Now(d)' = Now(d)
  BY <1>2 DEF Mine, Now
<1>7. ASSUME sockInputs # 0, NEW d \in Devices
      PROVE  /\ \A p \in Mine(d)' :
                  /\ p.seq # held'[d].seq
                  /\ p.seq > held'[d].seq => Newer(p, held'[d])
                  /\ p.seq < held'[d].seq => Newer(held'[d], p)
             /\ \A p, q \in Mine(d)' :
                  /\ p.seq < q.seq => Newer(q, p)
                  /\ p.seq = q.seq => p = q
  <2>1. \A p, q \in Mine(d) :
          /\ p.seq < q.seq => Newer(q, p)
          /\ p.seq = q.seq => p = q
    BY <1>1, <1>7 DEF Ordered
  <2>2. CASE held'[d] = held[d]
    BY <1>1, <1>6, <1>7, <2>1, <2>2 DEF Ordered
  <2>3. CASE Takes(r) /\ d = r.dev
    <3>1. r \in Mine(d)
      BY <1>4, <2>3
    <3>2. \A p \in Mine(d) \ {r} :
            /\ p.seq # r.seq
            /\ r.seq < p.seq => Newer(p, r)
            /\ p.seq < r.seq => Newer(r, p)
      BY <2>1, <3>1
    <3>3. \A p \in Mine(d) \ {r} : p.seq \in Nat /\ r.seq \in Nat
      BY <1>1, <1>2 DEF Mine, Typed, ReportOf
    <3>4. \A p \in Mine(d) \ {r} :
            /\ p.seq # r.seq
            /\ p.seq > r.seq => Newer(p, held'[d])
            /\ p.seq < r.seq => Newer(held'[d], p)
      BY <1>3, <2>3, <3>2, <3>3 DEF Newer
    <3>5. held'[d].seq = r.seq
      BY <1>3, <2>3
    <3> QED
      BY <1>6, <2>1, <3>4, <3>5
  <2> QED
    BY <1>5, <2>2, <2>3
<1>8. Ordered'
  BY <1>2, <1>7 DEF Ordered
<1>9. Bounded'
  <2> SUFFICES ASSUME Listening, NEW d \in Devices
               PROVE  /\ \A p \in Mine(d)' : ~Newer(p, Now(d))
                      /\ ~Newer(held'[d], Now(d))
    BY <1>2, <1>6 DEF Bounded, Listening
  <2>1. CASE held'[d] = held[d]
    BY <1>1, <1>6, <2>1 DEF Bounded
  <2>2. CASE Takes(r) /\ d = r.dev
    <3>1. ~Newer(r, Now(d))
      BY <1>1, <1>4, <2>2 DEF Bounded
    <3>2. ~Newer(held'[d], Now(d))
      BY <1>3, <2>2, <3>1 DEF Newer
    <3> QED
      BY <1>1, <1>6, <3>2 DEF Bounded
  <2> QED
    BY <1>5, <2>1, <2>2
<1>10. Growing'
  BY <1>1, <1>2 DEF Growing
<1>11. Unbound'
  BY <1>1, <1>2 DEF Unbound, Takes
<1>12. ASSUME NEW d \in Devices, sockInputs # 0, last[d].report.to = sockInputs,
              ~last[d].lost
       PROVE  LET l == last[d].report IN
              \/ l \in net' /\ l.dev = d /\ held'[d].seq <= l.seq
              \/ held'[d].seq = l.seq /\ Says(held'[d], d, l)
  <2> DEFINE l == last[d].report
  <2>1. \/ l \in net /\ l.dev = d /\ held[d].seq <= l.seq
        \/ held[d].seq = l.seq /\ Says(held[d], d, l)
    BY <1>1, <1>12 DEF LastKept
  <2>2. /\ l.to = sockInputs /\ l.seq \in Nat /\ held[d].seq \in Nat /\ r.seq \in Nat
        /\ \A q \in net : q.dev = d => q.seq <= l.seq
    BY <1>1, <1>2, <1>12 DEF Typed, Kept, ReportOf, LastKept
  <2> HIDE DEF l
  <2>3. CASE held'[d] = held[d]
    <3>1. CASE l = r /\ l.dev = d
      <4>1. CASE Takes(r)
        <5>1. held'[d].seq = r.seq /\ r.seq > held[d].seq
          BY <1>3, <1>4, <3>1, <4>1
        <5> QED
          BY <2>2, <2>3, <5>1
      <4>2. CASE ~Takes(r)
        <5>1. r \in Mine(d) /\ ~Newer(r, held[d])
          BY <1>12, <2>2, <3>1, <4>2 DEF Takes, Mine
        <5>2. ~(held[d].seq <= l.seq)
          BY <1>1, <1>12, <2>2, <3>1, <5>1 DEF Ordered
        <5> QED
          BY <2>1, <2>3, <5>2 DEF l
      <4> QED
        BY <4>1, <4>2
    <3>2. CASE ~(l = r /\ l.dev = d)
      BY <1>2, <2>1, <2>3, <3>2 DEF l
    <3> QED
      BY <3>1, <3>2
  <2>4. CASE Takes(r) /\ d = r.dev
    <3>1. /\ held'[d].seq = r.seq /\ r.seq > held[d].seq /\ r.seq <= l.seq
          /\ Says(held'[d], d, r)
      BY <1>3, <1>4, <2>2, <2>4 DEF Says
    <3>2. l \in net /\ l.dev = d
      BY <2>1, <2>2, <3>1
    <3>3. CASE l = r
      BY <3>1, <3>3 DEF l
    <3>4. CASE l # r
      BY <1>2, <3>1, <3>2, <3>4 DEF l
    <3> QED
      BY <3>3, <3>4
  <2> QED
    BY <1>5, <2>3, <2>4
<1>13. LastKept'
  BY <1>1, <1>2, <1>12 DEF LastKept, Listening
<1> QED
  BY <1>8, <1>9, <1>10, <1>11, <1>13 DEF Stamps

LEMMA LoseStamps ==
  ASSUME TInv, Stamps, NEW r \in net, LoseReport(r)
  PROVE  Stamps'
<1>1. Typed /\ Ordered /\ Bounded /\ Growing /\ Unbound /\ LastKept
  BY DEF TInv, Stamps
<1>2. /\ net' = net \ {r}
      /\ UNCHANGED <<poc, hasPoc, isConnectedInputs, clientaddrInputs, gmw_inputsBinded,
                     sockInputs, isConnected, frame, held>>
  BY DEF LoseReport, serverVars, clientVars
<1>3. \A d \in Devices :
        /\ last'[d].report = last[d].report
        /\ ~last'[d].lost => ~last[d].lost /\ ~(r.dev = d /\ last[d].report = r)
  <2>1. r.dev \in Devices /\ last \in [Devices -> [report : Kept, lost : BOOLEAN]]
    BY <1>1 DEF Typed, ReportOf
  <2>2. CASE last[r.dev].report = r
    <3> DEFINE new == [last[r.dev] EXCEPT !.lost = TRUE]
    <3>1. new.report = last[r.dev].report /\ new.lost
      BY <2>1
    <3>2. last' = [last EXCEPT ![r.dev] = new]
      BY <2>2 DEF LoseReport
    <3> HIDE DEF new
    <3> QED
      BY <2>1, <3>1, <3>2
  <2>3. CASE last[r.dev].report # r
    BY <2>3 DEF LoseReport
  <2> QED
    BY <2>2, <2>3
<1>4. \A d \in Devices : Mine(d)' = Mine(d) \ {r} /\ Now(d)' = Now(d)
  BY <1>2 DEF Mine, Now
<1>5. Ordered'
  BY <1>1, <1>2, <1>4 DEF Ordered
<1>6. Bounded'
  BY <1>1, <1>2, <1>4 DEF Bounded, Listening
<1>7. Growing' /\ Unbound'
  BY <1>1, <1>2 DEF Growing, Unbound
<1>8. LastKept'
  BY <1>1, <1>2, <1>3 DEF LastKept, Listening
<1> QED
  BY <1>5, <1>6, <1>7, <1>8 DEF Stamps

LEMMA StepStamps == Stamping /\ SInv /\ [InputNext]_inputVars => SInv'
<1> SUFFICES ASSUME Stamping, TInv, Stamps, [InputNext]_inputVars PROVE Stamps'
  BY StepTyped DEF SInv
<1>1. CASE Player
  BY <1>1, PlayerStamps DEF Player
<1>2. CASE Frames
  BY <1>2, FramesStamps
<1>3. CASE Session
  BY <1>3, CloseStamps, InitCallStamps, BindStamps, StopStamps DEF Session
<1>4. CASE Reports
  BY <1>4, PollStamps, LoseStamps DEF Reports
<1>5. CASE UNCHANGED inputVars
  <2>1. UNCHANGED <<poc, hasPoc, isConnectedInputs, clientaddrInputs, gmw_inputsBinded,
                    sockInputs, isConnected, frame, held, net, last>>
    BY <1>5 DEF inputVars, serverVars, clientVars, netVars
  <2>2. frame \in Nat /\ frame <= frame
    BY DEF TInv, Typed
  <2> QED
    BY <2>1, <2>2, StillStamps
<1> QED
  BY <1>1, <1>2, <1>3, <1>4, <1>5 DEF InputNext

LEMMA StampInvariant ==
  ASSUME Stamping
  PROVE  InputSpec => []SInv
<1>1. InputInit => SInv
  BY InitTyped, InitStamps DEF SInv
<1>2. SInv /\ [InputNext]_inputVars => SInv'
  BY StepStamps
<1> QED
  BY <1>1, <1>2, PTL DEF InputSpec

(* What the client holds is never replaced by what was sent before it,         *)
(* whatever the network loses or delays.                                      *)
THEOREM NeverBackSafe ==
  ASSUME hpsBlit = 0, ~Wraps, OrderMod > 1
  PROVE  InputSpec => NeverGoesBack
<1> DEFINE Forward ==
      \A d \in Devices :
        held'[d] # held[d] /\ held'[d] # NoReport => held'[d].seq > held[d].seq
<1>1. Stamping
  BY DEF Stamping
<1>2. SInv /\ [InputNext]_inputVars => Forward
  <2> SUFFICES ASSUME SInv, [InputNext]_inputVars, NEW d \in Devices,
                      held'[d] # held[d], held'[d] # NoReport
               PROVE  held'[d].seq > held[d].seq
    OBVIOUS
  <2>1. Typed /\ Ordered
    BY DEF SInv, TInv, Stamps
  <2>2. held' # NothingHeld /\ held' # held
    BY DEF NothingHeld
  <2>3. PICK r \in net : PollInputs(r)
    <3>1. CASE Player
      BY <2>2, <3>1 DEF Player, Digital, Analog
    <3>2. CASE Frames
      BY <2>2, <3>2 DEF Frames, CmdBlit, CmdSwitchres, Received
    <3>3. CASE Session
      BY <2>2, <3>3 DEF Session, gmw_bindInputs, StopServer, gmw_close, ClientCloses, gmw_init
    <3>4. CASE Reports
      BY <2>2, <3>4 DEF Reports, LoseReport
    <3>5. CASE UNCHANGED inputVars
      BY <2>2, <3>5 DEF inputVars
    <3> QED
      BY <3>1, <3>2, <3>3, <3>4, <3>5 DEF InputNext
  <2>4. Takes(r) /\ d = r.dev /\ held'[d].seq = r.seq
    BY <2>1, <2>3, PollEffect
  <2> QED
    BY <2>1, <2>4, TakenIsLater DEF Takes, Mine
<1>3. InputSpec => []SInv
  BY <1>1, StampInvariant
<1>4. SInv /\ [InputNext]_inputVars => [Forward]_inputVars
  BY <1>2
<1> QED
  BY <1>3, <1>4, PTL DEF InputSpec, NeverGoesBack

(* When nothing is on its way, the client holds what the player does, unless   *)
(* the last report was lost: no report that arrives is taken for an old one.   *)
THEOREM LastHeldSafe ==
  ASSUME hpsBlit = 0, ~Wraps, OrderMod > 1
  PROVE  InputSpec => []LastReportHeld
<1>1. Stamping
  BY DEF Stamping
<1>2. SInv => LastReportHeld
  <2> SUFFICES ASSUME SInv, NEW d \in Devices, hasPoc, Listening,
                      last[d].report.to = sockInputs, ~last[d].lost,
                      \A q \in net : q.dev # d
               PROVE  /\ held[d].digital = poc.dev[d].digital
                      /\ DoInputs[d] = 2 => held[d].analog = poc.dev[d].analog
    BY DEF LastReportHeld, Listening
  <2>1. Says(last[d].report, d, poc.dev[d]) /\ Says(held[d], d, last[d].report)
    BY DEF SInv, Stamps, LastKept, Listening
  <2> QED
    BY <2>1 DEF Says
<1>3. InputSpec => []SInv
  BY <1>1, StampInvariant
<1> QED
  BY <1>2, <1>3, PTL
=============================================================================
