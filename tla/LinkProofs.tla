------------------------------ MODULE LinkProofs ------------------------------
(***************************************************************************)
(* That the two daemons of Link keep their connections consistent, for     *)
(* every modulus, window, retry limit, capacity of the air and amount of   *)
(* data, whether or not T1 outlasts a round trip.  What one call does to a *)
(* connection is proved in ConnectionLemmas; here it is that the daemons   *)
(* make only calls those lemmas allow.                                     *)
(*                                                                         *)
(* The second part is about a T1 that outlasts every round trip: PInv      *)
(* says of both directions that what was submitted, what is under way,     *)
(* what was heard and what was acknowledged agree, and that only the call  *)
(* of A sets the link up.  From it follow that the link is never reset,    *)
(* that what is acknowledged has arrived, and that the two daemons         *)
(* implement OrderedDelivery.                                              *)
(*                                                                         *)
(* The last part is about a T1 that may expire at any moment.  The link may*)
(* then be set up anew under way and lose data, so EInv asks less: of the  *)
(* data heard, under way and stored each is a later one than those before  *)
(* it, or its number falls in the window that ends with them, in which     *)
(* case it will be refused.  The daemons still implement OrderedDelivery,  *)
(* with gaps.                                                              *)
(***************************************************************************)
EXTENDS Link, ConnectionLemmas

USE ModulusAssumption, WindowAssumption, RetryAssumption

\* Until an RPC has opened its link by a SABM of its own or of the peer, its
\* connection holds no data and has no T1.
Unopened(e) == rpc[e] = "init" \/ (e = "B" /\ rpc[e] = "waiting")

\* The inductive invariant: both connections are good, and nothing but a fresh
\* one is set up.
IInv ==
    /\ TypeOK
    /\ \A e \in End : Good(con[e])
    /\ \A e \in End : Unopened(e) => Fresh(con[e])

------------------------------------------------------------------------------
\* The poll after a handler leaves a connection good, whatever it was given.
LEMMA CallGood ==
    ASSUME NEW c, NEW b, NEW d, Handled(b, d)
    PROVE  Good(maybe_change_state(c, d))
<1>1. Ready(d) /\ ~d.aborted
  BY DEF Handled, Ready
<1> QED
  BY <1>1, PollGood DEF maybe_change_state

\* A new connection is good and fresh.
LEMMA NewGood == Good(NewConnection) /\ Fresh(NewConnection)
<1>1. <<>> \in Seq(Payload) /\ <<>> \in Seq(Frame) /\ Len(<<>>) = 0
  OBVIOUS
<1>2. NewConnection \in ConnectionType
  BY <1>1 DEF NewConnection, ConnectionType, States
<1> QED
  BY <1>2 DEF NewConnection, Good, Versioned, Window, Stored, Timed, Fresh,
              AwaitsPeer, can_receive_data, ReceivingStates

\* A poll of empty queues sends nothing.
LEMMA PollIsIdle ==
    ASSUME NEW c, Ready(c), Fresh(c)
    PROVE  Fresh(dl_data_poll(c))
<1>1. CASE ~can_receive_data(c)
  BY <1>1 DEF dl_data_poll, can_receive_data
<1>2. CASE can_receive_data(c)
  <2> DEFINE n == sendable(c)
             d == transmit(c, n)
  <2>1. c \in ConnectionType /\ n \in Nat /\ n <= Len(c.iframe_queue)
    BY <1>2, SendableFits
  <2>2. n = 0
    BY <2>1 DEF Fresh
  <2>3. d.iframe_queue = SubSeq(c.iframe_queue, n + 1, Len(c.iframe_queue))
        /\ d.iframe_resend_queue = c.iframe_resend_queue /\ d.t1 = (c.t1 \/ n > 0)
    BY <2>1 DEF transmit, ConnectionType
  <2> HIDE DEF n, d
  <2>4. d.iframe_queue = <<>>
    BY <2>2, <2>3 DEF Fresh
  <2>5. ~(n > 0)
    BY <2>2
  <2>6. ~d.t1
    BY <2>3, <2>5 DEF Fresh
  <2>7. Fresh(d)
    BY <2>3, <2>4, <2>6 DEF Fresh
  <2> QED
    BY <1>2, <2>7 DEF dl_data_poll, can_receive_data, n, d
<1> QED
  BY <1>1, <1>2

\* An end the peer's SABM finds in the wait of Accept2 comes up with nothing in
\* its queues, and each further SABM leaves it so.
LEMMA SabmGood ==
    ASSUME NEW c, Good(c), Fresh(c), NEW pf \in BOOLEAN
    PROVE  Good(con_sabm(c, pf)) /\ Fresh(con_sabm(c, pf))
<1> DEFINE b == start(c)
           d == dispatch_sabm(b, pf)
<1>1. Good(b) /\ Fresh(b) /\ b.st = c.st /\ b \in ConnectionType
  BY StartGood DEF Good
<1>0. con_sabm(c, pf) = maybe_change_state(c, d)
  BY DEF con_sabm
<1> HIDE DEF b
<1>2. Handled(b, d)
  <2>1. CASE b.st = "Disconnected"
    BY <1>1, <2>1, SabmHandled DEF dispatch_sabm
  <2>2. CASE b.st = "Connected"
    BY <1>1, <2>2, ConnectedSabmHandled DEF dispatch_sabm
  <2>3. CASE b.st \notin {"Disconnected", "Connected"}
    BY <1>1, <2>3, GoodReady DEF dispatch_sabm, Handled
  <2> QED
    BY <2>1, <2>2, <2>3
<1>3. Fresh(d)
  <2>1. CASE b.st = "Disconnected"
    BY <1>1, <2>1 DEF dispatch_sabm, Disconnected_sabm, clear_exception_conditions,
       send, set_version, Fresh, ConnectionType
  <2>2. CASE b.st = "Connected"
    BY <1>1, <2>2 DEF dispatch_sabm, Connected_sabm, clear_exception_conditions,
       send, clear_iframe_queue, Fresh, ConnectionType
  <2>3. CASE b.st \notin {"Disconnected", "Connected"}
    BY <1>1, <2>3 DEF dispatch_sabm
  <2> QED
    BY <2>1, <2>2, <2>3
<1>4. Ready(d) /\ ~d.aborted
  BY <1>2 DEF Handled, Ready
<1> HIDE DEF d
<1>5. con_sabm(c, pf) = dl_data_poll(d)
  BY <1>0, <1>4 DEF maybe_change_state
<1> QED
  BY <1>3, <1>4, <1>5, PollGood, PollIsIdle

\* T3 expires: nothing happens.
LEMMA Timer3Good ==
    ASSUME NEW c, Good(c)
    PROVE  Good(con_timer3_tick(c)) /\ (Fresh(c) => Fresh(con_timer3_tick(c)))
<1> DEFINE b == start(c)
           d == [b EXCEPT !.t3 = FALSE]
<1>1. Good(b) /\ (Fresh(c) => Fresh(b)) /\ b \in ConnectionType
  BY StartGood DEF Good
<1>0. con_timer3_tick(c) = maybe_change_state(c, d)
  BY DEF con_timer3_tick
<1> HIDE DEF b
<1>2. Handled(d, d)
  BY <1>1, Timer3Handled
<1>3. Fresh(c) => Fresh(d)
  BY <1>1 DEF Fresh, ConnectionType
<1>4. Ready(d) /\ ~d.aborted
  BY <1>2 DEF Handled, Ready
<1> HIDE DEF d
<1>5. con_timer3_tick(c) = dl_data_poll(d)
  BY <1>0, <1>4 DEF maybe_change_state
<1> QED
  BY <1>3, <1>4, <1>5, PollGood, PollIsIdle

\* T1 expires.
LEMMA Timer1Good ==
    ASSUME NEW c, Good(c), c.t1
    PROVE  Good(con_timer1_tick(c))
<1> DEFINE b == start(c)
           d == [b EXCEPT !.t1 = FALSE]
<1>1. Good(b)
  BY StartGood
<1>2. b.t1
  BY DEF start, Good, ConnectionType
<1>3. Handled(d, dispatch_timer1_tick(d))
  <2> HIDE DEF b
  <2> QED
    BY <1>1, <1>2, Timer1Handled
<1> QED
  BY <1>3, CallGood DEF con_timer1_tick

\* packet_callback passes a frame to a connection that stands it.
LEMMA PacketGood ==
    ASSUME NEW c, Good(c), NEW f \in Frame, f.type = "sabm" => Fresh(c)
    PROVE  Good(packet_callback(c, f))
<1> DEFINE b == start(c)
<1>1. Good(b)
  BY StartGood
<1>0. b = start(c)
  OBVIOUS
<1> HIDE DEF b
<1>2. f.poll \in BOOLEAN
  BY DEF Frame
<1>3. CASE f.type = "ua"
  <2>1. Handled(b, dispatch_ua(b, f.poll))
    BY <1>1, <1>2, UaHandled
  <2> QED
    BY <1>0, <1>3, <2>1, CallGood DEF packet_callback, con_ua
<1>4. CASE f.type = "iframe"
  <2>1. f.command_response \in BOOLEAN /\ f.payload \in Payload
    BY <1>4 DEF Frame
  <2>2. Handled(b, dispatch_iframe(b, f))
    BY <1>1, <1>2, <2>1, IframeHandled
  <2> QED
    BY <1>0, <1>4, <2>2, CallGood DEF packet_callback, con_iframe
<1>5. CASE f.type = "rr"
  <2>1. f.command_response \in BOOLEAN
    BY <1>5 DEF Frame
  <2>2. Handled(b, dispatch_rr(b, f))
    BY <1>1, <1>2, <2>1, RrHandled
  <2> QED
    BY <1>0, <1>5, <2>2, CallGood DEF packet_callback, con_rr
<1>6. CASE f.type = "disc"
  <2>1. Handled(b, dispatch_disc(b, f.poll))
    BY <1>1, <1>2, DiscHandled
  <2> QED
    BY <1>0, <1>6, <2>1, CallGood DEF packet_callback, con_disc
<1>7. CASE f.type = "sabm"
  BY <1>2, <1>7, SabmGood DEF packet_callback
<1>8. CASE f.type \notin {"ua", "iframe", "rr", "disc", "sabm"}
  BY <1>8 DEF packet_callback
<1> QED
  BY <1>3, <1>4, <1>5, <1>6, <1>7, <1>8

------------------------------------------------------------------------------
\* What fits on the air are frames.
LEMMA RoomType ==
    ASSUME NEW s \in Seq(Frame)
    PROVE  Room(s) \in Seq(Frame)
<1> DEFINE n == IF Len(s) < AirCap THEN Len(s) ELSE AirCap
<1>1. AirCap \in Nat
  BY LinkBoundAssumption
<1>2. Len(s) \in Nat
  BY LenProperties
<1>3. n \in Nat /\ n <= Len(s)
  BY <1>1, <1>2
<1> HIDE DEF n
<1>4. SubSeq(s, 1, n) \in Seq(Frame)
  BY <1>2, <1>3, SubSeqProperties
<1> QED
  BY <1>4 DEF Room, n

\* A call that leaves end e a good connection, a fresh one if its RPC has not
\* opened, keeps the invariant.
LEMMA ApplyKeeps ==
    ASSUME IInv, NEW e \in End, NEW c, Good(c), NEW onair \in [End -> Seq(Frame)],
           Apply(e, c, onair),
           rpc' \in [End -> RpcStates], \A x \in End : x # e => rpc'[x] = rpc[x],
           reader' \in [End -> BOOLEAN], submitted' \in [End -> Nat],
           Unopened(e)' => Fresh(c)
    PROVE  IInv'
<1> DEFINE s == start(c)
           out == c.out
           up == c.up
           p == peer(e)
           room == Room(onair[p] \o out)
<1>1. Good(s) /\ (Fresh(c) => Fresh(s)) /\ s \in ConnectionType
  BY StartGood DEF Good
<1>2. out \in Seq(Frame) /\ up \in Seq(Payload)
  BY DEF Good, ConnectionType
<1>3. p \in End
  BY DEF peer, End
<1>4. room \in Seq(Frame)
  <2>1. onair[p] \in Seq(Frame)
    BY <1>3
  <2>2. onair[p] \o out \in Seq(Frame)
    BY <1>2, <2>1, ConcatProperties
  <2> QED
    BY <2>2, RoomType
<1>5. /\ con' = [con EXCEPT ![e] = s]
      /\ air' = [onair EXCEPT ![p] = room]
      /\ received' = [received EXCEPT ![e] = @ \o up]
      /\ log' = [log EXCEPT ![e] = @ \o up]
  BY DEF Apply
<1> HIDE DEF s, out, up, p, room
<1>6. TypeOK'
  <2>1. con' \in [End -> ConnectionType] /\ air' \in [End -> Seq(Frame)]
    BY <1>1, <1>4, <1>5 DEF IInv, TypeOK
  <2>2. received[e] \o up \in Seq(Payload) /\ log[e] \o up \in Seq(Payload)
    BY <1>2, ConcatProperties DEF IInv, TypeOK
  <2>3. received' \in [End -> Seq(Payload)] /\ log' \in [End -> Seq(Payload)]
    BY <1>5, <2>2 DEF IInv, TypeOK
  <2> QED
    BY <2>1, <2>3 DEF TypeOK
<1>7. ASSUME NEW x \in End PROVE Good(con'[x]) /\ (Unopened(x)' => Fresh(con'[x]))
  <2>1. CASE x = e
    BY <1>1, <1>5, <2>1 DEF IInv, TypeOK
  <2>2. CASE x # e
    BY <1>5, <2>2 DEF IInv, TypeOK, Unopened
  <2> QED
    BY <2>1, <2>2
<1> QED
  BY <1>6, <1>7 DEF IInv

\* A step that leaves the connections alone and takes no RPC back to where its
\* link has not been opened keeps the invariant if it keeps the types.
LEMMA RestKeeps ==
    ASSUME IInv, TypeOK', con' = con, \A x \in End : Unopened(x)' => Unopened(x)
    PROVE  IInv'
  BY DEF IInv

\* A new pair of daemons satisfies the invariant.
LEMMA InitGood == Init => IInv
<1> SUFFICES ASSUME Init PROVE IInv
  OBVIOUS
<1>1. <<>> \in Seq(Payload) /\ <<>> \in Seq(Frame)
  OBVIOUS
<1>2. Good(NewConnection) /\ Fresh(NewConnection) /\ NewConnection \in ConnectionType
  BY NewGood DEF Good
<1>3. TypeOK
  BY <1>1, <1>2 DEF Init, TypeOK, RpcStates
<1> QED
  BY <1>2, <1>3 DEF Init, IInv

\* Every step of the two daemons, of the air and of the applications keeps it.
LEMMA NextKeeps ==
    ASSUME IInv, [Next]_vars
    PROVE  IInv'
<1>1. TypeOK /\ \A x \in End : Good(con[x]) /\ (Unopened(x) => Fresh(con[x]))
  BY DEF IInv
<1>2. "A" \in End /\ "B" \in End
  BY DEF End
<1>3. CASE Connect2_dl_connect
  <2> DEFINE c == con["A"]
             b == start(c)
             d == dispatch_dl_connect(b)
  <2>1. Good(c) /\ Fresh(c)
    BY <1>1, <1>2, <1>3 DEF Connect2_dl_connect, Unopened
  <2>2. Good(b) /\ Fresh(b)
    BY <2>1, StartGood
  <2>3. Good(con_dl_connect(c))
    <3> HIDE DEF b
    <3>1. Handled(b, d)
      BY <2>2, DlConnectHandled
    <3> QED
      BY <3>1, CallGood DEF con_dl_connect, b
  <2>4. rpc' = [rpc EXCEPT !["A"] = "waiting"] /\ reader' = reader
        /\ submitted' = submitted /\ Apply("A", con_dl_connect(c), air)
    BY <1>3 DEF Connect2_dl_connect
  <2>5. ~Unopened("A")'
    BY <1>1, <1>2, <2>4 DEF Unopened, TypeOK
  <2>6. rpc' \in [End -> RpcStates] /\ \A x \in End : x # "A" => rpc'[x] = rpc[x]
    BY <1>1, <2>4 DEF TypeOK, RpcStates
  <2> QED
    BY <1>1, <1>2, <2>3, <2>4, <2>5, <2>6, ApplyKeeps DEF TypeOK
<1>4. CASE Accept2_insert
  BY <1>1, <1>4, RestKeeps DEF Accept2_insert, TypeOK, RpcStates, Unopened, End
<1>5. ASSUME NEW e \in End, Opened(e) PROVE IInv'
  BY <1>1, <1>5, RestKeeps DEF Opened, TypeOK, RpcStates, Unopened
<1>6. ASSUME NEW e \in End, dl_data(e) PROVE IInv'
  <2> DEFINE c == con[e]
             p == submitted[e] + 1
             b == start(c)
             d == dispatch_dl_data(b, p)
  <2>1. submitted' = [submitted EXCEPT ![e] = @ + 1] /\ reader' = reader /\ rpc' = rpc
        /\ rpc[e] = "open" /\ submitted[e] < MaxData(e) /\ Apply(e, con_dl_data(c, p), air)
    BY <1>6 DEF dl_data
  <2>2. p \in Payload
    BY <1>1, <2>1, LinkBoundAssumption DEF TypeOK, MaxData
  <2>3. Good(con_dl_data(c, p))
    <3> HIDE DEF p
    <3>1. Good(b)
      BY <1>1, StartGood
    <3> HIDE DEF b
    <3>2. Handled(b, d)
      BY <2>2, <3>1, DlDataHandled
    <3> QED
      BY <3>2, CallGood DEF con_dl_data, b
  <2>4. submitted' \in [End -> Nat]
    BY <1>1, <2>1 DEF TypeOK
  <2>5. ~Unopened(e)'
    BY <2>1 DEF Unopened
  <2> HIDE DEF p, c
  <2> QED
    BY <1>1, <2>1, <2>3, <2>4, <2>5, ApplyKeeps DEF TypeOK
<1>7. ASSUME NEW e \in End, dl_disconnect(e) PROVE IInv'
  <2> DEFINE c == con[e]
             b == start(c)
             d == dispatch_dl_disconnect(b)
  <2>1. rpc' = [rpc EXCEPT ![e] = "closing"] /\ reader' = reader
        /\ submitted' = submitted /\ Apply(e, con_dl_disconnect(c), air)
    BY <1>7 DEF dl_disconnect
  <2>2. Good(con_dl_disconnect(c))
    <3>1. Good(b)
      BY <1>1, StartGood
    <3> HIDE DEF b
    <3>2. Handled(b, d)
      BY <3>1, DlDisconnectHandled
    <3> QED
      BY <3>2, CallGood DEF con_dl_disconnect, b
  <2>3. rpc' \in [End -> RpcStates] /\ \A x \in End : x # e => rpc'[x] = rpc[x]
    BY <1>1, <2>1 DEF TypeOK, RpcStates
  <2>4. ~Unopened(e)'
    BY <1>1, <2>1 DEF Unopened, TypeOK
  <2> HIDE DEF c
  <2> QED
    BY <1>1, <2>1, <2>2, <2>3, <2>4, ApplyKeeps DEF TypeOK
<1>8. ASSUME NEW e \in End, Erased(e) PROVE IInv'
  <2>1. /\ rpc' = [rpc EXCEPT ![e] = "done"] /\ con' = [con EXCEPT ![e] = NewConnection]
        /\ received' = [received EXCEPT ![e] = <<>>]
        /\ reader' = reader /\ air' = air /\ submitted' = submitted /\ log' = log
    BY <1>8 DEF Erased
  <2>2. Good(NewConnection) /\ Fresh(NewConnection) /\ NewConnection \in ConnectionType
    BY NewGood DEF Good
  <2>3. TypeOK'
    <3>1. <<>> \in Seq(Payload)
      OBVIOUS
    <3> QED
      BY <1>1, <2>1, <2>2, <3>1 DEF TypeOK, RpcStates
  <2>4. ASSUME NEW x \in End PROVE Good(con'[x]) /\ (Unopened(x)' => Fresh(con'[x]))
    <3>1. CASE x = e
      BY <1>1, <2>1, <2>2, <3>1 DEF TypeOK
    <3>2. CASE x # e
      BY <1>1, <2>1, <3>2 DEF TypeOK, Unopened
    <3> QED
      BY <3>1, <3>2
  <2> QED
    BY <2>3, <2>4 DEF IInv
<1>9. ASSUME NEW e \in End, await_data(e) PROVE IInv'
  <2>1. /\ received[e] # <<>> /\ received' = [received EXCEPT ![e] = Tail(@)]
        /\ con' = con /\ rpc' = rpc /\ reader' = reader /\ air' = air
        /\ submitted' = submitted /\ log' = log
    BY <1>9 DEF await_data
  <2>2. Tail(received[e]) \in Seq(Payload)
    BY <1>1, <2>1, HeadTailProperties DEF TypeOK
  <2>3. TypeOK'
    BY <1>1, <2>1, <2>2 DEF TypeOK
  <2> QED
    BY <2>1, <2>3, RestKeeps DEF Unopened
<1>10. ASSUME NEW e \in End, reader_stops(e) PROVE IInv'
  BY <1>1, <1>10, RestKeeps DEF reader_stops, TypeOK, Unopened
<1>11. ASSUME NEW e \in End, Receive(e) PROVE IInv'
  <2> DEFINE c == con[e]
             f == Head(air[e])
             t == Tail(air[e])
             rest == [air EXCEPT ![e] = t]
  <2>1. /\ air[e] # <<>> /\ rpc' = rpc /\ reader' = reader /\ submitted' = submitted
        /\ IF routed(e, f) THEN Apply(e, packet_callback(c, f), rest)
                           ELSE air' = rest /\ UNCHANGED <<con, received, log>>
    BY <1>11 DEF Receive
  <2>2. f \in Frame /\ t \in Seq(Frame)
    BY <1>1, <2>1, HeadTailProperties DEF TypeOK
  <2> HIDE DEF f, t
  <2>3. rest \in [End -> Seq(Frame)]
    BY <1>1, <2>2 DEF TypeOK
  <2> HIDE DEF rest
  <2>4. CASE routed(e, f)
    <3>1. Good(c) /\ (Unopened(e) => Fresh(c))
      BY <1>1
    <3>2. (f.type = "sabm" => Unopened(e)) /\ (Unopened(e) => f.type = "sabm")
      BY <2>4 DEF routed, Unopened
    <3>3. Good(packet_callback(c, f))
      BY <2>2, <3>1, <3>2, PacketGood
    <3>4. Unopened(e) => Fresh(packet_callback(c, f))
      BY <2>2, <3>1, <3>2, SabmGood DEF packet_callback, Frame
    <3>5. Unopened(e)' = Unopened(e)
      BY <2>1 DEF Unopened
    <3> HIDE DEF c
    <3> QED
      BY <1>1, <2>1, <2>3, <2>4, <3>3, <3>4, <3>5, ApplyKeeps DEF TypeOK
  <2>5. CASE ~routed(e, f)
    <3>1. TypeOK'
      BY <1>1, <2>1, <2>3, <2>5 DEF TypeOK
    <3> QED
      BY <2>1, <2>5, <3>1, RestKeeps DEF Unopened
  <2> QED
    BY <2>4, <2>5
<1>12. ASSUME NEW e \in End, Lose(e) PROVE IInv'
  <2>1. /\ air[e] # <<>> /\ air' = [air EXCEPT ![e] = Tail(@)]
        /\ con' = con /\ rpc' = rpc /\ reader' = reader /\ received' = received
        /\ submitted' = submitted /\ log' = log
    BY <1>12 DEF Lose
  <2>2. Tail(air[e]) \in Seq(Frame)
    BY <1>1, <2>1, HeadTailProperties DEF TypeOK
  <2>3. TypeOK'
    BY <1>1, <2>1, <2>2 DEF TypeOK
  <2> QED
    BY <2>1, <2>3, RestKeeps DEF Unopened
<1>13. ASSUME NEW e \in End, timer1(e) PROVE IInv'
  <2>1. con[e].t1 /\ rpc' = rpc /\ reader' = reader /\ submitted' = submitted
        /\ Apply(e, con_timer1_tick(con[e]), air)
    BY <1>13 DEF timer1
  <2>2. Good(con_timer1_tick(con[e]))
    BY <1>1, <2>1, Timer1Good
  <2>3. ~Unopened(e)'
    BY <1>1, <2>1 DEF Unopened, Fresh
  <2> QED
    BY <1>1, <2>1, <2>2, <2>3, ApplyKeeps DEF TypeOK
<1>14. ASSUME NEW e \in End, timer3(e) PROVE IInv'
  <2>1. rpc' = rpc /\ reader' = reader /\ submitted' = submitted
        /\ Apply(e, con_timer3_tick(con[e]), air)
    BY <1>14 DEF timer3
  <2>2. Good(con_timer3_tick(con[e])) /\ (Unopened(e) => Fresh(con_timer3_tick(con[e])))
    BY <1>1, Timer3Good
  <2>3. Unopened(e)' = Unopened(e)
    BY <2>1 DEF Unopened
  <2> QED
    BY <1>1, <2>1, <2>2, <2>3, ApplyKeeps DEF TypeOK
<1>15. CASE UNCHANGED vars
  BY <1>1, <1>15, RestKeeps DEF vars, TypeOK, Unopened
<1> QED
  BY <1>3, <1>4, <1>5, <1>6, <1>7, <1>8, <1>9, <1>10, <1>11, <1>12, <1>13, <1>14, <1>15
     DEF Next

\* Both connections stay good in every order of frames, losses, calls and timers,
\* and until its link is opened an end's connection is as it was constructed
\* but for the sequence variables.
THEOREM Invariant == Spec => []IInv
  BY InitGood, NextKeeps, PTL DEF Spec

\* Every variable of the two daemons and of the air has its type.
THEOREM TypesHold == Spec => []TypeOK
<1>1. IInv => TypeOK
  BY DEF IInv
<1> QED
  BY <1>1, Invariant, PTL

\* No order of frames, losses, calls and timers makes an assert() of the
\* connection state machine fail.
THEOREM NoAssertionFails == Spec => []AssertionsHold
<1>1. IInv => AssertionsHold
  BY DEF IInv, AssertionsHold, Good
<1> QED
  BY <1>1, Invariant, PTL

------------------------------------------------------------------------------
(* A patient T1.                                                           *)

\* End e serves a link, or has set one up or been told that one will be.
On(e) == can_receive_data(con[e]) \/ Unopened(e) \/ con[e].st = "AwaitingConnection"

\* What s has submitted, what of it is under way, what was heard of it and what s
\* knows of that agree.
Direction(s) ==
    Direct(con[s], On(s), submitted[s], air[peer(s)], air[s], Len(log[peer(s)]))

\* The log is 1, 2, ... and V(R) is the number that follows.
Heeds(r) ==
    /\ \A i \in 1 .. Len(log[r]) : log[r][i] = i
    /\ rpc[r] # "done" => con[r].vr = Len(log[r]) % Modulus

\* What the air has room for.
LEMMA RoomOnto ==
    ASSUME NEW w \in Seq(Frame), NEW out \in Seq(Frame)
    PROVE  Onto(Room(w \o out), w, out)
<1> DEFINE s == w \o out
           n == IF Len(s) < AirCap THEN Len(s) ELSE AirCap
           r == SubSeq(s, 1, n)
<1>1. /\ s \in Seq(Frame) /\ Len(s) = Len(w) + Len(out)
      /\ Len(w) \in Nat /\ Len(out) \in Nat
      /\ \A i \in 1 .. Len(s) : s[i] = IF i <= Len(w) THEN w[i] ELSE out[i - Len(w)]
  BY ConcatProperties, LenProperties
<1>2. AirCap \in Nat
  BY LinkBoundAssumption
<1>3. n \in Nat /\ n <= Len(s)
  BY <1>1, <1>2
<1>4. r = Room(s)
  BY DEF Room
<1> HIDE DEF n, s
<1>5. /\ r \in Seq(Frame) /\ Len(r) = n
      /\ \A i \in 1 .. n : r[i] = s[i]
  <2>1. 1 \in 1 .. Len(s) + 1 /\ n \in 0 .. Len(s)
    BY <1>1, <1>3
  <2>2. SubSeq(s, 1, n) \in Seq(Frame)
    BY <1>1, <1>3, SubSeqProperties
  <2> QED
    BY <1>1, <1>3, <2>2, SMTT(30)
<1> HIDE DEF r
<1>6. ASSUME NEW i \in 1 .. Len(r)
      PROVE  IF i <= Len(w) THEN r[i] = w[i]
             ELSE i - Len(w) \in 1 .. Len(out) /\ r[i] = out[i - Len(w)]
  <2>1. i \in 1 .. n /\ i \in 1 .. Len(s) /\ r[i] = s[i]
    BY <1>1, <1>3, <1>5
  <2> QED
    BY <1>1, <2>1
<1>7. Onto(r, w, out)
  BY <1>5, <1>6 DEF Onto
<1> QED
  BY <1>4, <1>7 DEF s

\* What e says is of one piece with what is acknowledged to it of its data.
Sends(e, g, m, onair) ==
    \E b \in 0 .. submitted[e] : \E q \in b .. Len(log[peer(e)]) :
        /\ Going(con[e], b, submitted[e], air[peer(e)], air[e], Len(log[peer(e)]))
        /\ Holds(g, q, m, Full(q, m)) /\ Bears(g.out, q, Full(q, m))
        /\ AcksFit(onair[e], q, Len(log[peer(e)]))

\* What e makes of what it is sent, and what it says of it.
Hears(e, g, onair) ==
    /\ Tells(g.out, Len(log[e]) + Len(g.up))
    /\ \/ /\ g.up = <<>> /\ g.vr = con[e].vr
          /\ onair[e] = air[e] \/ (air[e] # <<>> /\ onair[e] = Tail(air[e]))
       \/ /\ air[e] # <<>> /\ onair[e] = Tail(air[e])
          /\ Head(air[e]).type = "iframe" /\ Head(air[e]).ns = con[e].vr
          /\ g.up = <<Head(air[e]).payload>> /\ g.vr = (con[e].vr + 1) % Modulus

\* There are two ends.
LEMMA PeerIs ==
    ASSUME NEW e \in End
    PROVE  /\ peer(e) \in End /\ peer(peer(e)) = e /\ peer(e) # e
           /\ \A x \in End : x = e \/ x = peer(e)
  BY DEF peer, End

\* A call at end e keeps both directions.
LEMMA Moves ==
    ASSUME TypeOK, NEW e \in End, Direction(e), Direction(peer(e)), Heeds(e), Heeds(peer(e)),
           rpc[e] # "done",
           NEW g, Good(g), NEW onair \in [End -> Seq(Frame)], Apply(e, g, onair),
           onair[peer(e)] = air[peer(e)],
           NEW m \in Nat, submitted[e] <= m, submitted' = [submitted EXCEPT ![e] = m],
           rpc'[peer(e)] = rpc[peer(e)],
           Sends(e, g, m, onair) \/ (~On(e)' /\ None("iframe", g.out)),
           Hears(e, g, onair)
    PROVE  Direction(e)' /\ Direction(peer(e))' /\ Heeds(e)' /\ Heeds(peer(e))'
<1> DEFINE p == peer(e)
           c == con[e]
           n == submitted[e]
           w == air[p]
           v == air[e]
           l == Len(log[p])
           k == Len(log[e])
           h == start(g)
           w1 == Room(w \o g.out)
           v1 == onair[e]
           k1 == Len(log[e] \o g.up)
<1>1. p \in End /\ peer(p) = e /\ p # e
  BY PeerIs
<1>2. g \in ConnectionType /\ g.out \in Seq(Frame) /\ g.up \in Seq(Payload)
  BY DEF Good, ConnectionType
<1>3. /\ n \in Nat /\ w \in Seq(Frame) /\ v \in Seq(Frame) /\ v1 \in Seq(Frame)
      /\ log[e] \in Seq(Payload) /\ log[p] \in Seq(Payload) /\ k \in Nat /\ l \in Nat
  BY <1>1 DEF TypeOK
<1>4. Onto(w1, w, g.out)
  BY <1>2, <1>3, RoomOnto
<1>5. Still(g, h)
  BY StartStill
<1>6. /\ con'[e] = h /\ con'[p] = con[p]
      /\ air'[p] = w1 /\ air'[e] = v1
      /\ log'[e] = log[e] \o g.up /\ log'[p] = log[p]
      /\ submitted'[e] = m /\ submitted'[p] = submitted[p]
  <2>1. /\ con' = [con EXCEPT ![e] = h] /\ air' = [onair EXCEPT ![p] = Room(onair[p] \o g.out)]
        /\ log' = [log EXCEPT ![e] = @ \o g.up]
    BY DEF Apply
  <2> HIDE DEF h, w1, p
  <2> QED
    BY <1>1, <2>1 DEF TypeOK, w1, p
<1>7. Direct(c, On(e), n, w, v, l)
  BY DEF Direction
<1>8. Direct(con[p], On(p), submitted[p], v, w, k)
  BY <1>1 DEF Direction
<1>9. Direct(h, On(e)', m, w1, v1, l)
  <2>1. CASE Sends(e, g, m, onair)
    <3>1. PICK b \in 0 .. n : \E q \in b .. l :
             /\ Going(c, b, n, w, v, l)
             /\ Holds(g, q, m, Full(q, m)) /\ Bears(g.out, q, Full(q, m))
             /\ AcksFit(v1, q, l)
      BY <2>1 DEF Sends
    <3>2. PICK q \in b .. l :
             /\ Going(c, b, n, w, v, l)
             /\ Holds(g, q, m, Full(q, m)) /\ Bears(g.out, q, Full(q, m))
             /\ AcksFit(v1, q, l)
      BY <3>1
    <3>3. h.va = g.va /\ h.vs = g.vs /\ h.iframe_resend_queue = g.iframe_resend_queue
      BY <1>5 DEF Still
    <3> HIDE DEF h, w1, v1, w, v, l, n, c
    <3>4. n <= m
      BY DEF n
    <3> QED
      BY <1>3, <1>4, <1>7, <3>2, <3>3, <3>4, GoingOn
  <2>2. CASE ~On(e)' /\ None("iframe", g.out)
    <3>1. \A i \in 1 .. Len(g.out) : g.out[i].type # "iframe"
      BY <2>2 DEF None
    <3> HIDE DEF h, w1, v1, w, v, l, n, c
    <3>4. n <= m
      BY DEF n
    <3>5. Direct(h, FALSE, m, w1, v1, l)
      BY <1>3, <1>4, <1>7, <3>1, <3>4, GoingOff
    <3> QED
      BY <2>2, <3>5 DEF Direct
  <2> QED
    BY <2>1, <2>2
<1>10. Direction(e)'
  BY <1>6, <1>9 DEF Direction
<1>11. k1 = k + Len(g.up)
  BY <1>2, <1>3, ConcatProperties
<1>12. con[e].vr = k % Modulus /\ \A i \in 1 .. k : log[e][i] = i
  BY DEF Heeds
<1>13. v1 = v \/ (v # <<>> /\ v1 = Tail(v))
  BY DEF Hears
<1>14. h.vr = g.vr
  BY <1>5 DEF Still
<1>17. Takes(v1, v, k1, k) /\ h.vr = k1 % Modulus
       /\ \A i \in 1 .. k1 : (log[e] \o g.up)[i] = i
  <2>1. CASE g.up = <<>> /\ g.vr = con[e].vr
    <3>1. Len(g.up) = 0 /\ k1 = k /\ log[e] \o g.up = log[e]
      BY <1>3, <1>11, <2>1
    <3>2. Takes(v1, v, k1, k)
      BY <1>13, <3>1 DEF Takes
    <3>3. h.vr = k1 % Modulus /\ \A i \in 1 .. k1 : (log[e] \o g.up)[i] = i
      BY <1>12, <1>14, <2>1, <3>1
    <3> QED
      BY <3>2, <3>3
  <2>2. CASE /\ v # <<>> /\ v1 = Tail(v)
              /\ Head(v).type = "iframe" /\ Head(v).ns = con[e].vr
              /\ g.up = <<Head(v).payload>> /\ g.vr = (con[e].vr + 1) % Modulus
    <3>1. Len(g.up) = 1 /\ k1 = k + 1 /\ g.up[1] = Head(v).payload
      BY <1>11, <2>2
    <3>2. Takes(v1, v, k1, k)
      BY <1>12, <2>2, <3>1 DEF Takes
    <3>3. DataFit(v, submitted[p], k) /\ submitted[p] \in Nat
      BY <1>8 DEF Direct
    <3>4. Head(v).payload = k + 1
      <4> HIDE DEF v, k, p
      <4> QED
        BY <1>3, <1>12, <2>2, <3>3, DataFirst
    <3>5. \A i \in 1 .. k1 : (log[e] \o g.up)[i] = IF i <= k THEN log[e][i] ELSE g.up[i - k]
      BY <1>2, <1>3, <1>11, ConcatProperties
    <3>6. h.vr = k1 % Modulus
      <4>1. k \in Int /\ 1 \in Int /\ Modulus \in Nat \ {0}
        BY <1>3
      <4>2. ((k % Modulus) + 1) % Modulus = (k + 1) % Modulus
        BY <4>1, PlaceSum, Zenon
      <4> QED
        BY <1>12, <1>14, <2>2, <3>1, <4>2
    <3>7. ASSUME NEW i \in 1 .. k1 PROVE (log[e] \o g.up)[i] = i
      <4> DEFINE z == log[e] \o g.up
                 u == g.up
                 d == log[e]
      <4>3. /\ i \in 1 .. k1 /\ k1 = k + 1 /\ k \in Nat /\ u[1] = k + 1
            /\ \A j \in 1 .. k : d[j] = j
            /\ \A j \in 1 .. k1 : z[j] = IF j <= k THEN d[j] ELSE u[j - k]
        BY <1>3, <1>12, <3>1, <3>4, <3>5
      <4> HIDE DEF k1, k, z, u, d
      <4>4. z[i] = i
        <5>1. CASE i <= k
          BY <4>3, <5>1
        <5>2. CASE ~(i <= k)
          <6>1. i = k + 1 /\ i - k = 1
            BY <4>3, <5>2
          <6> QED
            BY <4>3, <5>2, <6>1
        <5> QED
          BY <5>1, <5>2
      <4> QED
        BY <4>4 DEF z
    <3> QED
      BY <3>2, <3>6, <3>7
  <2> QED
    BY <2>1, <2>2 DEF Hears
<1>18. Tells(g.out, k1)
  BY <1>11 DEF Hears
<1>19. On(p)' => On(p)
  BY <1>1, <1>6 DEF On, Unopened
<1>20. Direct(con[p], On(p)', submitted[p], v1, w1, k1)
  <2> HIDE DEF p, w1, v1, v, w, k1, k
  <2> QED
    BY <1>4, <1>8, <1>17, <1>18, <1>19, GoingHeard
<1>21. Direction(p)'
  BY <1>1, <1>6, <1>20 DEF Direction
<1>22. Heeds(e)'
  BY <1>6, <1>17 DEF Heeds
<1>23. Heeds(p)'
  BY <1>1, <1>6 DEF Heeds
<1> QED
  BY <1>10, <1>21, <1>22, <1>23

\* Nothing, or one SABM.
Lone(w) == \A i \in 1 .. Len(w) : i = 1 /\ w[i] = Sabm(TRUE)

\* A UA in v is the first there, and nothing is in w.
Alone(v, w) == \A i \in 1 .. Len(v) : v[i].type = "ua" => i = 1 /\ w = <<>>

\* Whoever says out takes at most one frame from v, and out goes to w.
Airs(w1, w, v1, v, out) ==
    /\ Onto(w1, w, out) /\ v \in Seq(Frame)
    /\ v1 = v \/ (v # <<>> /\ v1 = Tail(v))

\* What a call leaves of what was known of the air: types that are missing from it, a
\* lone SABM, a lone UA.
LEMMA AirsKeep ==
    ASSUME NEW w1, NEW w, NEW v1, NEW v, NEW out, Airs(w1, w, v1, v, out)
    PROVE  /\ \A t : None(t, w) /\ None(t, out) => None(t, w1)
           /\ \A t : None(t, v) => None(t, v1)
           /\ v = <<>> => v1 = <<>>
           /\ out = <<>> /\ w = <<>> => w1 = <<>>
           /\ Lone(v) => Lone(v1)
           /\ out = <<>> /\ Lone(w) => Lone(w1)
           /\ None("ua", out) /\ Alone(w, v) => Alone(w1, v1)
           /\ out = <<>> /\ Alone(v, w) => Alone(v1, w1)
<1>1. /\ Onto(w1, w, out) /\ v \in Seq(Frame)
      /\ v1 = v \/ (v # <<>> /\ v1 = Tail(v))
  BY DEF Airs
<1>2. /\ w1 \in Seq(Frame) /\ w \in Seq(Frame) /\ out \in Seq(Frame)
      /\ Len(w1) \in Nat /\ Len(w) \in Nat /\ Len(out) \in Nat
  <2>1. w1 \in Seq(Frame) /\ w \in Seq(Frame) /\ out \in Seq(Frame)
    BY <1>1 DEF Onto
  <2> QED
    BY <2>1
<1>3. \A t : None(t, w) /\ None(t, out) => None(t, w1)
  BY <1>1, NoneOnto
<1>4. \A t : None(t, v) => None(t, v1)
  <2>1. ASSUME v # <<>>, NEW t, None(t, v) PROVE None(t, Tail(v))
    BY <1>1, <2>1, NoneTail
  <2> QED
    BY <1>1, <2>1
<1>5. v = <<>> => v1 = <<>>
  BY <1>1
<1>6. ASSUME out = <<>> PROVE \A i \in 1 .. Len(w1) : i \in 1 .. Len(w) /\ w1[i] = w[i]
  <2>1. Len(out) = 0
    BY <1>6
  <2> QED
    BY <1>1, <1>2, <2>1, OntoAt
<1>7. out = <<>> /\ w = <<>> => w1 = <<>>
  <2> SUFFICES ASSUME out = <<>>, w = <<>> PROVE w1 = <<>>
    OBVIOUS
  <2>1. Len(w) = 0
    OBVIOUS
  <2>2. Len(w1) = 0
    BY <1>2, <1>6, <2>1
  <2> QED
    BY <1>2, <2>2, EmptySeq
<1>8. ASSUME v # <<>>, v1 = Tail(v)
      PROVE  \A i \in 1 .. Len(v1) : i + 1 \in 1 .. Len(v) /\ v1[i] = v[i + 1] /\ i + 1 # 1
  <2>1. /\ Len(v) \in Nat \ {0} /\ Len(v1) = Len(v) - 1
        /\ \A i \in 1 .. Len(v) - 1 : v1[i] = v[i + 1]
    BY <1>1, <1>8, TailIs
  <2> QED
    BY <2>1
<1>9. Lone(v) => Lone(v1)
  <2>1. CASE v1 = v
    BY <2>1
  <2>2. CASE v # <<>> /\ v1 = Tail(v)
    <3> SUFFICES ASSUME Lone(v), NEW i \in 1 .. Len(v1) PROVE FALSE
      BY DEF Lone
    <3>1. i + 1 \in 1 .. Len(v) /\ i + 1 # 1
      BY <1>8, <2>2
    <3> DEFINE j == i + 1
    <3>2. j \in 1 .. Len(v) /\ j # 1
      BY <3>1
    <3> HIDE DEF j
    <3> QED
      BY <3>2 DEF Lone
  <2> QED
    BY <1>1, <2>1, <2>2
<1>10. out = <<>> /\ Lone(w) => Lone(w1)
  BY <1>6 DEF Lone
<1>11. None("ua", out) /\ Alone(w, v) => Alone(w1, v1)
  <2> SUFFICES ASSUME None("ua", out), Alone(w, v), NEW i \in 1 .. Len(w1), w1[i].type = "ua"
               PROVE  i = 1 /\ v1 = <<>>
    BY DEF Alone
  <2>1. i \in 1 .. Len(w) => w1[i] = w[i]
    BY <1>1, OntoAt
  <2>2. i \notin 1 .. Len(w) => i - Len(w) \in 1 .. Len(out) /\ w1[i] = out[i - Len(w)]
    BY <1>1, OntoAt
  <2>3. i \in 1 .. Len(w)
    BY <2>2 DEF None
  <2> QED
    BY <1>5, <2>1, <2>3 DEF Alone
<1>12. out = <<>> /\ Alone(v, w) => Alone(v1, w1)
  BY <1>1, <1>7, <1>8 DEF Alone
<1> QED
  BY <1>3, <1>4, <1>5, <1>7, <1>9, <1>10, <1>11, <1>12

------------------------------------------------------------------------------
(* How a link is set up.                                                   *)

\* A link is of the modulus that the SABM stands for.
Versions ==
    \A e \in End : can_receive_data(con[e]) \/ con[e].st = "AwaitingConnection"
                     => con[e].modulus = Modulus

\* Until A calls there is nothing.
Hushed ==
    rpc["A"] = "init" => /\ air["A"] = <<>> /\ air["B"] = <<>> /\ Unopened("B")
                         /\ con["A"].st = "Disconnected" /\ con["B"].st = "Disconnected"
                         /\ log["A"] = <<>>

\* While A calls, all it may find is the UA that it waits for, when nothing of its
\* own is under way.
Calls ==
    /\ con["B"].st # "AwaitingConnection"
    /\ con["A"].st = "AwaitingConnection" =>
          /\ rpc["A"] = "waiting" /\ log["A"] = <<>>
          /\ Lone(air["B"]) /\ Alone(air["A"], air["B"])
          /\ (air["B"] # <<>> /\ Unopened("B")) => air["A"] = <<>>

\* Towards an end that is up there is no UA, and from it neither DISC nor SABM.
Tidy ==
    \A e \in End : can_receive_data(con[e]) =>
        /\ None("ua", air[e]) /\ None("disc", air[peer(e)]) /\ None("sabm", air[peer(e)])

\* Only A calls, and only while it waits.
Sabms ==
    /\ None("sabm", air["A"])
    /\ con["A"].st # "AwaitingConnection" => None("sabm", air["B"])

\* While B waits to be called it has heard nothing and said nothing that ends a link.
Waits ==
    Unopened("B") =>
        /\ con["B"].st \in {"Disconnected", "Connected"}
        /\ log["B"] = <<>>
        /\ None("disc", air["A"]) /\ None("ua", air["B"])
        /\ (rpc["B"] = "init" => con["B"].st = "Disconnected")

\* All that is known of how the link is set up.
Setup == Versions /\ Hushed /\ Calls /\ Tidy /\ Sabms /\ Waits

\* A call at end e that leaves g.
Stepped(e, g) ==
    /\ con'[e].st = g.st /\ con'[e].modulus = g.modulus
    /\ con'[peer(e)] = con[peer(e)] /\ rpc'[peer(e)] = rpc[peer(e)]
    /\ log'[peer(e)] = log[peer(e)] /\ log'[e] = log[e] \o g.up
    /\ Airs(air'[peer(e)], air[peer(e)], air'[e], air[e], g.out)

\* Every call of a good connection is such a step.
LEMMA ApplyStepped ==
    ASSUME TypeOK, NEW e \in End, NEW g, Good(g), NEW onair \in [End -> Seq(Frame)],
           Apply(e, g, onair), onair[peer(e)] = air[peer(e)],
           onair[e] = air[e] \/ (air[e] # <<>> /\ onair[e] = Tail(air[e])),
           rpc'[peer(e)] = rpc[peer(e)]
    PROVE  Stepped(e, g)
<1> DEFINE p == peer(e)
           h == start(g)
           w1 == Room(onair[p] \o g.out)
<1>1. p \in End /\ p # e
  BY PeerIs
<1>2. g.out \in Seq(Frame) /\ air[p] \in Seq(Frame) /\ air[e] \in Seq(Frame)
  BY <1>1 DEF Good, ConnectionType, TypeOK
<1>3. Onto(w1, air[p], g.out)
  BY <1>2, RoomOnto
<1>4. h.st = g.st /\ h.modulus = g.modulus
  BY StartStill DEF Still
<1>5. /\ con' = [con EXCEPT ![e] = h] /\ air' = [onair EXCEPT ![p] = w1]
      /\ log' = [log EXCEPT ![e] = @ \o g.up]
  BY DEF Apply
<1> HIDE DEF h, w1, p
<1>6. /\ con'[e] = h /\ con'[p] = con[p] /\ air'[p] = w1 /\ air'[e] = onair[e]
      /\ log'[e] = log[e] \o g.up /\ log'[p] = log[p]
  BY <1>1, <1>5 DEF TypeOK
<1>7. Airs(air'[p], air[p], air'[e], air[e], g.out)
  BY <1>2, <1>3, <1>6 DEF Airs, p
<1> QED
  BY <1>4, <1>6, <1>7 DEF Stepped, p

\* What a call at e leaves of the air in both directions, and of the peer.
LEMMA SteppedAir ==
    ASSUME NEW e, NEW g, Stepped(e, g)
    PROVE  /\ \A t : None(t, air[peer(e)]) /\ None(t, g.out) => None(t, air'[peer(e)])
           /\ \A t : None(t, air[e]) => None(t, air'[e])
           /\ air[e] = <<>> => air'[e] = <<>>
           /\ g.out = <<>> /\ air[peer(e)] = <<>> => air'[peer(e)] = <<>>
           /\ Lone(air[e]) => Lone(air'[e])
           /\ g.out = <<>> /\ Lone(air[peer(e)]) => Lone(air'[peer(e)])
           /\ None("ua", g.out) /\ Alone(air[peer(e)], air[e]) => Alone(air'[peer(e)], air'[e])
           /\ g.out = <<>> /\ Alone(air[e], air[peer(e)]) => Alone(air'[e], air'[peer(e)])
           /\ con'[e].st = g.st /\ con'[e].modulus = g.modulus
           /\ con'[peer(e)] = con[peer(e)] /\ rpc'[peer(e)] = rpc[peer(e)]
           /\ log'[peer(e)] = log[peer(e)] /\ log'[e] = log[e] \o g.up
<1>1. Airs(air'[peer(e)], air[peer(e)], air'[e], air[e], g.out)
  BY DEF Stepped
<1> QED
  BY <1>1, AirsKeep DEF Stepped

\* A link that is up and stays up.
LEMMA SetupServes ==
    ASSUME Setup, NEW e \in End, NEW g, Stepped(e, g), rpc'[e] = rpc[e], ~Unopened(e),
           Up(con[e]), Up(g),
           \A i \in 1 .. Len(g.out) : g.out[i].type \in {"rr", "rej", "iframe"}
    PROVE  Setup'
<1>1. None("ua", g.out) /\ None("disc", g.out) /\ None("sabm", g.out)
  BY DEF None
<1>2. can_receive_data(con[e]) /\ can_receive_data(con'[e]) /\ con'[e].modulus = Modulus
      /\ con[e].st # "AwaitingConnection" /\ con'[e].st # "AwaitingConnection"
      /\ con[e].st # "Disconnected"
  BY DEF Up, Stepped, can_receive_data, ReceivingStates
<1>3. CASE e = "A"
  <2> DEFINE p == "B"
  <2>1. p = peer(e) /\ peer(p) = e
    BY <1>3 DEF peer
  <2>2. /\ \A t : None(t, air[p]) /\ None(t, g.out) => None(t, air'[p])
        /\ \A t : None(t, air[e]) => None(t, air'[e])
        /\ con'[p] = con[p] /\ rpc'[p] = rpc[p] /\ log'[p] = log[p]
    BY <2>1, SteppedAir, ZenonT(40)
  <2>3. Versions'
    BY <1>2, <1>3, <2>2 DEF Setup, Versions, End
  <2>4. Hushed'
    BY <1>2, <1>3, <2>2 DEF Setup, Hushed
  <2>5. Calls'
    BY <1>2, <1>3, <2>2 DEF Setup, Calls
  <2>6. Tidy'
    BY <1>1, <1>2, <1>3, <2>1, <2>2 DEF Setup, Tidy, End
  <2>7. Sabms'
    BY <1>1, <1>2, <1>3, <2>2 DEF Setup, Sabms
  <2>8. Waits'
    BY <1>1, <1>3, <2>2 DEF Setup, Waits, Unopened
  <2> QED
    BY <2>3, <2>4, <2>5, <2>6, <2>7, <2>8 DEF Setup
<1>4. CASE e = "B"
  <2> DEFINE p == "A"
  <2>1. p = peer(e) /\ peer(p) = e
    BY <1>4 DEF peer
  <2>2. /\ \A t : None(t, air[p]) /\ None(t, g.out) => None(t, air'[p])
        /\ \A t : None(t, air[e]) => None(t, air'[e])
        /\ con'[p] = con[p] /\ rpc'[p] = rpc[p] /\ log'[p] = log[p]
        /\ Lone(air[e]) => Lone(air'[e])
        /\ None("ua", g.out) /\ Alone(air[p], air[e]) => Alone(air'[p], air'[e])
    BY <2>1, SteppedAir, ZenonT(40)
  <2>3. Versions'
    BY <1>2, <1>4, <2>2 DEF Setup, Versions, End
  <2>4. Hushed'
    BY <1>2, <1>4, <2>2 DEF Setup, Hushed
  <2>5. Calls'
    BY <1>1, <1>2, <1>4, <2>2 DEF Setup, Calls, Unopened
  <2>6. Tidy'
    BY <1>1, <1>2, <1>4, <2>1, <2>2 DEF Setup, Tidy, End
  <2>7. Sabms'
    BY <1>1, <1>2, <1>4, <2>2 DEF Setup, Sabms
  <2>8. Waits'
    BY <1>4 DEF Waits, Unopened
  <2> QED
    BY <2>3, <2>4, <2>5, <2>6, <2>7, <2>8 DEF Setup
<1> QED
  BY <1>3, <1>4 DEF End

\* An end that goes down, or is down.
LEMMA SetupEnds ==
    ASSUME Setup, NEW e \in End, NEW g, Stepped(e, g), ~Unopened(e), ~Unopened(e)',
           ~can_receive_data(g), g.st # "AwaitingConnection",
           e = "A" => None("sabm", air["B"]),
           None("sabm", g.out), On(peer(e)) => None("ua", g.out)
    PROVE  Setup'
<1>1. ~can_receive_data(con'[e]) /\ con'[e].st # "AwaitingConnection"
  BY DEF Stepped, can_receive_data
<1>2. CASE e = "A"
  <2> DEFINE p == "B"
  <2>1. p = peer(e) /\ peer(p) = e
    BY <1>2 DEF peer
  <2>2. /\ \A t : None(t, air[p]) /\ None(t, g.out) => None(t, air'[p])
        /\ \A t : None(t, air[e]) => None(t, air'[e])
        /\ con'[p] = con[p] /\ rpc'[p] = rpc[p] /\ log'[p] = log[p]
    BY <2>1, SteppedAir, ZenonT(40)
  <2>3. On(p) => None("ua", g.out)
    BY <2>1
  <2>4. Versions'
    BY <1>1, <1>2, <2>2 DEF Setup, Versions, End
  <2>5. Hushed'
    BY <1>2 DEF Hushed, Unopened
  <2>6. Calls'
    BY <1>1, <1>2, <2>2 DEF Setup, Calls
  <2>7. Tidy'
    BY <1>1, <1>2, <2>1, <2>2, <2>3 DEF Setup, Tidy, End, On
  <2>8. Sabms'
    BY <1>1, <1>2, <2>2 DEF Setup, Sabms
  <2>9. Waits'
    BY <1>2, <2>2, <2>3 DEF Setup, Waits, Unopened, On
  <2> QED
    BY <2>4, <2>5, <2>6, <2>7, <2>8, <2>9 DEF Setup
<1>3. CASE e = "B"
  <2> DEFINE p == "A"
  <2>1. p = peer(e) /\ peer(p) = e
    BY <1>3 DEF peer
  <2>2. /\ \A t : None(t, air[p]) /\ None(t, g.out) => None(t, air'[p])
        /\ \A t : None(t, air[e]) => None(t, air'[e])
        /\ con'[p] = con[p] /\ rpc'[p] = rpc[p] /\ log'[p] = log[p]
        /\ Lone(air[e]) => Lone(air'[e])
        /\ None("ua", g.out) /\ Alone(air[p], air[e]) => Alone(air'[p], air'[e])
    BY <2>1, SteppedAir, ZenonT(40)
  <2>3. On(p) => None("ua", g.out)
    BY <2>1
  <2>4. Versions'
    BY <1>1, <1>3, <2>2 DEF Setup, Versions, End
  <2>5. Hushed'
    BY <1>3, <2>2 DEF Setup, Hushed
  <2>6. Calls'
    BY <1>1, <1>3, <2>2, <2>3 DEF Setup, Calls, Unopened, On
  <2>7. Tidy'
    BY <1>1, <1>3, <2>1, <2>2, <2>3 DEF Setup, Tidy, End, On
  <2>8. Sabms'
    BY <1>1, <1>3, <2>2 DEF Setup, Sabms
  <2>9. Waits'
    BY <1>3 DEF Waits
  <2> QED
    BY <2>4, <2>5, <2>6, <2>7, <2>8, <2>9 DEF Setup
<1> QED
  BY <1>2, <1>3 DEF End

\* An end of which nothing is heard and that stays as it is.
LEMMA SetupStill ==
    ASSUME Setup, NEW e \in End, NEW g, Stepped(e, g), Still(con[e], g),
           rpc'[e] = rpc[e] \/ (rpc[e] = "open" /\ rpc'[e] = "closing"),
           log[e] \in Seq(Payload)
    PROVE  Setup'
<1>1. /\ con'[e].st = con[e].st /\ con'[e].modulus = con[e].modulus
      /\ g.out = <<>> /\ log'[e] = log[e] /\ None("ua", g.out)
      /\ None("disc", g.out) /\ None("sabm", g.out)
  <2>1. log[e] \o <<>> = log[e]
    OBVIOUS
  <2> QED
    BY <2>1 DEF Still, Stepped, None
<1>2. can_receive_data(con'[e]) = can_receive_data(con[e])
  BY <1>1 DEF can_receive_data
<1>3. CASE e = "A"
  <2> DEFINE p == "B"
  <2>1. p = peer(e) /\ peer(p) = e
    BY <1>3 DEF peer
  <2>2. /\ \A t : None(t, air[p]) => None(t, air'[p])
        /\ \A t : None(t, air[e]) => None(t, air'[e])
        /\ con'[p] = con[p] /\ rpc'[p] = rpc[p] /\ log'[p] = log[p]
        /\ air[e] = <<>> => air'[e] = <<>>
        /\ air[p] = <<>> => air'[p] = <<>>
        /\ Lone(air[p]) => Lone(air'[p])
        /\ Alone(air[e], air[p]) => Alone(air'[e], air'[p])
    <3>1. \A t : None(t, g.out)
      BY <1>1 DEF None
    <3>2. g.out = <<>> /\ Stepped(e, g) /\ peer(e) = p /\ None("ua", g.out)
      BY <1>1, <2>1
    <3> HIDE DEF p
    <3> QED
      BY <3>1, <3>2, SteppedAir
  <2>3. Versions'
    BY <1>1, <1>2, <1>3, <2>2 DEF Setup, Versions, End
  <2>4. Hushed'
    BY <1>1, <1>3, <2>2 DEF Setup, Hushed, Unopened
  <2>5. Calls'
    BY <1>1, <1>3, <2>2 DEF Setup, Calls, Unopened
  <2>6. Tidy'
    BY <1>2, <1>3, <2>1, <2>2 DEF Setup, Tidy, End
  <2>7. Sabms'
    BY <1>1, <1>3, <2>2 DEF Setup, Sabms
  <2>8. Waits'
    BY <1>3, <2>2 DEF Setup, Waits, Unopened
  <2> QED
    BY <2>3, <2>4, <2>5, <2>6, <2>7, <2>8 DEF Setup
<1>4. CASE e = "B"
  <2> DEFINE p == "A"
  <2>1. p = peer(e) /\ peer(p) = e
    BY <1>4 DEF peer
  <2>2. /\ \A t : None(t, air[p]) => None(t, air'[p])
        /\ \A t : None(t, air[e]) => None(t, air'[e])
        /\ con'[p] = con[p] /\ rpc'[p] = rpc[p] /\ log'[p] = log[p]
        /\ air[e] = <<>> => air'[e] = <<>>
        /\ air[p] = <<>> => air'[p] = <<>>
        /\ Lone(air[e]) => Lone(air'[e])
        /\ Alone(air[p], air[e]) => Alone(air'[p], air'[e])
    <3>1. \A t : None(t, g.out)
      BY <1>1 DEF None
    <3>2. g.out = <<>> /\ Stepped(e, g) /\ peer(e) = p /\ None("ua", g.out)
      BY <1>1, <2>1
    <3> HIDE DEF p
    <3> QED
      BY <3>1, <3>2, SteppedAir
  <2>3. Versions'
    BY <1>1, <1>2, <1>4, <2>2 DEF Setup, Versions, End
  <2>4. Hushed'
    BY <1>1, <1>4, <2>2 DEF Setup, Hushed, Unopened
  <2>5. Calls'
    BY <1>1, <1>4, <2>2 DEF Setup, Calls, Unopened
  <2>6. Tidy'
    BY <1>2, <1>4, <2>1, <2>2 DEF Setup, Tidy, End
  <2>7. Sabms'
    BY <1>1, <1>4, <2>2 DEF Setup, Sabms
  <2>8. Waits'
    BY <1>1, <1>4, <2>2 DEF Setup, Waits, Unopened
  <2> QED
    BY <2>3, <2>4, <2>5, <2>6, <2>7, <2>8 DEF Setup
<1> QED
  BY <1>3, <1>4 DEF End

\* A calls, when nothing is under way.
LEMMA SetupCalls ==
    ASSUME Setup, NEW g, Stepped("A", g), Calling(con["A"], g), rpc'["A"] = "waiting",
           air["A"] = <<>>, air["B"] = <<>>, log["A"] = <<>>
    PROVE  Setup'
<1> DEFINE u == Sabm(TRUE)
<1>1. /\ con'["A"].st = "AwaitingConnection" /\ con'["A"].modulus = Modulus
      /\ g.out = <<u>> /\ g.up = <<>> /\ ~can_receive_data(con'["A"])
  BY DEF Calling, Stepped, can_receive_data, ReceivingStates
<1>2. peer("A") = "B" /\ peer("B") = "A" /\ End = {"A", "B"}
  BY DEF peer, End
<1>3. None("ua", g.out) /\ None("disc", g.out)
  BY <1>1 DEF None, Sabm
<1>4. \A t : None(t, <<>>)
  BY DEF None
<1>5. log'["A"] = <<>>
  <2>1. log'["A"] = <<>> \o <<>>
    BY <1>1 DEF Stepped
  <2> QED
    BY <2>1
<1>6. Onto(air'["B"], <<>>, g.out)
  BY <1>2 DEF Stepped, Airs
<1>7. Lone(air'["B"])
  <2>1. Len(<<>>) = 0 /\ Len(g.out) = 1 /\ g.out[1] = u
    BY <1>1
  <2> HIDE DEF u
  <2>2. ASSUME NEW i \in 1 .. Len(air'["B"]) PROVE i = 1 /\ air'["B"][i] = u
    <3>1. i - 0 \in 1 .. Len(g.out) /\ air'["B"][i] = g.out[i - 0]
      BY <1>6, <2>1, OntoAt
    <3> QED
      BY <2>1, <3>1
  <2> QED
    BY <2>2 DEF Lone, u
<1>8. /\ \A t : None(t, g.out) => None(t, air'["B"])
      /\ air'["A"] = <<>> /\ con'["B"] = con["B"] /\ rpc'["B"] = rpc["B"] /\ log'["B"] = log["B"]
  <2>1. Stepped("A", g) /\ None("ua", g.out)
    BY <1>3
  <2>2. \A t : None(t, air["B"]) /\ air["A"] = <<>>
    BY <1>4
  <2> QED
    BY <1>2, <2>1, <2>2, SteppedAir
<1>9. Alone(air'["A"], air'["B"])
  <2>1. Alone(<<>>, air'["B"])
    BY DEF Alone
  <2> QED
    BY <1>8, <2>1
<1>10. Versions'
  BY <1>1, <1>2, <1>8 DEF Setup, Versions
<1>11. Hushed'
  BY DEF Hushed
<1>12. Calls'
  BY <1>5, <1>7, <1>8, <1>9 DEF Setup, Calls
<1>13. Tidy'
  BY <1>1, <1>2, <1>3, <1>4, <1>8 DEF Setup, Tidy
<1>14. Sabms'
  BY <1>1, <1>4, <1>8 DEF Sabms
<1>15. Waits'
  BY <1>3, <1>4, <1>8 DEF Setup, Waits, Unopened
<1> QED
  BY <1>10, <1>11, <1>12, <1>13, <1>14, <1>15 DEF Setup

\* The rest of what at most one frame is in, or of what has a UA only in front.
LEMMA LoneTail ==
    ASSUME NEW w \in Seq(Frame), w # <<>>
    PROVE  /\ Lone(w) => Tail(w) = <<>> /\ Head(w) = Sabm(TRUE)
           /\ \A v : Alone(w, v) /\ Head(w).type = "ua" => None("ua", Tail(w)) /\ v = <<>>
<1> DEFINE s == Tail(w)
<1>1. /\ s \in Seq(Frame) /\ Len(w) \in Nat \ {0} /\ Len(s) = Len(w) - 1 /\ Head(w) = w[1]
      /\ \A i \in 1 .. Len(w) - 1 : s[i] = w[i + 1]
  BY TailIs
<1> HIDE DEF s
<1>2. 1 \in 1 .. Len(w) /\ Len(s) \in Nat
  BY <1>1
<1>3. ASSUME Lone(w) PROVE s = <<>> /\ Head(w) = Sabm(TRUE)
  <2>1. Head(w) = Sabm(TRUE)
    BY <1>1, <1>2, <1>3 DEF Lone
  <2>2. Len(w) \in 1 .. Len(w)
    BY <1>1
  <2>3. Len(w) = 1
    BY <1>3, <2>2 DEF Lone
  <2>4. Len(s) = 0
    BY <1>1, <2>3
  <2> QED
    BY <1>1, <2>1, <2>4, EmptySeq
<1>4. ASSUME NEW v, Alone(w, v), Head(w).type = "ua" PROVE None("ua", s) /\ v = <<>>
  <2>1. v = <<>>
    BY <1>1, <1>2, <1>4 DEF Alone
  <2>2. ASSUME NEW i \in 1 .. Len(s) PROVE s[i].type # "ua"
    <3> DEFINE j == i + 1
    <3>1. j \in 1 .. Len(w) /\ j # 1 /\ s[i] = w[j]
      BY <1>1
    <3> HIDE DEF j
    <3> QED
      BY <1>4, <3>1 DEF Alone
  <2> QED
    BY <2>1, <2>2 DEF None
<1> QED
  BY <1>3, <1>4 DEF s

\* The SABM finds B in its wait.
LEMMA SetupAccepts ==
    ASSUME Setup, TypeOK, NEW g, Stepped("B", g), Risen(g), g.st = "Connected",
           rpc["B"] = "waiting", rpc'["B"] = "waiting", NEW pf, g.out = <<Ua(pf)>>,
           air["B"] # <<>>, Head(air["B"]).type = "sabm", air'["B"] = Tail(air["B"])
    PROVE  Setup'
<1> DEFINE u == Ua(pf)
<1>1. peer("A") = "B" /\ peer("B") = "A" /\ End = {"A", "B"}
  BY DEF peer, End
<1>2. /\ con'["B"].st = "Connected" /\ con'["B"].modulus = Modulus /\ g.up = <<>>
      /\ can_receive_data(con'["B"]) /\ Unopened("B") /\ Unopened("B")'
  BY DEF Stepped, Risen, Up, can_receive_data, ReceivingStates, Unopened
<1>3. air["B"] \in Seq(Frame) /\ log["B"] \in Seq(Payload)
  BY <1>1 DEF TypeOK
<1>4. ~None("sabm", air["B"])
  BY <1>3, NoneTail
<1>5. con["A"].st = "AwaitingConnection"
  BY <1>4 DEF Setup, Sabms
<1>6. /\ rpc["A"] = "waiting" /\ log["A"] = <<>> /\ Lone(air["B"]) /\ air["A"] = <<>>
  BY <1>2, <1>5 DEF Setup, Calls
<1>7. air'["B"] = <<>>
  BY <1>3, <1>6, LoneTail
<1>8. None("disc", g.out) /\ None("sabm", g.out) /\ \A t : None(t, <<>>)
  BY DEF None, Ua
<1>9. log'["B"] = <<>>
  <2>1. log["B"] = <<>> /\ log'["B"] = log["B"] \o <<>>
    BY <1>2 DEF Setup, Waits, Stepped
  <2> QED
    BY <2>1
<1>10. /\ None("disc", air'["A"]) /\ None("sabm", air'["A"])
       /\ con'["A"] = con["A"] /\ rpc'["A"] = rpc["A"] /\ log'["A"] = log["A"]
  <2>1. Stepped("B", g) /\ None("disc", air["A"]) /\ None("sabm", air["A"])
    BY <1>6, <1>8
  <2> QED
    BY <1>1, <1>8, <2>1, SteppedAir
<1>11. Lone(air'["B"]) /\ Alone(air'["A"], air'["B"])
  <2>1. Onto(air'["A"], <<>>, g.out)
    BY <1>1, <1>6 DEF Stepped, Airs
  <2>2. Len(<<>>) = 0 /\ Len(g.out) = 1
    OBVIOUS
  <2>3. ASSUME NEW i \in 1 .. Len(air'["A"]) PROVE i = 1
    <3>1. i - 0 \in 1 .. Len(g.out)
      BY <2>1, <2>2, OntoAt
    <3> QED
      BY <2>2, <3>1
  <2>4. Alone(air'["A"], air'["B"])
    BY <1>7, <2>3 DEF Alone
  <2>5. Lone(<<>>)
    BY DEF Lone
  <2> QED
    BY <1>7, <2>4, <2>5
<1>12. Versions'
  BY <1>1, <1>2, <1>10 DEF Setup, Versions
<1>13. Hushed'
  BY <1>6, <1>10 DEF Hushed
<1>14. Calls'
  BY <1>2, <1>6, <1>7, <1>10, <1>11 DEF Calls
<1>15. Tidy'
  <2>1. ~can_receive_data(con'["A"])
    BY <1>5, <1>10 DEF can_receive_data, ReceivingStates
  <2>2. None("ua", air'["B"])
    BY <1>7, <1>8
  <2> QED
    BY <1>1, <1>10, <2>1, <2>2 DEF Tidy
<1>16. Sabms'
  BY <1>5, <1>10 DEF Sabms
<1>17. Waits'
  BY <1>2, <1>7, <1>8, <1>9, <1>10 DEF Waits
<1> QED
  BY <1>12, <1>13, <1>14, <1>15, <1>16, <1>17 DEF Setup

\* The UA that A waits for.
LEMMA SetupConnects ==
    ASSUME Setup, TypeOK, NEW g, Stepped("A", g), Risen(g), g.out = <<>>,
           con["A"].st = "AwaitingConnection", rpc'["A"] = rpc["A"],
           air["A"] # <<>>, Head(air["A"]).type = "ua", air'["A"] = Tail(air["A"])
    PROVE  Setup'
<1>1. peer("A") = "B" /\ peer("B") = "A" /\ End = {"A", "B"}
  BY DEF peer, End
<1>2. /\ can_receive_data(con'["A"]) /\ con'["A"].modulus = Modulus
      /\ con'["A"].st # "AwaitingConnection"
  BY DEF Stepped, Risen, Up, can_receive_data, ReceivingStates
<1>3. air["A"] \in Seq(Frame)
  BY <1>1 DEF TypeOK
<1>4. rpc["A"] = "waiting" /\ Alone(air["A"], air["B"])
  BY DEF Setup, Calls
<1>5. None("ua", air'["A"]) /\ air["B"] = <<>>
  BY <1>3, <1>4, LoneTail
<1>6. \A t : None(t, <<>>)
  BY DEF None
<1>7. /\ air'["B"] = <<>> /\ \A t : None(t, air["A"]) => None(t, air'["A"])
      /\ con'["B"] = con["B"] /\ rpc'["B"] = rpc["B"] /\ log'["B"] = log["B"]
  <2>1. /\ \A t : None(t, air["A"]) => None(t, air'["A"])
        /\ g.out = <<>> /\ air[peer("A")] = <<>> => air'[peer("A")] = <<>>
        /\ con'[peer("A")] = con[peer("A")] /\ rpc'[peer("A")] = rpc[peer("A")]
        /\ log'[peer("A")] = log[peer("A")]
    BY SteppedAir, Zenon
  <2> QED
    BY <1>1, <1>5, <2>1
<1>8. Versions'
  BY <1>1, <1>2, <1>7 DEF Setup, Versions
<1>9. Hushed'
  BY <1>4 DEF Hushed
<1>10. Calls'
  BY <1>2, <1>7 DEF Setup, Calls
<1>11. Tidy'
  BY <1>1, <1>5, <1>6, <1>7 DEF Setup, Tidy
<1>12. Sabms'
  BY <1>6, <1>7 DEF Setup, Sabms
<1>13. Waits'
  BY <1>6, <1>7 DEF Setup, Waits, Unopened
<1> QED
  BY <1>8, <1>9, <1>10, <1>11, <1>12, <1>13 DEF Setup

\* The steps of the RPC threads that leave the air alone.
LEMMA SetupThreads ==
    ASSUME Setup, TypeOK, Accept2_insert \/ \E e \in End : Opened(e) \/ Erased(e)
    PROVE  Setup'
<1>1. peer("A") = "B" /\ peer("B") = "A" /\ End = {"A", "B"}
  BY DEF peer, End
<1>2. ASSUME Accept2_insert PROVE Setup'
  <2>1. /\ rpc["B"] = "init" /\ rpc'["B"] = "waiting" /\ rpc'["A"] = rpc["A"]
        /\ con' = con /\ air' = air /\ log' = log
        /\ Unopened("B") /\ Unopened("B")'
    BY <1>1, <1>2 DEF Accept2_insert, TypeOK, Unopened
  <2> QED
    BY <1>1, <2>1 DEF Setup, Versions, Hushed, Calls, Tidy, Sabms, Waits
<1>3. ASSUME NEW e \in End, Opened(e) PROVE Setup'
  <2>1. /\ rpc[e] = "waiting" /\ rpc'[e] = "open" /\ con[e].st # awaited(e)
        /\ \A x \in End : x # e => rpc'[x] = rpc[x]
        /\ con' = con /\ air' = air /\ log' = log
    BY <1>3 DEF Opened, TypeOK
  <2>2. Versions' /\ Tidy' /\ Sabms'
    BY <2>1 DEF Setup, Versions, Tidy, Sabms
  <2>3. Hushed' /\ Calls' /\ Waits'
    <3>1. CASE e = "A"
      BY <1>1, <2>1, <3>1 DEF Setup, Hushed, Calls, Waits, Unopened, awaited
    <3>2. CASE e = "B"
      BY <1>1, <2>1, <3>2 DEF Setup, Hushed, Calls, Waits, Unopened, awaited
    <3> QED
      BY <1>1, <3>1, <3>2
  <2> QED
    BY <2>2, <2>3 DEF Setup
<1>4. ASSUME NEW e \in End, Erased(e) PROVE Setup'
  <2>1. /\ rpc[e] = "closing" /\ rpc'[e] = "done"
        /\ con'[e].st = "Disconnected" /\ ~can_receive_data(con'[e])
        /\ \A x \in End : x # e => rpc'[x] = rpc[x] /\ con'[x] = con[x]
        /\ air' = air /\ log' = log
    BY <1>4 DEF Erased, TypeOK, NewConnection, can_receive_data, ReceivingStates
  <2>2. Versions' /\ Tidy'
    BY <1>1, <2>1 DEF Setup, Versions, Tidy
  <2>3. Sabms' /\ Hushed' /\ Calls' /\ Waits'
    <3>1. CASE e = "A"
      BY <1>1, <2>1, <3>1 DEF Setup, Hushed, Calls, Waits, Sabms, Unopened
    <3>2. CASE e = "B"
      BY <1>1, <2>1, <3>2 DEF Setup, Hushed, Calls, Waits, Sabms, Unopened
    <3> QED
      BY <1>1, <3>1, <3>2
  <2> QED
    BY <2>2, <2>3 DEF Setup
<1> QED
  BY <1>2, <1>3, <1>4

\* Fewer acknowledgements under way.
LEMMA AcksRest ==
    ASSUME NEW v \in Seq(Frame), NEW b, NEW l, AcksFit(v, b, l),
           NEW v1, v1 = v \/ (v # <<>> /\ v1 = Tail(v))
    PROVE  AcksFit(v1, b, l)
  BY AcksTail

\* An acknowledgement that is lost, and data that are.
LEMMA DirectRests ==
    ASSUME NEW c, NEW on, NEW n, NEW w, NEW v, NEW l, Direct(c, on, n, w, v, l),
           NEW on1, on1 => on
    PROVE  /\ \A v1 : v1 = v \/ (v # <<>> /\ v1 = Tail(v)) => Direct(c, on1, n, w, v1, l)
           /\ \A w1 : w1 = w \/ (w # <<>> /\ w1 = Tail(w)) => Direct(c, on1, n, w1, v, l)
<1>1. /\ n \in Nat /\ l \in Nat /\ w \in Seq(Frame) /\ v \in Seq(Frame)
  BY DEF Direct
<1>2. ASSUME NEW v1, v1 = v \/ (v # <<>> /\ v1 = Tail(v)) PROVE Direct(c, on1, n, w, v1, l)
  <2>1. v1 \in Seq(Frame)
    BY <1>1, <1>2, TailIs
  <2>2. ASSUME on, NEW b \in 0 .. n, Going(c, b, n, w, v, l) PROVE Going(c, b, n, w, v1, l)
    <3>1. AcksFit(v, b, l)
      BY <2>2 DEF Going
    <3>2. AcksFit(v1, b, l)
      BY <1>1, <1>2, <3>1, AcksRest
    <3> QED
      BY <2>2, <3>2 DEF Going
  <2> QED
    BY <2>1, <2>2 DEF Direct
<1>3. ASSUME NEW w1, w1 = w \/ (w # <<>> /\ w1 = Tail(w)) PROVE Direct(c, on1, n, w1, v, l)
  <2>1. Takes(w1, w, l, l)
    BY <1>3 DEF Takes
  <2>2. Onto(v, v, <<>>) /\ Tells(<<>>, l)
    BY <1>1 DEF Onto, Tells
  <2> QED
    BY <2>1, <2>2, GoingHeard
<1> QED
  BY <1>2, <1>3

\* A step in which end e calls nothing keeps both directions.
LEMMA Rests ==
    ASSUME TypeOK, NEW e \in End, Direction(e), Direction(peer(e)), Heeds(e), Heeds(peer(e)),
           submitted' = submitted, log' = log,
           air'[peer(e)] = air[peer(e)],
           air'[e] = air[e] \/ (air[e] # <<>> /\ air'[e] = Tail(air[e])),
           con'[peer(e)] = con[peer(e)], rpc'[peer(e)] = rpc[peer(e)],
           On(e)' => On(e), rpc'[e] # "done" => rpc[e] # "done",
           con'[e] = con[e] \/ (rpc'[e] = "done" /\ ~On(e)')
    PROVE  Direction(e)' /\ Direction(peer(e))' /\ Heeds(e)' /\ Heeds(peer(e))'
<1>1. peer(e) \in End /\ peer(peer(e)) = e
  BY PeerIs
<1>2. Direct(con[e], On(e)', submitted[e], air[peer(e)], air'[e], Len(log[peer(e)]))
  BY DirectRests DEF Direction
<1>3. Direct(con'[e], On(e)', submitted[e], air[peer(e)], air'[e], Len(log[peer(e)]))
  <2>1. CASE con'[e] = con[e]
    BY <1>2, <2>1
  <2>2. CASE ~On(e)'
    BY <1>2, <2>2 DEF Direct
  <2> QED
    BY <2>1, <2>2
<1>4. Direction(e)'
  BY <1>3 DEF Direction
<1>5. On(peer(e))' => On(peer(e))
  BY DEF On, Unopened
<1>6. Direct(con[peer(e)], On(peer(e))', submitted[peer(e)], air'[e], air[peer(e)], Len(log[e]))
  BY <1>1, <1>5, DirectRests DEF Direction
<1>7. Direction(peer(e))'
  BY <1>1, <1>6 DEF Direction
<1>8. Heeds(e)' /\ Heeds(peer(e))'
  BY DEF Heeds
<1> QED
  BY <1>4, <1>7, <1>8

\* An end that says no data and moves no mark.
LEMMA MarksSend ==
    ASSUME TypeOK, NEW e \in End, Direction(e), On(e),
           NEW g, g.va = con[e].va, g.vs = con[e].vs,
           g.iframe_resend_queue = con[e].iframe_resend_queue,
           None("iframe", g.out),
           NEW onair, onair[e] = air[e] \/ (air[e] # <<>> /\ onair[e] = Tail(air[e]))
    PROVE  Sends(e, g, submitted[e], onair)
<1> DEFINE n == submitted[e]
           l == Len(log[peer(e)])
<1>1. peer(e) \in End
  BY PeerIs
<1>2. n \in Nat /\ l \in Nat /\ air[e] \in Seq(Frame)
  BY <1>1 DEF TypeOK
<1>3. PICK b \in 0 .. n : Going(con[e], b, n, air[peer(e)], air[e], l)
  BY DEF Direction, Direct
<1>4. Holds(con[e], b, n, Full(b, n)) /\ b <= l /\ AcksFit(air[e], b, l)
  BY <1>3 DEF Going
<1>5. Holds(g, b, n, Full(b, n))
  BY <1>4, HoldsSame
<1>6. AcksFit(onair[e], b, l)
  BY <1>2, <1>4, AcksRest
<1>7. Bears(g.out, b, Full(b, n))
  BY DEF Bears, None
<1>8. b \in b .. l
  BY <1>2, <1>4
<1> QED
  BY <1>3, <1>5, <1>6, <1>7, <1>8 DEF Sends

\* Nothing is heard by an end that takes at most a frame and makes nothing of it.
LEMMA NothingHeard ==
    ASSUME TypeOK, NEW e \in End, NEW g, g.up = <<>>, g.vr = con[e].vr,
           Tells(g.out, Len(log[e])),
           NEW onair, onair[e] = air[e] \/ (air[e] # <<>> /\ onair[e] = Tail(air[e]))
    PROVE  Hears(e, g, onair)
<1>1. Len(g.up) = 0 /\ Len(log[e]) \in Nat
  BY DEF TypeOK
<1> QED
  BY <1>1 DEF Hears

------------------------------------------------------------------------------
(* The inductive invariant, and what a call leaves of it.                  *)

\* An application submits what it may, on a link that its RPC has opened.
Threads ==
    \A e \in End : /\ rpc[e] \in {"init", "waiting"} => submitted[e] = 0
                   /\ reader[e] => rpc[e] \in {"open", "closing"}
                   /\ submitted[e] <= MaxData(e)

\* Between two calls nothing is left to be said or delivered.
Quiet == \A e \in End : con[e].out = <<>> /\ con[e].up = <<>>

\* Both directions agree, and both ends heard in order.
Directions == \A e \in End : Direction(e) /\ Heeds(e)

\* The inductive invariant of a link with a patient T1.
PInv == IInv /\ Directions /\ Setup /\ Threads /\ Quiet

\* No step of the daemons submits on a link that is not open.
LEMMA ThreadsKeep ==
    ASSUME TypeOK, Threads, [Next]_vars
    PROVE  Threads'
<1>0. /\ \A e \in End : rpc[e] \in RpcStates /\ reader[e] \in BOOLEAN /\ submitted[e] \in Nat
      /\ \A e \in End : MaxData(e) \in Nat
  BY LinkBoundAssumption DEF TypeOK, MaxData
<1>1. CASE Connect2_dl_connect
  BY <1>1 DEF Connect2_dl_connect, Threads, TypeOK, End
<1>2. CASE Accept2_insert
  BY <1>2 DEF Accept2_insert, Threads, TypeOK, End
<1>3. ASSUME NEW e \in End, Opened(e) PROVE Threads'
  BY <1>3 DEF Opened, Threads, TypeOK
<1>4. ASSUME NEW e \in End, dl_data(e) PROVE Threads'
  <2>1. /\ rpc' = rpc /\ reader' = reader /\ rpc[e] = "open" /\ submitted[e] < MaxData(e)
        /\ submitted' = [submitted EXCEPT ![e] = @ + 1]
    BY <1>4 DEF dl_data
  <2>2. submitted'[e] = submitted[e] + 1 /\ \A x \in End : x # e => submitted'[x] = submitted[x]
    BY <2>1 DEF TypeOK
  <2>3. submitted'[e] <= MaxData(e)
    BY <1>0, <2>1, <2>2
  <2> QED
    BY <2>1, <2>2, <2>3 DEF Threads
<1>5. ASSUME NEW e \in End, dl_disconnect(e) PROVE Threads'
  BY <1>5 DEF dl_disconnect, Threads, TypeOK
<1>6. ASSUME NEW e \in End, Erased(e) PROVE Threads'
  BY <1>6 DEF Erased, Threads, TypeOK
<1>7. ASSUME NEW e \in End, await_data(e) PROVE Threads'
  BY <1>7 DEF await_data, Threads
<1>8. ASSUME NEW e \in End, reader_stops(e) PROVE Threads'
  BY <1>8 DEF reader_stops, Threads, TypeOK
<1>9. ASSUME NEW e \in End, Receive(e) PROVE Threads'
  BY <1>9 DEF Receive, Threads
<1>10. ASSUME NEW e \in End, Lose(e) PROVE Threads'
  BY <1>10 DEF Lose, Threads
<1>11. ASSUME NEW e \in End, timer1(e) PROVE Threads'
  BY <1>11 DEF timer1, Threads
<1>12. ASSUME NEW e \in End, timer3(e) PROVE Threads'
  BY <1>12 DEF timer3, Threads
<1>13. CASE UNCHANGED vars
  BY <1>13 DEF vars, Threads
<1> QED
  BY <1>1, <1>2, <1>3, <1>4, <1>5, <1>6, <1>7, <1>8, <1>9, <1>10, <1>11, <1>12, <1>13 DEF Next

\* What a call at e leaves besides the set-up: the directions, and nothing to say.
LEMMA CallMoves ==
    ASSUME PInv, NEW e \in End, rpc[e] # "done",
           NEW g, Good(g), NEW onair \in [End -> Seq(Frame)], Apply(e, g, onair),
           onair[peer(e)] = air[peer(e)],
           NEW m \in Nat, submitted[e] <= m, submitted' = [submitted EXCEPT ![e] = m],
           rpc'[peer(e)] = rpc[peer(e)],
           Sends(e, g, m, onair) \/ (~On(e)' /\ None("iframe", g.out)),
           Hears(e, g, onair)
    PROVE  Directions' /\ Quiet' /\ Stepped(e, g)
<1>1. /\ TypeOK /\ Direction(e) /\ Direction(peer(e)) /\ Heeds(e) /\ Heeds(peer(e))
      /\ peer(e) \in End /\ \A x \in End : x = e \/ x = peer(e)
  BY PeerIs DEF PInv, IInv, Directions
<1>2. Direction(e)' /\ Direction(peer(e))' /\ Heeds(e)' /\ Heeds(peer(e))'
  BY <1>1, Moves
<1>3. Directions'
  <2>1. ASSUME NEW x \in End PROVE Direction(x)' /\ Heeds(x)'
    <3>1. CASE x = e
      BY <1>2, <3>1
    <3>2. CASE x = peer(e)
      BY <1>2, <3>2
    <3> QED
      BY <1>1, <3>1, <3>2
  <2> QED
    BY <2>1 DEF Directions
<1>4. Quiet'
  <2>1. con' = [con EXCEPT ![e] = start(g)]
    BY DEF Apply
  <2>2. start(g).out = <<>> /\ start(g).up = <<>>
    BY StartStill DEF Still
  <2> QED
    BY <1>1, <2>1, <2>2 DEF PInv, Quiet, TypeOK
<1>5. Stepped(e, g)
  <2>1. onair[e] = air[e] \/ (air[e] # <<>> /\ onair[e] = Tail(air[e]))
    BY DEF Hears
  <2> QED
    BY <1>1, <2>1, ApplyStepped
<1> QED
  BY <1>3, <1>4, <1>5

\* The RPC of end e is over, or its link is down with nobody to set it up again.
Over(e) == rpc[e] \in {"closing", "done"}
           \/ (rpc[e] = "open" /\ con[e].st = "Disconnected")

\* A step at end e alone: a datum more submitted, a datum more heard, or neither and
\* perhaps the end of its link.
Onward(e) ==
    /\ Over(peer(e))' <=> Over(peer(e))
    /\ log'[peer(e)] = log[peer(e)]
    /\ \/ submitted' = submitted /\ log'[e] = log[e] /\ (Over(e) => Over(e)')
       \/ /\ submitted' = [submitted EXCEPT ![e] = @ + 1] /\ log'[e] = log[e]
          /\ Over(e)' <=> Over(e)
       \/ /\ submitted' = submitted /\ Len(log'[e]) = Len(log[e]) + 1
          /\ Over(e)' <=> Over(e)

\* What a step leaves.
Left == Directions' /\ Quiet' /\ Setup' /\ \E e \in End : Onward(e)

\* What a call at e does to the peer, and to the log.
LEMMA SteppedOnward ==
    ASSUME PInv, NEW e \in End, NEW g, Good(g), Stepped(e, g)
    PROVE  /\ Over(peer(e))' <=> Over(peer(e))
           /\ log'[peer(e)] = log[peer(e)]
           /\ g.up = <<>> => log'[e] = log[e]
           /\ Len(g.up) = 1 => Len(log'[e]) = Len(log[e]) + 1
           /\ con'[e].st = g.st
<1>1. log[e] \in Seq(Payload) /\ g.up \in Seq(Payload)
  BY DEF PInv, IInv, TypeOK, Good, ConnectionType
<1>2. log'[e] = log[e] \o g.up /\ con'[e].st = g.st /\ log'[peer(e)] = log[peer(e)]
  BY DEF Stepped
<1>3. Len(log[e] \o g.up) = Len(log[e]) + Len(g.up)
  BY <1>1
<1>4. log[e] \o <<>> = log[e]
  BY <1>1
<1>5. con'[peer(e)] = con[peer(e)] /\ rpc'[peer(e)] = rpc[peer(e)]
  BY DEF Stepped
<1>6. Over(peer(e))' <=> Over(peer(e))
  BY <1>5 DEF Over
<1> QED
  BY <1>2, <1>3, <1>4, <1>6

\* A call that hears nothing, at an end whose link is not revived by it.
LEMMA OnwardOver ==
    ASSUME PInv, NEW e \in End, NEW g, Good(g), Stepped(e, g), g.up = <<>>,
           submitted' = submitted, Over(e) => Over(e)'
    PROVE  Onward(e)
  BY SteppedOnward DEF Onward

\* The call of an end e that is up, and stays up, having learnt that up to q of its
\* data were heard.
LEMMA ServesKeeps ==
    ASSUME PInv, NEW e \in End, ~Unopened(e), rpc[e] # "done", Up(con[e]), rpc' = rpc,
           NEW g, Good(g), NEW onair \in [End -> Seq(Frame)], Apply(e, g, onair),
           onair[peer(e)] = air[peer(e)],
           NEW m \in Nat, m = submitted[e] \/ (m = submitted[e] + 1 /\ g.up = <<>>),
           submitted' = [submitted EXCEPT ![e] = m],
           NEW b \in 0 .. submitted[e],
           Going(con[e], b, submitted[e], air[peer(e)], air[e], Len(log[peer(e)])),
           NEW q \in b .. Len(log[peer(e)]), Served(g, q, m),
           AcksFit(onair[e], q, Len(log[peer(e)])),
           \/ /\ g.up = <<>> /\ g.vr = con[e].vr
              /\ onair[e] = air[e] \/ (air[e] # <<>> /\ onair[e] = Tail(air[e]))
           \/ /\ air[e] # <<>> /\ onair[e] = Tail(air[e])
              /\ Head(air[e]).type = "iframe" /\ Head(air[e]).ns = con[e].vr
              /\ g.up = <<Head(air[e]).payload>> /\ g.vr = (con[e].vr + 1) % Modulus
    PROVE  Left
<1> DEFINE k == Len(log[e])
           x == Full(q, m)
<1>1. TypeOK /\ Heeds(e) /\ Setup /\ k \in Nat
  BY SMTT(30) DEF PInv, IInv, Directions, TypeOK
<1>2. Up(g) /\ Holds(g, q, m, x) /\ Speaks(g.out, g.vr, q, x)
  BY DEF Served
<1>3. con[e].vr = k % Modulus
  BY DEF PInv, Directions, Heeds
<1>4. g.vr = (k + Len(g.up)) % Modulus
  <2>1. CASE g.up = <<>> /\ g.vr = con[e].vr
    <3>1. Len(g.up) = 0 /\ k + 0 = k
      BY <1>1, <2>1
    <3> HIDE DEF k
    <3> QED
      BY <1>3, <2>1, <3>1
  <2>2. CASE g.up = <<Head(air[e]).payload>> /\ g.vr = (con[e].vr + 1) % Modulus
    <3>1. Len(g.up) = 1
      BY <2>2
    <3>2. k \in Int /\ 1 \in Int /\ Modulus \in Nat \ {0}
      BY <1>1
    <3> HIDE DEF k
    <3>3. ((k % Modulus) + 1) % Modulus = (k + 1) % Modulus
      BY <3>2, PlaceSum, Zenon
    <3> QED
      BY <1>3, <2>2, <3>1, <3>3
  <2> QED
    BY <2>1, <2>2
<1>5. Bears(g.out, q, x) /\ Tells(g.out, k + Len(g.up))
  <2> HIDE DEF x, k
  <2> QED
    BY <1>2, <1>4, SpeaksBoth
<1>6. Hears(e, g, onair)
  BY <1>5 DEF Hears
<1>7. Sends(e, g, m, onair)
  BY <1>2, <1>5 DEF Sends
<1>8. Directions' /\ Quiet' /\ Stepped(e, g)
  <2>1. submitted[e] <= m
    BY <1>1, SMTT(30) DEF TypeOK
  <2> QED
    BY <1>6, <1>7, <2>1, CallMoves
<1>9. \A i \in 1 .. Len(g.out) : g.out[i].type \in {"rr", "rej", "iframe"}
  BY <1>2 DEF Speaks
<1>10. Setup'
  BY <1>1, <1>2, <1>8, <1>9, SetupServes
<1>11. Onward(e)
  <2>1. /\ Over(peer(e))' <=> Over(peer(e))
        /\ log'[peer(e)] = log[peer(e)]
        /\ g.up = <<>> => log'[e] = log[e]
        /\ Len(g.up) = 1 => Len(log'[e]) = Len(log[e]) + 1
        /\ con'[e].st = g.st
    BY <1>8, SteppedOnward
  <2>2. Over(e)' <=> Over(e)
    BY <1>2, <2>1 DEF Over, Up, can_receive_data, ReceivingStates
  <2>3. g.up = <<>> \/ Len(g.up) = 1
    <3>1. \A d : Len(<<d>>) = 1
      OBVIOUS
    <3> QED
      BY <3>1
  <2>4. submitted' = submitted \/ (submitted' = [submitted EXCEPT ![e] = @ + 1] /\ g.up = <<>>)
    BY <1>1 DEF TypeOK
  <2> QED
    BY <2>1, <2>2, <2>3, <2>4 DEF Onward
<1> QED
  BY <1>8, <1>10, <1>11 DEF Left

\* Of a call of end e that ends its connection: g is what the call leaves, f the
\* frame it may send, and onair the air after the frame it heard, if any, is taken.
Ending(e, g, onair, f) ==
    /\ Good(g) /\ onair \in [End -> Seq(Frame)] /\ Apply(e, g, onair)
    /\ onair[peer(e)] = air[peer(e)]
    /\ onair[e] = air[e] \/ (air[e] # <<>> /\ onair[e] = Tail(air[e]))
    /\ f.type \in {"ua", "dm", "disc"} /\ Ended(g, con[e], f)
    /\ On(peer(e)) => f.type # "ua"

\* The call that ends a link, or answers that there is none.
LEMMA EndsKeeps ==
    ASSUME PInv, NEW e \in End, ~Unopened(e), ~Unopened(e)', rpc[e] # "done",
           rpc'[peer(e)] = rpc[peer(e)], submitted' = submitted,
           rpc'[e] = rpc[e] \/ rpc'[e] = "closing",
           e = "A" => None("sabm", air["B"]),
           NEW g, NEW onair, NEW f, Ending(e, g, onair, f)
    PROVE  Left
<1>0. /\ Good(g) /\ onair \in [End -> Seq(Frame)] /\ Apply(e, g, onair)
      /\ onair[peer(e)] = air[peer(e)]
      /\ onair[e] = air[e] \/ (air[e] # <<>> /\ onair[e] = Tail(air[e]))
      /\ f.type \in {"ua", "dm", "disc"} /\ Ended(g, con[e], f)
      /\ On(peer(e)) => f.type # "ua"
  BY DEF Ending
<1>1. /\ ~can_receive_data(g) /\ g.st # "AwaitingConnection" /\ g.up = <<>> /\ g.vr = con[e].vr
      /\ g.out = <<>> \/ g.out = <<f>>
  BY <1>0 DEF Ended
<1>2. TypeOK /\ Setup /\ submitted[e] \in Nat
  BY DEF PInv, IInv, TypeOK
<1>3. \A i \in 1 .. Len(g.out) : g.out[i] = f
  <2>1. CASE g.out = <<>>
    BY <2>1
  <2>2. CASE g.out = <<f>>
    BY <2>2
  <2> QED
    BY <1>1, <2>1, <2>2
<1>4. None("iframe", g.out) /\ None("sabm", g.out) /\ (On(peer(e)) => None("ua", g.out))
  BY <1>0, <1>3 DEF None
<1>5. Tells(g.out, Len(log[e]))
  BY <1>0, <1>3 DEF Tells, Acks
<1>6. Hears(e, g, onair)
  BY <1>0, <1>1, <1>2, <1>5, NothingHeard
<1>7. ~On(e)'
  <2>1. con'[e] = start(g)
    BY <1>0, <1>2 DEF Apply, TypeOK
  <2>2. con'[e].st = g.st
    BY <1>0, <2>1, StartStill DEF Still
  <2> QED
    BY <1>1, <2>2 DEF On, can_receive_data
<1>8. submitted' = [submitted EXCEPT ![e] = submitted[e]] /\ submitted[e] <= submitted[e]
  BY <1>2 DEF TypeOK
<1>9. Directions' /\ Quiet' /\ Stepped(e, g)
  BY <1>0, <1>2, <1>4, <1>6, <1>7, <1>8, CallMoves
<1>10. Setup'
  BY <1>0, <1>1, <1>2, <1>4, <1>9, SetupEnds
<1>11. Onward(e)
  <2>1. con'[e].st = g.st
    BY <1>9 DEF Stepped
  <2>2. con[e].st = "Disconnected" => g.st = "Disconnected"
    BY <1>0 DEF Ended
  <2>3. Over(e) => Over(e)'
    BY <2>1, <2>2 DEF Over
  <2> QED
    BY <1>0, <1>1, <1>9, <2>3, OnwardOver
<1> QED
  BY <1>9, <1>10, <1>11 DEF Left

\* The call that changes nothing that counts.
LEMMA StillKeeps ==
    ASSUME PInv, NEW e \in End, rpc[e] # "done",
           rpc'[peer(e)] = rpc[peer(e)], submitted' = submitted,
           rpc'[e] = rpc[e] \/ (rpc[e] = "open" /\ rpc'[e] = "closing"),
           NEW g, Good(g), NEW onair \in [End -> Seq(Frame)], Apply(e, g, onair),
           onair[peer(e)] = air[peer(e)],
           onair[e] = air[e] \/ (air[e] # <<>> /\ onair[e] = Tail(air[e])),
           Still(con[e], g)
    PROVE  Left
<1>1. TypeOK /\ Setup /\ submitted[e] \in Nat /\ log[e] \in Seq(Payload) /\ Direction(e)
  BY DEF PInv, IInv, TypeOK, Directions
<1>2. /\ g.out = <<>> /\ g.up = <<>> /\ g.vr = con[e].vr /\ g.va = con[e].va /\ g.vs = con[e].vs
      /\ g.iframe_resend_queue = con[e].iframe_resend_queue /\ g.st = con[e].st
  BY DEF Still
<1>3. None("iframe", g.out) /\ Tells(g.out, Len(log[e]))
  BY <1>2 DEF None, Tells
<1>4. Hears(e, g, onair)
  BY <1>1, <1>2, <1>3, NothingHeard
<1>5. On(e)' => On(e)
  <2>1. con'[e] = start(g)
    BY <1>1 DEF Apply, TypeOK
  <2>2. con'[e].st = con[e].st
    BY <1>2, <2>1, StartStill DEF Still
  <2>3. Unopened(e)' => Unopened(e)
    BY DEF Unopened
  <2> QED
    BY <2>2, <2>3 DEF On, can_receive_data
<1>6. Sends(e, g, submitted[e], onair) \/ (~On(e)' /\ None("iframe", g.out))
  BY <1>1, <1>2, <1>3, <1>5, MarksSend
<1>7. submitted' = [submitted EXCEPT ![e] = submitted[e]] /\ submitted[e] <= submitted[e]
  BY <1>1 DEF TypeOK
<1>8. Directions' /\ Quiet' /\ Stepped(e, g)
  BY <1>1, <1>4, <1>6, <1>7, CallMoves
<1>9. Setup'
  BY <1>1, <1>8, SetupStill
<1>10. Onward(e)
  <2>1. con'[e].st = con[e].st
    BY <1>2, <1>8 DEF Stepped
  <2>2. Over(e) => Over(e)'
    BY <2>1 DEF Over
  <2> QED
    BY <1>2, <1>8, <2>2, OnwardOver
<1> QED
  BY <1>8, <1>9, <1>10 DEF Left

\* A step that calls nothing and tells nobody.
LEMMA LeftAlone ==
    ASSUME PInv, NEW e \in End, con' = con, rpc' = rpc, submitted' = submitted, log' = log,
           air'[peer(e)] = air[peer(e)],
           air'[e] = air[e] \/ (air[e] # <<>> /\ air'[e] = Tail(air[e]))
    PROVE  Left
<1>1. TypeOK /\ Setup /\ log[e] \in Seq(Payload) /\ Quiet
      /\ peer(e) \in End /\ \A x \in End : x = e \/ x = peer(e)
  BY PeerIs DEF PInv, IInv, TypeOK
<1>2. Direction(e)' /\ Direction(peer(e))' /\ Heeds(e)' /\ Heeds(peer(e))'
  <2>1. Direction(e) /\ Direction(peer(e)) /\ Heeds(e) /\ Heeds(peer(e))
    BY <1>1 DEF PInv, Directions
  <2>2. On(e)' => On(e)
    BY DEF On, Unopened
  <2> QED
    BY <1>1, <2>1, <2>2, Rests
<1>3. Directions'
  <2>1. ASSUME NEW x \in End PROVE Direction(x)' /\ Heeds(x)'
    <3>1. CASE x = e
      BY <1>2, <3>1
    <3>2. CASE x = peer(e)
      BY <1>2, <3>2
    <3> QED
      BY <1>1, <3>1, <3>2
  <2> QED
    BY <2>1 DEF Directions
<1>4. Quiet'
  BY <1>1 DEF Quiet
<1>5. con[e].out = <<>> /\ con[e].up = <<>>
  BY <1>1 DEF Quiet
<1>6. Still(con[e], con[e])
  BY <1>5 DEF Still
<1>7. Stepped(e, con[e])
  <2>1. air[e] \in Seq(Frame) /\ air[peer(e)] \in Seq(Frame) /\ <<>> \in Seq(Frame)
    BY <1>1 DEF TypeOK
  <2>2. Onto(air[peer(e)], air[peer(e)], <<>>)
    BY <2>1 DEF Onto
  <2>3. Airs(air'[peer(e)], air[peer(e)], air'[e], air[e], <<>>)
    BY <2>1, <2>2 DEF Airs
  <2>4. log[e] \o <<>> = log[e]
    BY <1>1
  <2> QED
    BY <1>5, <2>3, <2>4 DEF Stepped
<1>8. Setup'
  BY <1>1, <1>6, <1>7, SetupStill
<1>9. Onward(e)
  BY DEF Onward, Over
<1> QED
  BY <1>3, <1>4, <1>8, <1>9 DEF Left

\* The SABM that A sends when nothing is under way.
LEMMA CallsKeep ==
    ASSUME PInv, On("A"), rpc["A"] \in {"init", "waiting"}, rpc'["A"] = "waiting", rpc'["B"] = rpc["B"],
           submitted' = submitted, air["A"] = <<>>, air["B"] = <<>>, log["A"] = <<>>,
           NEW g, Good(g), Apply("A", g, air), Calling(con["A"], g)
    PROVE  Left
<1>1. "A" \in End /\ peer("A") = "B"
  BY DEF End, peer
<1>2. /\ TypeOK /\ Setup /\ submitted["A"] \in Nat /\ Direction("A") /\ air \in [End -> Seq(Frame)]
  BY <1>1 DEF PInv, IInv, TypeOK, Directions
<1>3. /\ g.out = <<Sabm(TRUE)>> /\ g.up = <<>> /\ g.vr = con["A"].vr
      /\ g.va = con["A"].va /\ g.vs = con["A"].vs
      /\ g.iframe_resend_queue = con["A"].iframe_resend_queue
  BY DEF Calling
<1>4. None("iframe", g.out) /\ Tells(g.out, Len(log["A"]))
  BY <1>3 DEF None, Tells, Acks, Sabm
<1>5. Hears("A", g, air)
  BY <1>1, <1>2, <1>3, <1>4, NothingHeard
<1>6. Sends("A", g, submitted["A"], air)
  BY <1>1, <1>2, <1>3, <1>4, MarksSend
<1>7. submitted' = [submitted EXCEPT !["A"] = submitted["A"]] /\ submitted["A"] <= submitted["A"]
  BY <1>2 DEF TypeOK
<1>8. Directions' /\ Quiet' /\ Stepped("A", g)
  BY <1>1, <1>2, <1>5, <1>6, <1>7, CallMoves
<1>9. Setup'
  BY <1>2, <1>8, SetupCalls
<1>10. Onward("A")
  <2>1. ~Over("A")
    BY DEF Over
  <2> QED
    BY <1>1, <1>3, <1>8, <2>1, OnwardOver
<1> QED
  BY <1>1, <1>8, <1>9, <1>10 DEF Left

\* What is known of an end on whose link nothing was submitted and nothing heard.
LEMMA EmptyLink ==
    ASSUME PInv, NEW e \in End, On(e), submitted[e] = 0, log[e] = <<>>, rpc[e] # "done"
    PROVE  /\ Len(log[peer(e)]) = 0
           /\ Going(con[e], 0, 0, air[peer(e)], air[e], 0)
           /\ Holds(con[e], 0, 0, 0) /\ con[e].vr = 0 /\ Full(0, 0) = 0
<1> DEFINE l == Len(log[peer(e)])
<1>1. Direct(con[e], On(e), submitted[e], air[peer(e)], air[e], l) /\ Heeds(e)
  BY DEF PInv, Directions, Direction
<1>2. l \in Nat /\ l <= 0
  BY <1>1 DEF Direct
<1>3. l = 0
  BY <1>2
<1>4. \E b \in 0 .. 0 : Going(con[e], b, 0, air[peer(e)], air[e], l)
  BY <1>1 DEF Direct
<1>5. Going(con[e], 0, 0, air[peer(e)], air[e], 0)
  BY <1>3, <1>4
<1>6. Full(0, 0) = 0
  BY DEF Full
<1>7. con[e].vr = 0 % Modulus
  <2>1. Len(log[e]) = 0
    OBVIOUS
  <2> QED
    BY <1>1, <2>1 DEF Heeds
<1>8. 0 % Modulus = 0
  BY ModPlain
<1> QED
  BY <1>3, <1>5, <1>6, <1>7, <1>8 DEF Going

\* A link that comes up with nothing submitted or heard.
LEMMA RisenMoves ==
    ASSUME PInv, NEW e \in End, On(e), submitted[e] = 0, log[e] = <<>>, rpc[e] # "done",
           rpc' = rpc, submitted' = submitted,
           NEW g, Good(g), Risen(g), g.out = <<>> \/ \E pf : g.out = <<Ua(pf)>>,
           NEW onair \in [End -> Seq(Frame)], Apply(e, g, onair),
           onair[peer(e)] = air[peer(e)],
           onair[e] = air[e] \/ (air[e] # <<>> /\ onair[e] = Tail(air[e]))
    PROVE  Directions' /\ Quiet' /\ Stepped(e, g)
<1>1. TypeOK /\ air[e] \in Seq(Frame)
  BY DEF PInv, IInv, TypeOK
<1>2. /\ Len(log[peer(e)]) = 0 /\ Going(con[e], 0, 0, air[peer(e)], air[e], 0)
      /\ con[e].vr = 0 /\ Full(0, 0) = 0
  BY EmptyLink
<1>3. Holds(g, 0, 0, 0) /\ g.up = <<>> /\ g.vr = 0
  BY DEF Risen
<1>4. \A i \in 1 .. Len(g.out) : g.out[i].type = "ua"
  <2>1. CASE g.out = <<>>
    BY <2>1
  <2>2. CASE \E pf : g.out = <<Ua(pf)>>
    BY <2>2 DEF Ua
  <2> QED
    BY <2>1, <2>2
<1>5. Tells(g.out, Len(log[e])) /\ Bears(g.out, 0, 0)
  BY <1>4 DEF Tells, Bears, Acks
<1>6. Hears(e, g, onair)
  BY <1>1, <1>2, <1>3, <1>5, NothingHeard
<1>7. AcksFit(onair[e], 0, 0)
  BY <1>1, <1>2, AcksRest DEF Going
<1>8. Sends(e, g, 0, onair)
  <2>1. 0 \in 0 .. submitted[e] /\ 0 \in 0 .. Len(log[peer(e)])
    BY <1>2
  <2> QED
    BY <1>2, <1>3, <1>5, <1>7, <2>1 DEF Sends
<1>9. submitted' = [submitted EXCEPT ![e] = 0] /\ submitted[e] <= 0 /\ 0 \in Nat
  BY <1>1 DEF TypeOK
<1> QED
  BY <1>6, <1>8, <1>9, CallMoves

------------------------------------------------------------------------------
(* The actions, one by one.                                                *)

\* T1 outlasts a round trip, and no datum is longer than an I frame may be.
Calm == Patient /\ \A e \in End : \A d \in 1 .. MaxData(e) : d \notin Oversized

\* What PInv says of one end.
LEMMA EndIs ==
    ASSUME PInv, NEW e \in End
    PROVE  /\ TypeOK /\ Good(con[e]) /\ (Unopened(e) => Fresh(con[e])) /\ Setup
           /\ con[e].out = <<>> /\ con[e].up = <<>>
           /\ can_receive_data(con[e]) => Up(con[e]) /\ On(e)
           /\ peer(e) \in End /\ peer(peer(e)) = e
           /\ air \in [End -> Seq(Frame)] /\ air[e] \in Seq(Frame)
           /\ con[e].st = "AwaitingConnection" =>
                 /\ e = "A" /\ rpc[e] = "waiting" /\ con[e].modulus = Modulus
                 /\ log[e] = <<>> /\ submitted[e] = 0 /\ On(e)
           /\ Unopened("B") => submitted["B"] = 0 /\ log["B"] = <<>>
           /\ On(e) => \E b \in 0 .. submitted[e] :
                 /\ Going(con[e], b, submitted[e], air[peer(e)], air[e], Len(log[peer(e)]))
                 /\ Holds(con[e], b, submitted[e], Full(b, submitted[e]))
                 /\ AcksFit(air[e], b, Len(log[peer(e)]))
                 /\ b \in b .. Len(log[peer(e)])
                 /\ b \in Nat /\ submitted[e] \in Nat /\ Len(log[peer(e)]) \in Nat
                 /\ Len(log[peer(e)]) <= Full(b, submitted[e])
<1>1. TypeOK /\ Good(con[e]) /\ (Unopened(e) => Fresh(con[e])) /\ Setup /\ Direction(e)
  BY DEF PInv, IInv, Directions
<1>2. con[e].out = <<>> /\ con[e].up = <<>>
  BY DEF PInv, Quiet
<1>3. can_receive_data(con[e]) => Up(con[e]) /\ On(e)
  BY <1>1 DEF Setup, Versions, Up, On
<1>4. peer(e) \in End /\ peer(peer(e)) = e
  BY PeerIs
<1>5. air \in [End -> Seq(Frame)] /\ air[e] \in Seq(Frame)
  BY <1>1 DEF TypeOK
<1>6. con[e].st = "AwaitingConnection" =>
                 /\ e = "A" /\ rpc[e] = "waiting" /\ con[e].modulus = Modulus
                 /\ log[e] = <<>> /\ submitted[e] = 0 /\ On(e)
  BY <1>1 DEF Setup, Versions, Calls, PInv, Threads, On, End
<1>7. Unopened("B") => submitted["B"] = 0 /\ log["B"] = <<>>
  BY <1>1 DEF Setup, Waits, PInv, Threads, Unopened, End
<1>8. ASSUME On(e)
      PROVE  \E b \in 0 .. submitted[e] :
                 /\ Going(con[e], b, submitted[e], air[peer(e)], air[e], Len(log[peer(e)]))
                 /\ Holds(con[e], b, submitted[e], Full(b, submitted[e]))
                 /\ AcksFit(air[e], b, Len(log[peer(e)]))
                 /\ b \in b .. Len(log[peer(e)])
                 /\ b \in Nat /\ submitted[e] \in Nat /\ Len(log[peer(e)]) \in Nat
                 /\ Len(log[peer(e)]) <= Full(b, submitted[e])
  <2>1. PICK b \in 0 .. submitted[e] :
           Going(con[e], b, submitted[e], air[peer(e)], air[e], Len(log[peer(e)]))
    BY <1>1, <1>8 DEF Direction, Direct
  <2>2. /\ Holds(con[e], b, submitted[e], Full(b, submitted[e]))
        /\ AcksFit(air[e], b, Len(log[peer(e)])) /\ b <= Len(log[peer(e)])
        /\ Len(log[peer(e)]) <= Full(b, submitted[e])
    BY <2>1 DEF Going
  <2>3. submitted[e] \in Nat /\ Len(log[peer(e)]) \in Nat
    BY <1>1 DEF Direction, Direct
  <2>4. b \in Nat /\ b \in b .. Len(log[peer(e)])
    BY <2>2, <2>3
  <2> QED
    BY <2>1, <2>2, <2>3, <2>4
<1> QED
  BY <1>1, <1>2, <1>3, <1>4, <1>5, <1>6, <1>7, <1>8

\* The Connect RPC calls: nothing was under way, so its SABM is alone.
LEMMA KeepsConnect ==
    ASSUME PInv, IInv', Connect2_dl_connect
    PROVE  Left
<1> DEFINE c == con["A"]
           g == con_dl_connect(c)
<1>1. /\ rpc["A"] = "init" /\ rpc' = [rpc EXCEPT !["A"] = "waiting"]
      /\ Apply("A", g, air) /\ submitted' = submitted
  BY DEF Connect2_dl_connect
<1>2. "A" \in End /\ Unopened("A")
  BY <1>1 DEF End, Unopened
<1>3. Good(c) /\ Fresh(c) /\ Setup /\ TypeOK
  BY <1>2, EndIs
<1>4. c.st = "Disconnected" /\ air["A"] = <<>> /\ air["B"] = <<>> /\ log["A"] = <<>>
  BY <1>1, <1>3 DEF Setup, Hushed
<1>5. Calling(c, g)
  BY <1>3, <1>4, ConnectCalls
<1>6. Good(g)
  <2> DEFINE s == start(c)
  <2>1. Good(s) /\ Fresh(s)
    BY <1>3, StartGood
  <2>2. g = maybe_change_state(c, dispatch_dl_connect(s))
    BY DEF con_dl_connect
  <2> HIDE DEF s
  <2>3. Handled(s, dispatch_dl_connect(s))
    BY <2>1, DlConnectHandled
  <2> QED
    BY <2>2, <2>3, CallGood
<1>7. /\ rpc'["A"] = "waiting" /\ rpc'["B"] = rpc["B"] /\ On("A")
      /\ rpc["A"] \in {"init", "waiting"}
  BY <1>1, <1>2, <1>3 DEF TypeOK, On, End
<1> HIDE DEF g
<1> QED
  BY <1>1, <1>4, <1>5, <1>6, <1>7, CallsKeep

\* A datum is queued on a link that is up, and dropped on one that is not.
LEMMA KeepsData ==
    ASSUME PInv, NEW e \in End, dl_data(e)
    PROVE  Left
<1> DEFINE c == con[e]
           n == submitted[e]
           p == n + 1
           g == con_dl_data(c, p)
<1>1. /\ rpc' = rpc /\ rpc[e] = "open" /\ n < MaxData(e)
      /\ submitted' = [submitted EXCEPT ![e] = p] /\ Apply(e, g, air)
  BY DEF dl_data
<1>2. TypeOK /\ Good(c) /\ Setup /\ air \in [End -> Seq(Frame)] /\ n \in Nat
  BY EndIs DEF TypeOK
<1>3. p \in Payload /\ p \in Nat /\ n <= p
  BY <1>1, <1>2, LinkBoundAssumption DEF MaxData
<1>4. ~Unopened(e) /\ rpc[e] # "done" /\ c.st # "AwaitingConnection"
  BY <1>1, EndIs DEF Unopened
<1>5. Good(g)
  <2> DEFINE s == start(c)
  <2>1. Good(s)
    BY <1>2, StartGood
  <2>2. g = maybe_change_state(c, dispatch_dl_data(s, p))
    BY DEF con_dl_data
  <2> HIDE DEF s, p, g, c
  <2>3. Handled(s, dispatch_dl_data(s, p))
    BY <1>3, <2>1, DlDataHandled
  <2> QED
    BY <2>2, <2>3, CallGood
<1>6. CASE can_receive_data(c)
  <2>1. Up(c)
    BY <1>6, EndIs
  <2>2. PICK b \in 0 .. n :
           /\ Going(c, b, n, air[peer(e)], air[e], Len(log[peer(e)]))
           /\ Holds(c, b, n, Full(b, n))
           /\ AcksFit(air[e], b, Len(log[peer(e)]))
           /\ b \in b .. Len(log[peer(e)])
    BY <1>6, EndIs
  <2>3. p = n + 1
    OBVIOUS
  <2> HIDE DEF p
  <2>4. Served(g, b, p) /\ g.vr = c.vr /\ g.up = <<>>
    BY <1>2, <1>3, <2>1, <2>2, <2>3, DataServes
  <2>5. p = n \/ (p = n + 1 /\ g.up = <<>>)
    BY <2>3, <2>4
  <2> HIDE DEF g
  <2> QED
    BY <1>1, <1>2, <1>3, <1>4, <1>5, <2>1, <2>2, <2>4, <2>5, ServesKeeps
<1>7. CASE ~can_receive_data(c)
  <2>1. Still(c, g)
    <3> HIDE DEF p
    <3>2. Good(c) /\ ~can_receive_data(c)
      BY <1>2, <1>7
    <3> HIDE DEF c
    <3>1. \A z : Still(c, con_dl_data(c, z))
      BY <3>2, DownStill
    <3> QED
      BY <3>1
  <2> HIDE DEF g, p
  <2>2. g.out = <<>> /\ g.up = <<>> /\ g.vr = c.vr /\ g.st = c.st
    BY <2>1 DEF Still
  <2>3. Tells(g.out, Len(log[e])) /\ None("iframe", g.out)
    BY <2>2 DEF Tells, None
  <2>4. Hears(e, g, air)
    BY <1>2, <2>2, <2>3, NothingHeard
  <2>5. ~On(e)'
    <3>1. con'[e] = start(g)
      BY <1>1, <1>2 DEF Apply, TypeOK
    <3>2. con'[e].st = c.st
      BY <1>5, <2>2, <3>1, StartStill DEF Still
    <3> QED
      BY <1>1, <1>4, <1>7, <3>2 DEF On, can_receive_data, Unopened
  <2>6. Directions' /\ Quiet' /\ Stepped(e, g)
    BY <1>1, <1>2, <1>3, <1>4, <1>5, <2>3, <2>4, <2>5, CallMoves
  <2>7. Setup'
    <3>1. log[e] \in Seq(Payload)
      BY <1>2 DEF TypeOK
    <3> QED
      BY <1>1, <1>2, <2>1, <2>6, <3>1, SetupStill
  <2>8. Onward(e)
    <3>1. /\ Over(peer(e))' <=> Over(peer(e))
          /\ log'[peer(e)] = log[peer(e)]
          /\ log'[e] = log[e]
          /\ con'[e].st = c.st
      BY <1>5, <2>2, <2>6, SteppedOnward
    <3>2. Over(e)' <=> Over(e)
      BY <1>1, <3>1 DEF Over
    <3>3. submitted' = [submitted EXCEPT ![e] = @ + 1]
      BY <1>1 DEF p
    <3> QED
      BY <3>1, <3>2, <3>3 DEF Onward
  <2> QED
    BY <2>6, <2>7, <2>8 DEF Left
<1> QED
  BY <1>6, <1>7

\* The application closes: a DISC on a link that is up.
LEMMA KeepsDisconnect ==
    ASSUME PInv, NEW e \in End, dl_disconnect(e)
    PROVE  Left
<1> DEFINE c == con[e]
           g == con_dl_disconnect(c)
           f == Disc(TRUE)
<1>1. /\ rpc[e] = "open" /\ rpc' = [rpc EXCEPT ![e] = "closing"]
      /\ submitted' = submitted /\ Apply(e, g, air)
  BY DEF dl_disconnect
<1>2. TypeOK /\ Good(c) /\ Setup /\ air \in [End -> Seq(Frame)] /\ peer(e) \in End /\ peer(e) # e
  BY EndIs, PeerIs
<1>3. rpc'[e] = "closing" /\ rpc'[peer(e)] = rpc[peer(e)]
  BY <1>1, <1>2 DEF TypeOK
<1>4. ~Unopened(e) /\ ~Unopened(e)' /\ rpc[e] # "done" /\ c.st # "AwaitingConnection"
  BY <1>1, <1>3, EndIs DEF Unopened
<1>5. Good(g)
  <2> DEFINE s == start(c)
  <2>1. Good(s)
    BY <1>2, StartGood
  <2>2. g = maybe_change_state(c, dispatch_dl_disconnect(s))
    BY DEF con_dl_disconnect
  <2> HIDE DEF s
  <2>3. Handled(s, dispatch_dl_disconnect(s))
    BY <2>1, DlDisconnectHandled
  <2> QED
    BY <2>2, <2>3, CallGood
<1>6. CASE can_receive_data(c)
  <2>1. Ended(g, c, f)
    BY <1>2, <1>6, DlDisconnectEnds
  <2>2. f.type \in {"ua", "dm", "disc"} /\ f.type # "ua"
    BY DEF Disc
  <2>3. e = "A" => None("sabm", air["B"])
    BY <1>2, <1>4 DEF Setup, Sabms
  <2> HIDE DEF g, f
  <2> QED
    <3>1. PInv /\ e \in End /\ ~Unopened(e) /\ ~Unopened(e)' /\ rpc[e] # "done"
      BY <1>4
    <3>2. rpc'[peer(e)] = rpc[peer(e)] /\ submitted' = submitted
          /\ (rpc'[e] = rpc[e] \/ rpc'[e] = "closing")
      BY <1>1, <1>3
    <3>3. Ending(e, g, air, f)
      BY <1>1, <1>2, <1>5, <2>1, <2>2 DEF Ending
    <3> QED
      BY <2>3, <3>1, <3>2, <3>3, EndsKeeps
<1>7. CASE ~can_receive_data(c)
  <2>1. Still(c, g)
    BY <1>2, <1>7, DownStill
  <2> HIDE DEF g
  <2> QED
    BY <1>1, <1>2, <1>3, <1>4, <1>5, <2>1, StillKeeps
<1> QED
  BY <1>6, <1>7

\* T3 polls the peer, or does nothing that counts.
LEMMA KeepsTimer3 ==
    ASSUME PInv, NEW e \in End, timer3(e)
    PROVE  Left
<1> DEFINE c == con[e]
           g == con_timer3_tick(c)
<1>1. /\ waits(e) /\ rpc' = rpc /\ submitted' = submitted /\ Apply(e, g, air)
  BY DEF timer3
<1>2. Good(c) /\ Setup /\ air \in [End -> Seq(Frame)]
  BY EndIs
<1>3. rpc[e] # "done"
  BY <1>1 DEF waits, PInv, Threads
<1>4. Good(g)
  BY <1>2, Timer3Good
<1>5. can_receive_data(c) => c.modulus = Modulus
  BY <1>2 DEF Setup, Versions
<1>6. Still(c, g)
  <2>1. CASE Up(c)
    <3>1. On(e)
      BY <2>1 DEF On, Up
    <3>2. PICK b \in 0 .. submitted[e] : Holds(c, b, submitted[e], Full(b, submitted[e]))
      BY <3>1, EndIs
    <3> QED
      BY <1>2, <1>5, <3>2, Timer3Still
  <2>2. CASE ~Up(c)
    <3>1. Up(c) => Holds(c, 0, 0, Full(0, 0))
      BY <2>2
    <3> QED
      BY <1>2, <1>5, <3>1, Timer3Still
  <2> QED
    BY <2>1, <2>2
<1>7. air[peer(e)] = air[peer(e)] /\ (air[e] = air[e] \/ (air[e] # <<>> /\ air[e] = Tail(air[e])))
  OBVIOUS
<1> HIDE DEF g
<1> QED
  BY <1>1, <1>2, <1>3, <1>4, <1>6, <1>7, StillKeeps

\* A patient T1 expires when nothing is under way: an enquiry, another SABM, or the
\* end of the link.
LEMMA KeepsTimer1 ==
    ASSUME PInv, Patient, NEW e \in End, timer1(e)
    PROVE  Left
<1> DEFINE c == con[e]
           g == con_timer1_tick(c)
           f == Disc(TRUE)
<1>1. /\ waits(e) /\ c.t1 /\ rpc' = rpc /\ submitted' = submitted /\ Apply(e, g, air)
      /\ \A x \in End : air[x] = <<>>
  BY DEF timer1
<1>2. /\ Good(c) /\ Setup /\ air \in [End -> Seq(Frame)] /\ TypeOK /\ peer(e) \in End
      /\ submitted[e] \in Nat
  BY EndIs DEF TypeOK
<1>3. rpc[e] # "done" /\ ~Unopened(e)
  <2>1. rpc[e] # "done"
    BY <1>1 DEF waits, PInv, Threads
  <2>2. ~Unopened(e)
    BY <1>1, EndIs DEF Fresh
  <2> QED
    BY <2>1, <2>2
<1>4. Good(g)
  BY <1>1, <1>2, Timer1Good
<1>5. air[peer(e)] = air[peer(e)] /\ (air[e] = air[e] \/ (air[e] # <<>> /\ air[e] = Tail(air[e])))
  OBVIOUS
<1>6. f.type \in {"ua", "dm", "disc"} /\ f.type # "ua"
  BY DEF Disc
<1>7. air["A"] = <<>> /\ air["B"] = <<>> /\ None("sabm", air["B"])
  BY <1>1 DEF End, None
<1>8. /\ ~Unopened(e)' /\ rpc'[peer(e)] = rpc[peer(e)]
      /\ submitted' = [submitted EXCEPT ![e] = submitted[e]] /\ submitted[e] <= submitted[e]
  BY <1>1, <1>2, <1>3 DEF Unopened, TypeOK
<1>9. ASSUME Ended(g, c, f) PROVE Left
  <2>1. On(peer(e)) => f.type # "ua"
    BY <1>6
  <2>2. Ending(e, g, air, f)
    BY <1>1, <1>2, <1>4, <1>6, <1>9, <2>1 DEF Ending
  <2>3. submitted' = submitted /\ (rpc'[e] = rpc[e] \/ rpc'[e] = "closing")
    BY <1>1
  <2> HIDE DEF g, f
  <2> QED
    BY <1>3, <1>7, <1>8, <2>2, <2>3, EndsKeeps
<1>10. CASE can_receive_data(c)
  <2>1. Up(c) /\ On(e)
    BY <1>10, EndIs
  <2>2. PICK b \in 0 .. submitted[e] :
           /\ Going(c, b, submitted[e], air[peer(e)], air[e], Len(log[peer(e)]))
           /\ Holds(c, b, submitted[e], Full(b, submitted[e]))
           /\ AcksFit(air[e], b, Len(log[peer(e)]))
           /\ b \in b .. Len(log[peer(e)])
    BY <2>1, EndIs
  <2>3. \/ Served(g, b, submitted[e]) /\ g.vr = c.vr /\ g.up = <<>>
        \/ Ended(g, c, f)
    BY <1>1, <1>2, <2>1, <2>2, Timer1Serves
  <2>4. CASE Served(g, b, submitted[e]) /\ g.vr = c.vr /\ g.up = <<>>
    <3>1. submitted[e] = submitted[e] \/ (submitted[e] = submitted[e] + 1 /\ g.up = <<>>)
      OBVIOUS
    <3> HIDE DEF g
    <3> QED
      BY <1>1, <1>2, <1>3, <1>4, <1>5, <1>8, <2>1, <2>2, <2>4, <3>1, ServesKeeps
  <2> QED
    BY <1>9, <2>3, <2>4
<1>11. CASE c.st = "AwaitingConnection"
  <2>1. e = "A" /\ rpc[e] = "waiting" /\ c.modulus = Modulus /\ log[e] = <<>> /\ On(e)
    BY <1>11, EndIs
  <2>2. Calling(c, g) \/ Ended(g, c, f)
    BY <1>1, <1>2, <1>11, <2>1, Timer1Calls
  <2>3. CASE Calling(c, g)
    <3>1. Calling(con["A"], g) /\ Apply("A", g, air) /\ log["A"] = <<>> /\ On("A")
      BY <1>1, <2>1, <2>3
    <3> HIDE DEF g
    <3>2. rpc["A"] \in {"init", "waiting"} /\ rpc'["A"] = "waiting" /\ rpc'["B"] = rpc["B"]
      BY <1>1, <2>1
    <3> QED
      BY <1>1, <1>4, <1>7, <3>1, <3>2, CallsKeep
  <2> QED
    BY <1>9, <2>2, <2>3
<1>12. CASE ~can_receive_data(c) /\ c.st # "AwaitingConnection"
  <2>1. Still(c, g)
    BY <1>1, <1>2, <1>12, Timer1Still
  <2> HIDE DEF g
  <2> QED
    BY <1>1, <1>2, <1>3, <1>4, <1>5, <2>1, StillKeeps
<1> QED
  BY <1>10, <1>11, <1>12

\* The RPC threads: the wait begins, the wait ends, the entry is erased.
LEMMA KeepsThreads ==
    ASSUME PInv, Accept2_insert \/ \E e \in End : Opened(e) \/ Erased(e)
    PROVE  Left
<1>1. /\ TypeOK /\ Setup /\ Quiet
      /\ \A x \in End : Direction(x) /\ Heeds(x)
  BY DEF PInv, IInv, Directions
<1>2. Setup'
  BY <1>1, SetupThreads
<1>3. ASSUME NEW e \in End,
             submitted' = submitted, log' = log, air' = air,
             con'[peer(e)] = con[peer(e)], rpc'[peer(e)] = rpc[peer(e)],
             On(e)' => On(e), rpc'[e] # "done" => rpc[e] # "done",
             con'[e] = con[e] \/ (rpc'[e] = "done" /\ ~On(e)')
      PROVE  Directions'
  <2>1. peer(e) \in End /\ \A x \in End : x = e \/ x = peer(e)
    BY PeerIs
  <2>2. Direction(e)' /\ Direction(peer(e))' /\ Heeds(e)' /\ Heeds(peer(e))'
    BY <1>1, <1>3, <2>1, Rests
  <2>3. ASSUME NEW x \in End PROVE Direction(x)' /\ Heeds(x)'
    <3>1. CASE x = e
      BY <2>2, <3>1
    <3>2. CASE x = peer(e)
      BY <2>2, <3>2
    <3> QED
      BY <2>1, <3>1, <3>2
  <2> QED
    BY <2>3 DEF Directions
<1>4. CASE Accept2_insert
  <2>1. /\ submitted' = submitted /\ log' = log /\ air' = air /\ con' = con
        /\ rpc["B"] = "init" /\ rpc' = [rpc EXCEPT !["B"] = "waiting"]
    BY <1>4 DEF Accept2_insert
  <2>2. "B" \in End /\ peer("B") = "A"
    BY DEF End, peer
  <2>3. rpc'["B"] = "waiting" /\ rpc'["A"] = rpc["A"]
    BY <1>1, <2>1, <2>2 DEF TypeOK, End
  <2>4. On("B")' => On("B")
    BY <2>1, <2>3 DEF On, Unopened
  <2>5. Directions'
    BY <1>3, <2>1, <2>2, <2>3, <2>4
  <2>6. Quiet'
    BY <1>1, <2>1 DEF Quiet
  <2>7. Onward("B")
    BY <2>1, <2>2, <2>3 DEF Onward, Over
  <2> QED
    BY <1>2, <2>2, <2>5, <2>6, <2>7 DEF Left
<1>5. ASSUME NEW e \in End, Opened(e) PROVE Left
  <2>1. /\ submitted' = submitted /\ log' = log /\ air' = air /\ con' = con
        /\ rpc[e] = "waiting" /\ rpc' = [rpc EXCEPT ![e] = "open"]
    BY <1>5 DEF Opened
  <2>2. peer(e) \in End /\ peer(e) # e
    BY PeerIs
  <2>3. rpc'[e] = "open" /\ rpc'[peer(e)] = rpc[peer(e)]
    BY <1>1, <2>1, <2>2 DEF TypeOK
  <2>4. On(e)' => On(e)
    BY <2>1, <2>3 DEF On, Unopened
  <2>5. Directions'
    BY <1>3, <2>1, <2>3, <2>4
  <2>6. Quiet'
    BY <1>1, <2>1 DEF Quiet
  <2>7. Onward(e)
    BY <2>1, <2>3 DEF Onward, Over
  <2> QED
    BY <1>2, <2>5, <2>6, <2>7 DEF Left
<1>6. ASSUME NEW e \in End, Erased(e) PROVE Left
  <2>1. /\ submitted' = submitted /\ log' = log /\ air' = air
        /\ con' = [con EXCEPT ![e] = NewConnection]
        /\ rpc[e] = "closing" /\ rpc' = [rpc EXCEPT ![e] = "done"]
    BY <1>6 DEF Erased
  <2>2. peer(e) \in End /\ peer(e) # e
    BY PeerIs
  <2>3. /\ rpc'[e] = "done" /\ rpc'[peer(e)] = rpc[peer(e)]
        /\ con'[e] = NewConnection /\ con'[peer(e)] = con[peer(e)]
    BY <1>1, <2>1, <2>2 DEF TypeOK
  <2>4. ~On(e)'
    BY <2>3 DEF On, Unopened, NewConnection, can_receive_data, ReceivingStates
  <2>5. Directions'
    BY <1>3, <2>1, <2>3, <2>4
  <2>6. Quiet'
    <3>1. NewConnection.out = <<>> /\ NewConnection.up = <<>>
      BY DEF NewConnection
    <3> QED
      BY <1>1, <2>1, <3>1 DEF Quiet, TypeOK
  <2>7. Onward(e)
    BY <2>1, <2>3 DEF Onward, Over
  <2> QED
    BY <1>2, <2>5, <2>6, <2>7 DEF Left
<1> QED
  BY <1>4, <1>5, <1>6

\* The SABM finds B in its wait.
LEMMA AcceptsKeep ==
    ASSUME PInv, rpc["B"] = "waiting", rpc' = rpc, submitted' = submitted,
           air["B"] # <<>>, Head(air["B"]).type = "sabm", NEW pf \in BOOLEAN,
           NEW onair \in [End -> Seq(Frame)], onair["B"] = Tail(air["B"]), onair["A"] = air["A"],
           Good(con_sabm(con["B"], pf)), Apply("B", con_sabm(con["B"], pf), onair)
    PROVE  Left
<1> DEFINE c == con["B"]
           g == con_sabm(c, pf)
<1>1. "B" \in End /\ peer("B") = "A" /\ Unopened("B")
  BY DEF End, peer, Unopened
<1>2. Good(c) /\ Fresh(c) /\ Setup /\ TypeOK /\ submitted["B"] = 0 /\ log["B"] = <<>>
  BY <1>1, EndIs
<1>3. c.st \in {"Disconnected", "Connected"} /\ (c.st = "Connected" => c.modulus = Modulus)
  BY <1>1, <1>2 DEF Setup, Waits, Versions, can_receive_data, ReceivingStates
<1>4. Risen(g) /\ g.out = <<Ua(pf)>>
  BY <1>2, <1>3, SabmRises
<1>5. Good(g) /\ Fresh(g) /\ Apply("B", g, onair)
  BY <1>2, SabmGood
<1> HIDE DEF g
<1>6. g.st = "Connected"
  <2>1. can_receive_data(g) /\ ~g.t1 /\ (AwaitsPeer(g) => g.t1)
    BY <1>4, <1>5 DEF Risen, Up, Fresh, Good, Timed
  <2> QED
    BY <2>1 DEF can_receive_data, ReceivingStates, AwaitsPeer
<1>7. On("B") /\ rpc["B"] # "done" /\ rpc'["B"] = "waiting"
  BY <1>1 DEF On
<1>8. \E z : g.out = <<Ua(z)>>
  BY <1>4
<1>9. Directions' /\ Quiet' /\ Stepped("B", g)
  BY <1>1, <1>2, <1>4, <1>5, <1>7, <1>8, RisenMoves
<1>10. air'["B"] = Tail(air["B"])
  BY <1>1, <1>5 DEF Apply, End
<1>11. Setup'
  BY <1>2, <1>4, <1>6, <1>7, <1>9, <1>10, SetupAccepts
<1>12. Onward("B")
  <2>1. ~Over("B") /\ g.up = <<>>
    BY <1>4 DEF Over, Risen
  <2> QED
    BY <1>1, <1>5, <1>9, <2>1, OnwardOver
<1> QED
  BY <1>1, <1>9, <1>11, <1>12 DEF Left

\* The UA finds A waiting for it.
LEMMA ConnectsKeep ==
    ASSUME PInv, con["A"].st = "AwaitingConnection", rpc' = rpc, submitted' = submitted,
           air["A"] # <<>>, Head(air["A"]).type = "ua", NEW pf \in BOOLEAN,
           NEW onair \in [End -> Seq(Frame)], onair["A"] = Tail(air["A"]), onair["B"] = air["B"],
           Good(con_ua(con["A"], pf)), Apply("A", con_ua(con["A"], pf), onair)
    PROVE  Left
<1> DEFINE c == con["A"]
           g == con_ua(c, pf)
<1>1. "A" \in End /\ peer("A") = "B"
  BY DEF End, peer
<1>2. /\ Good(c) /\ Setup /\ TypeOK /\ c.modulus = Modulus
      /\ rpc["A"] = "waiting" /\ submitted["A"] = 0 /\ log["A"] = <<>> /\ On("A")
  BY <1>1, EndIs
<1>3. Holds(c, 0, 0, 0) /\ c.vr = 0
  BY <1>1, <1>2, EmptyLink
<1>4. g.out = <<>> /\ IF pf THEN Risen(g) ELSE g = start(c)
  BY <1>2, <1>3, UaRises
<1>5. Good(g) /\ Apply("A", g, onair)
  OBVIOUS
<1>6. rpc["A"] # "done"
  BY <1>2
<1>7. onair["A"] = air["A"] \/ (air["A"] # <<>> /\ onair["A"] = Tail(air["A"]))
  OBVIOUS
<1>8. CASE pf
  <2>1. Risen(g)
    BY <1>4, <1>8
  <2> HIDE DEF g
  <2>2. Directions' /\ Quiet' /\ Stepped("A", g)
    BY <1>1, <1>2, <1>4, <1>5, <1>6, <1>7, <2>1, RisenMoves
  <2>3. air'["A"] = Tail(air["A"])
    BY <1>1, <1>5 DEF Apply, End
  <2>4. Setup'
    BY <1>2, <1>4, <2>1, <2>2, <2>3, SetupConnects
  <2>5. Onward("A")
    <3>1. ~Over("A") /\ g.up = <<>>
      BY <1>2, <2>1 DEF Over, Risen
    <3> QED
      BY <1>1, <1>5, <2>2, <3>1, OnwardOver
  <2> QED
    BY <1>1, <2>2, <2>4, <2>5 DEF Left
<1>9. CASE ~pf
  <2>1. g = start(c)
    BY <1>4, <1>9
  <2>2. Still(c, g)
    BY <1>2, <2>1, StartStill
  <2> HIDE DEF g
  <2>3. /\ onair[peer("A")] = air[peer("A")] /\ rpc'[peer("A")] = rpc[peer("A")]
        /\ rpc'["A"] = rpc["A"]
    BY <1>1
  <2> QED
    BY <1>1, <1>5, <1>6, <1>7, <2>2, <2>3, StillKeeps
<1> QED
  BY <1>8, <1>9

\* An RR or an I frame reaches an end that is up.
LEMMA AcknowledgedKeeps ==
    ASSUME PInv, Calm, NEW e \in End, ~Unopened(e), rpc[e] # "done", can_receive_data(con[e]),
           rpc' = rpc, submitted' = submitted,
           air[e] # <<>>, NEW f \in Frame, f = Head(air[e]), f.type \in {"rr", "iframe"},
           NEW onair \in [End -> Seq(Frame)], onair[e] = Tail(air[e]),
           onair[peer(e)] = air[peer(e)],
           Good(packet_callback(con[e], f)), Apply(e, packet_callback(con[e], f), onair)
    PROVE  Left
<1> DEFINE c == con[e]
           g == packet_callback(c, f)
           n == submitted[e]
           l == Len(log[peer(e)])
<1>1. Good(c) /\ Up(c) /\ On(e) /\ TypeOK /\ air[e] \in Seq(Frame) /\ peer(e) \in End
      /\ peer(peer(e)) = e
  BY EndIs
<1>2. PICK b \in 0 .. n :
         /\ Going(c, b, n, air[peer(e)], air[e], l)
         /\ Holds(c, b, n, Full(b, n))
         /\ AcksFit(air[e], b, l)
         /\ b \in Nat /\ n \in Nat /\ l \in Nat /\ l <= Full(b, n)
  BY <1>1, EndIs
<1> DEFINE q == Place(b, f.nr)
           x == Full(b, n)
<1>3. q \in b .. l /\ q % Modulus = f.nr /\ AcksFit(Tail(air[e]), q, l)
  <2>1. Acks(Head(air[e])) /\ Head(air[e]).nr = f.nr
    BY DEF Acks
  <2> HIDE DEF l
  <2> QED
    BY <1>1, <1>2, <2>1, AckFirst
<1> HIDE DEF q, x
<1>4. x \in Nat /\ q \in b .. x /\ f.nr = q % Modulus
  <2>1. x \in Nat
    BY <1>2 DEF x, Holds
  <2>2. l \in Nat /\ l <= x
    BY <1>2 DEF x
  <2> HIDE DEF l
  <2> QED
    BY <1>2, <1>3, <2>1, <2>2
<1>5. f.poll \in BOOLEAN /\ Holds(c, b, n, x)
  BY <1>2 DEF Frame, x
<1>6. /\ n = n \/ (n = n + 1 /\ g.up = <<>>)
      /\ n \in Nat /\ submitted' = [submitted EXCEPT ![e] = n]
      /\ AcksFit(onair[e], q, l)
  BY <1>1, <1>2, <1>3 DEF TypeOK
<1>7. CASE f.type = "rr"
  <2>1. g = con_rr(c, f) /\ f.command_response \in BOOLEAN
    BY <1>7 DEF packet_callback, Frame
  <2>2. Served(con_rr(c, f), q, n) /\ con_rr(c, f).vr = c.vr /\ con_rr(c, f).up = <<>>
    <3>1. /\ Good(c) /\ Up(c) /\ Holds(c, b, n, x) /\ q \in b .. x /\ f.nr = q % Modulus
          /\ f.poll \in BOOLEAN /\ f.command_response \in BOOLEAN
      BY <1>1, <1>4, <1>5, <2>1
    <3> HIDE DEF c, n, g
    <3> QED
      BY <3>1, RrServes
  <2>3. Served(g, q, n) /\ g.vr = c.vr /\ g.up = <<>>
    BY <2>1, <2>2
  <2>4. \/ g.up = <<>> /\ g.vr = c.vr
           /\ (onair[e] = air[e] \/ (air[e] # <<>> /\ onair[e] = Tail(air[e])))
    BY <2>3
  <2>5. Good(g) /\ Apply(e, g, onair)
    OBVIOUS
  <2> HIDE DEF g
  <2> QED
    BY <1>1, <1>2, <1>3, <1>6, <2>3, <2>4, <2>5, ServesKeeps
<1>8. CASE f.type = "iframe"
  <2>1. g = con_iframe(c, f) /\ f.command_response = TRUE
    BY <1>8 DEF packet_callback, Frame
  <2>2. f.payload \in Payload \ Oversized
    <3>1. DataFit(air[e], submitted[peer(e)], Len(log[e]))
      BY <1>1 DEF PInv, Directions, Direction, Direct
    <3>2. Head(air[e]) = air[e][1] /\ 1 \in 1 .. Len(air[e])
      BY <1>1, TailIs
    <3>3. f.payload \in 1 .. submitted[peer(e)]
      BY <1>8, <3>1, <3>2 DEF DataFit
    <3>4. submitted[peer(e)] \in Nat /\ submitted[peer(e)] <= MaxData(peer(e))
          /\ MaxData(peer(e)) \in Nat
      BY <1>1, LinkBoundAssumption DEF PInv, Threads, TypeOK, MaxData
    <3>5. f.payload \in 1 .. MaxData(peer(e))
      BY <3>3, <3>4
    <3>6. f.payload \notin Oversized
      BY <1>1, <3>5 DEF Calm
    <3>7. f.payload \in Payload
      BY <1>8 DEF Frame
    <3> QED
      BY <3>6, <3>7
  <2>3. Served(con_iframe(c, f), q, n) /\ Heard(c, f, con_iframe(c, f))
    <3> HIDE DEF c, n
    <3> QED
      BY <1>1, <1>4, <1>5, <2>1, <2>2, IframeServes DEF c
  <2>4. Served(g, q, n) /\ Heard(c, f, g)
    BY <2>1, <2>3
  <2> HIDE DEF g
  <2>5. \/ /\ g.up = <<>> /\ g.vr = con[e].vr
           /\ onair[e] = air[e] \/ (air[e] # <<>> /\ onair[e] = Tail(air[e]))
        \/ /\ air[e] # <<>> /\ onair[e] = Tail(air[e])
           /\ Head(air[e]).type = "iframe" /\ Head(air[e]).ns = con[e].vr
           /\ g.up = <<Head(air[e]).payload>> /\ g.vr = (con[e].vr + 1) % Modulus
    BY <1>8, <2>4 DEF Heard
  <2>6. Good(g) /\ Apply(e, g, onair)
    BY DEF g
  <2> QED
    BY <1>1, <1>2, <1>3, <1>6, <2>4, <2>5, <2>6, ServesKeeps
<1> QED
  BY <1>7, <1>8

\* A DISC that a station takes: the peer that sent it does not receive any more,
\* whatever the answer of this end is.
LEMMA DiscKeeps ==
    ASSUME PInv, NEW e \in End, ~Unopened(e), rpc[e] # "done", rpc' = rpc, submitted' = submitted,
           air[e] # <<>>, Head(air[e]).type = "disc", con[e].st # "AwaitingConnection",
           NEW g, NEW onair, NEW u, On(peer(e)) \/ Ending(e, g, onair, u)
    PROVE  Left
<1>1. Setup /\ air[e] \in Seq(Frame)
  BY EndIs
<1>2. ~None("disc", air[e])
  BY <1>1, NoneTail
<1>3. ~On(peer(e))
  <2>1. ~can_receive_data(con[peer(e)])
    BY <1>1, <1>2, PeerIs DEF Setup, Tidy
  <2>2. con[peer(e)].st # "AwaitingConnection"
    <3>1. ASSUME con[peer(e)].st = "AwaitingConnection" PROVE FALSE
      <4>1. e = "B" /\ Lone(air[e])
        BY <1>1, <3>1 DEF Setup, Calls, End, peer
      <4>2. Head(air[e]) = Sabm(TRUE)
        BY <1>1, <4>1, LoneTail
      <4> QED
        BY <4>2 DEF Sabm
    <3> QED
      BY <3>1
  <2>3. ~Unopened(peer(e))
    <3>1. CASE e = "A"
      BY <1>1, <1>2, <3>1 DEF Setup, Waits, peer
    <3>2. CASE e = "B"
      BY <1>1, <1>2, <3>2 DEF Setup, Hushed, Unopened, peer
    <3> QED
      BY <3>1, <3>2 DEF End
  <2> QED
    BY <2>1, <2>2, <2>3 DEF On
<1>4. e = "A" => None("sabm", air["B"])
  BY <1>1 DEF Setup, Sabms
<1>5. /\ ~Unopened(e)' /\ rpc'[peer(e)] = rpc[peer(e)] /\ Ending(e, g, onair, u)
      /\ (rpc'[e] = rpc[e] \/ rpc'[e] = "closing")
  BY <1>3 DEF Unopened
<1> QED
  BY <1>4, <1>5, EndsKeeps

\* A frame arrives: the acknowledgements and the data that it may bear are just those
\* that the invariant tells of, so none is out of range and no UA is unasked.
LEMMA KeepsReceive ==
    ASSUME PInv, Calm, NEW e \in End, Receive(e)
    PROVE  Left
<1> DEFINE c == con[e]
           f == Head(air[e])
           t == Tail(air[e])
           rest == [air EXCEPT ![e] = t]
           g == packet_callback(c, f)
<1>1. /\ air[e] # <<>> /\ rpc' = rpc /\ reader' = reader /\ submitted' = submitted
      /\ IF routed(e, f) THEN Apply(e, g, rest)
                         ELSE air' = rest /\ UNCHANGED <<con, received, log>>
  BY DEF Receive
<1>2. /\ TypeOK /\ Good(c) /\ (Unopened(e) => Fresh(c)) /\ Setup
      /\ air \in [End -> Seq(Frame)] /\ air[e] \in Seq(Frame) /\ c.out = <<>> /\ c.up = <<>>
      /\ peer(e) \in End /\ peer(e) # e /\ peer(peer(e)) = e
  BY EndIs, PeerIs
<1>3. f \in Frame /\ t \in Seq(Frame)
  BY <1>1, <1>2, TailIs
<1>4. /\ rest \in [End -> Seq(Frame)] /\ rest[e] = t /\ rest[peer(e)] = air[peer(e)]
  BY <1>2, <1>3
<1>5. rest[e] = air[e] \/ (air[e] # <<>> /\ rest[e] = Tail(air[e]))
  BY <1>1, <1>4
<1>6. f = Head(air[e]) /\ t = Tail(air[e])
  OBVIOUS
<1>7. CASE ~routed(e, f)
  <2>1. con' = con /\ log' = log /\ air' = rest
    BY <1>1, <1>7
  <2>2. air'[peer(e)] = air[peer(e)]
        /\ (air'[e] = air[e] \/ (air[e] # <<>> /\ air'[e] = Tail(air[e])))
    BY <1>4, <1>5, <2>1
  <2> QED
    BY <1>1, <2>1, <2>2, LeftAlone
<1>8. CASE routed(e, f)
  <2>1. /\ f.type = "sabm" => e = "B" /\ rpc["B"] = "waiting" /\ Unopened(e)
        /\ f.type # "sabm" => ~Unopened(e)
        /\ rpc[e] # "done"
    BY <1>8 DEF routed, Unopened, End
  <2>2. Good(g)
    BY <1>2, <1>3, <2>1, PacketGood
  <2>3. Apply(e, g, rest)
    BY <1>1, <1>8
  <2>4. f.poll \in BOOLEAN
    BY <1>3 DEF Frame
  <2>5. /\ rpc'[peer(e)] = rpc[peer(e)] /\ rpc'[e] = rpc[e]
    BY <1>1
  <2> HIDE DEF rest, t, f
  <2>6. ASSUME Still(c, g) PROVE Left
    <3> HIDE DEF g
    <3> QED
      BY <1>1, <1>4, <1>5, <2>1, <2>2, <2>3, <2>5, <2>6, StillKeeps
  <2>7. ASSUME Still(c, c), f.type \notin {"ua", "iframe", "rr", "disc", "sabm"} PROVE Left
    <3>1. g = c
      BY <2>7 DEF packet_callback
    <3> QED
      BY <2>6, <2>7, <3>1
  <2>8. Still(c, c)
    BY <1>2 DEF Still
  <2>9. ASSUME NEW u, u.type \in {"ua", "dm", "disc"}, Ended(g, c, u), f.type = "disc",
               c.st # "AwaitingConnection"
        PROVE  Left
    <3>1. Head(air[e]).type = "disc"
      BY <1>6, <2>9
    <3>2. ~Unopened(e)
      BY <2>1, <2>9
    <3>3. rpc[e] # "done" /\ rpc' = rpc /\ submitted' = submitted
      BY <1>1, <2>1
    <3>4. con[e].st # "AwaitingConnection" /\ air[e] # <<>>
      BY <1>1, <2>9
    <3>5. On(peer(e)) \/ Ending(e, g, rest, u)
      BY <1>4, <1>5, <2>2, <2>3, <2>9 DEF Ending
    <3> HIDE DEF g, c
    <3> QED
      BY <3>1, <3>2, <3>3, <3>4, <3>5, DiscKeeps
  <2>10. CASE f.type = "sabm"
    <3>1. e = "B" /\ rpc["B"] = "waiting" /\ g = con_sabm(con["B"], f.poll)
      BY <2>1, <2>10 DEF packet_callback
    <3>2. /\ air["B"] # <<>> /\ Head(air["B"]).type = "sabm"
          /\ rest["B"] = Tail(air["B"]) /\ rest["A"] = air["A"]
      BY <1>1, <1>4, <1>6, <2>10, <3>1 DEF peer
    <3>3. Good(con_sabm(con["B"], f.poll)) /\ Apply("B", con_sabm(con["B"], f.poll), rest)
      BY <2>2, <2>3, <3>1
    <3>4. rest \in [End -> Seq(Frame)] /\ rpc["B"] = "waiting" /\ rpc' = rpc /\ submitted' = submitted
      BY <1>1, <1>4, <3>1
    <3> QED
      BY <2>4, <3>2, <3>3, <3>4, AcceptsKeep
  <2>11. CASE f.type = "ua"
    <3>1. g = con_ua(c, f.poll)
      BY <2>11 DEF packet_callback
    <3>2. CASE can_receive_data(c)
      <4>1. None("ua", air[e])
        BY <1>2, <3>2 DEF Setup, Tidy
      <4> QED
        BY <1>1, <1>2, <1>6, <2>11, <4>1, NoneTail
    <3>3. CASE c.st = "AwaitingConnection"
      <4>1. e = "A"
        BY <3>3, EndIs
      <4>2. /\ air["A"] # <<>> /\ Head(air["A"]).type = "ua" /\ con["A"].st = "AwaitingConnection"
            /\ rest["A"] = Tail(air["A"]) /\ rest["B"] = air["B"]
        BY <1>1, <1>4, <1>6, <2>11, <3>3, <4>1 DEF peer
      <4>3. Good(con_ua(con["A"], f.poll)) /\ Apply("A", con_ua(con["A"], f.poll), rest)
        BY <2>2, <2>3, <3>1, <4>1
      <4> QED
        BY <1>1, <1>4, <2>4, <4>2, <4>3, ConnectsKeep
    <3>4. CASE ~can_receive_data(c) /\ c.st # "AwaitingConnection"
      <4>1. Still(c, con_ua(c, f.poll))
        BY <1>2, <3>4, DownStill
      <4> QED
        BY <2>6, <3>1, <4>1
    <3> QED
      BY <3>2, <3>3, <3>4
  <2>12. CASE f.type = "disc"
    <3>1. g = con_disc(c, f.poll)
      BY <2>12 DEF packet_callback
    <3>2. CASE can_receive_data(c)
      <4>1. Ended(con_disc(c, f.poll), c, Ua(f.poll))
        BY <1>2, <2>4, <3>2, DiscEnds
      <4>2. Ua(f.poll).type \in {"ua", "dm", "disc"}
        BY DEF Ua
      <4>3. c.st # "AwaitingConnection"
        BY <3>2 DEF can_receive_data, ReceivingStates
      <4> QED
        BY <2>9, <2>12, <3>1, <4>1, <4>2, <4>3
    <3>3. CASE ~can_receive_data(c)
      <4>1. IF c.st = "Disconnected" THEN Ended(con_disc(c, f.poll), c, Dm(f.poll))
                                     ELSE Still(c, con_disc(c, f.poll))
        BY <1>2, <3>3, DownStill
      <4>2. Dm(f.poll).type \in {"ua", "dm", "disc"}
        BY DEF Dm
      <4>3. CASE c.st = "Disconnected"
        <5>1. Ended(g, c, Dm(f.poll)) /\ c.st # "AwaitingConnection"
          BY <3>1, <4>1, <4>3
        <5> QED
          BY <2>9, <2>12, <4>2, <5>1
      <4>4. CASE c.st # "Disconnected"
        BY <2>6, <3>1, <4>1, <4>4
      <4> QED
        BY <4>3, <4>4
    <3> QED
      BY <3>2, <3>3
  <2>13. CASE f.type \in {"rr", "iframe"}
    <3>1. g = IF f.type = "rr" THEN con_rr(c, f) ELSE con_iframe(c, f)
      BY <2>13 DEF packet_callback
    <3>2. CASE can_receive_data(c)
      <4>1. ~Unopened(e)
        BY <2>1, <2>13
      <4>2. rest[e] = Tail(air[e])
        BY <1>4, <1>6
      <4> QED
        BY <1>1, <1>3, <1>4, <1>6, <2>1, <2>2, <2>3, <2>13, <3>2, <4>1, <4>2, AcknowledgedKeeps
    <3>3. CASE ~can_receive_data(c)
      <4>1. Still(c, con_rr(c, f)) /\ Still(c, con_iframe(c, f))
        BY <1>2, <3>3, DownStill
      <4> QED
        BY <2>6, <3>1, <4>1
    <3> QED
      BY <3>2, <3>3
  <2>14. CASE f.type \notin {"ua", "iframe", "rr", "disc", "sabm"}
    BY <2>7, <2>8, <2>14
  <2> QED
    BY <2>10, <2>11, <2>12, <2>13, <2>14
<1> QED
  BY <1>7, <1>8

\* Every step keeps the invariant, and is a step of the abstract link or a stutter.
LEMMA PatientNext ==
    ASSUME PInv, Calm, [Next]_vars
    PROVE  PInv' /\ \E e \in End : Onward(e)
<1>1. IInv'
  BY NextKeeps DEF PInv
<1>2. Threads'
  BY ThreadsKeep DEF PInv, IInv
<1>3. Patient
  BY DEF Calm
<1>4. Left
  <2>1. CASE Connect2_dl_connect
    BY <1>1, <2>1, KeepsConnect
  <2>2. CASE Accept2_insert
    BY <2>2, KeepsThreads
  <2>3. ASSUME NEW e \in End, Opened(e) \/ Erased(e) PROVE Left
    BY <2>3, KeepsThreads
  <2>4. ASSUME NEW e \in End, dl_data(e) PROVE Left
    BY <2>4, KeepsData
  <2>5. ASSUME NEW e \in End, dl_disconnect(e) PROVE Left
    BY <2>5, KeepsDisconnect
  <2>6. ASSUME NEW e \in End, Receive(e) PROVE Left
    BY <2>6, KeepsReceive
  <2>7. ASSUME NEW e \in End, timer1(e) PROVE Left
    BY <1>3, <2>7, KeepsTimer1
  <2>8. ASSUME NEW e \in End, timer3(e) PROVE Left
    BY <2>8, KeepsTimer3
  <2>9. ASSUME NEW e \in End, await_data(e) \/ reader_stops(e) PROVE Left
    <3>1. /\ con' = con /\ rpc' = rpc /\ submitted' = submitted /\ log' = log /\ air' = air
      BY <2>9 DEF await_data, reader_stops
    <3> QED
      BY <3>1, LeftAlone
  <2>10. ASSUME NEW e \in End, Lose(e) PROVE Left
    <3>1. /\ con' = con /\ rpc' = rpc /\ submitted' = submitted /\ log' = log
          /\ air[e] # <<>> /\ air' = [air EXCEPT ![e] = Tail(@)]
      BY <2>10 DEF Lose
    <3>2. air'[peer(e)] = air[peer(e)] /\ air'[e] = Tail(air[e])
      BY <3>1, EndIs, PeerIs
    <3> QED
      BY <3>1, <3>2, LeftAlone
  <2>11. CASE UNCHANGED vars
    <3>1. "A" \in End /\ con' = con /\ rpc' = rpc /\ submitted' = submitted /\ log' = log /\ air' = air
      BY <2>11 DEF vars, End
    <3> QED
      BY <3>1, LeftAlone
  <2> QED
    BY <2>1, <2>2, <2>3, <2>4, <2>5, <2>6, <2>7, <2>8, <2>9, <2>10, <2>11 DEF Next
<1> QED
  BY <1>1, <1>2, <1>4 DEF Left, PInv

\* A new pair of daemons, with nothing on the air, satisfies it.
LEMMA InitPatient == Init => PInv
<1> SUFFICES ASSUME Init PROVE PInv
  OBVIOUS
<1>1. IInv
  BY InitGood
<1>2. /\ con = [e \in End |-> NewConnection] /\ rpc = [e \in End |-> "init"]
      /\ reader = [e \in End |-> FALSE] /\ air = [e \in End |-> <<>>]
      /\ submitted = [e \in End |-> 0] /\ log = [e \in End |-> <<>>]
  BY DEF Init
<1>3. <<>> \in Seq(Frame) /\ Len(<<>>) = 0
  OBVIOUS
<1>4. Holds(NewConnection, 0, 0, 0) /\ Full(0, 0) = 0
  BY EmptyHolds DEF NewConnection, Full
<1>5. Going(NewConnection, 0, 0, <<>>, <<>>, 0)
  BY <1>3, <1>4 DEF Going, Below, AcksFit
<1>6. Direct(NewConnection, TRUE, 0, <<>>, <<>>, 0)
  BY <1>3, <1>5 DEF Direct, DataFit
<1>7. ASSUME NEW e \in End PROVE Direction(e) /\ Heeds(e)
  <2>1. /\ con[e] = NewConnection /\ submitted[e] = 0 /\ air[e] = <<>> /\ air[peer(e)] = <<>>
        /\ Len(log[peer(e)]) = 0 /\ log[e] = <<>> /\ Len(log[e]) = 0 /\ rpc[e] = "init"
    BY <1>2, <1>3, PeerIs
  <2>2. On(e) = TRUE
    BY <2>1 DEF On, Unopened
  <2>3. Direction(e)
    BY <1>6, <2>1, <2>2 DEF Direction
  <2>4. con[e].vr = 0 /\ 0 % Modulus = 0
    BY <2>1, ModPlain DEF NewConnection
  <2>5. Heeds(e)
    BY <2>1, <2>4 DEF Heeds
  <2> QED
    BY <2>3, <2>5
<1>8. Threads
  <2>1. \A e \in End : MaxData(e) \in Nat
    BY LinkBoundAssumption DEF MaxData
  <2> QED
    BY <1>2, <2>1 DEF Threads
<1>9. Quiet
  BY <1>2 DEF Quiet, NewConnection
<1>10. Setup
  <2>1. "A" \in End /\ "B" \in End
    BY DEF End
  <2>2. \A e \in End : /\ con[e].st = "Disconnected" /\ ~can_receive_data(con[e])
                       /\ air[e] = <<>> /\ log[e] = <<>> /\ rpc[e] = "init"
    BY <1>2 DEF NewConnection, can_receive_data, ReceivingStates
  <2>3. \A t : None(t, <<>>)
    BY <1>3 DEF None
  <2> QED
    BY <2>1, <2>2, <2>3
       DEF Setup, Versions, Hushed, Calls, Tidy, Sabms, Waits, Unopened
<1> QED
  BY <1>1, <1>7, <1>8, <1>9, <1>10 DEF PInv, Directions

\* On a link with a patient T1 what is submitted, under way, heard and acknowledged
\* agree in both directions, and only A's call sets the link up.
THEOREM PatientInvariant ==
    ASSUME Calm
    PROVE  Spec => []PInv
<1>1. PInv /\ [Next]_vars => PInv'
  BY PatientNext
<1> QED
  BY <1>1, InitPatient, PTL DEF Spec

\* With a T1 longer than a round trip, a link that is up is never set up anew.
THEOREM LinksLast ==
    ASSUME Calm
    PROVE  Spec => []NeverReset
<1>1. PInv => NeverReset
  <2>1. ASSUME PInv, NEW e \in End, rpc[e] = "open" PROVE con[e].st # "AwaitingConnection"
    BY <2>1, EndIs
  <2> QED
    BY <2>1 DEF NeverReset
<1> QED
  BY <1>1, PatientInvariant, PTL

\* With a T1 longer than a round trip, a datum that has left the resend queue of a live
\* link has arrived at the other end.
THEOREM NothingSwallowed ==
    ASSUME Calm
    PROVE  Spec => []AcknowledgedIsDelivered
<1>1. ASSUME PInv, NEW e \in End, can_receive_data(con[e]), NEW d \in 1 .. submitted[e]
      PROVE  Has(con[e].iframe_resend_queue, d) \/ Has(log[peer(e)], d)
  <2>1. PICK b \in 0 .. submitted[e] :
           /\ Holds(con[e], b, submitted[e], Full(b, submitted[e]))
           /\ b \in b .. Len(log[peer(e)])
           /\ b \in Nat /\ submitted[e] \in Nat /\ Len(log[peer(e)]) \in Nat
    BY <1>1, EndIs
  <2>2. peer(e) \in End /\ TypeOK /\ Heeds(peer(e))
    BY <1>1, PeerIs DEF PInv, IInv, Directions
  <2>3. CASE d <= b
    <3>1. d \in 1 .. Len(log[peer(e)])
      BY <2>1, <2>3
    <3>2. log[peer(e)][d] = d
      BY <2>2, <3>1 DEF Heeds
    <3>3. d \in DOMAIN log[peer(e)]
      BY <2>2, <3>1 DEF TypeOK
    <3> QED
      BY <3>2, <3>3 DEF Has
  <2>4. CASE ~(d <= b)
    <3> DEFINE q == con[e].iframe_resend_queue
    <3>1. d - b \in 1 .. submitted[e] - b
      BY <2>1, <2>4
    <3>2. Len(q) = submitted[e] - b /\ q[d - b] = b + (d - b)
      BY <2>1, <3>1 DEF Holds
    <3>3. q \in Seq(Payload)
      BY <1>1, EndIs DEF Good, ConnectionType
    <3>4. d - b \in DOMAIN q
      BY <3>1, <3>2, <3>3
    <3>5. b + (d - b) = d
      BY <2>1
    <3> QED
      BY <3>2, <3>4, <3>5 DEF Has
  <2> QED
    BY <2>3, <2>4
<1>2. PInv => AcknowledgedIsDelivered
  BY <1>1 DEF AcknowledgedIsDelivered
<1> QED
  BY <1>2, PatientInvariant, PTL

------------------------------------------------------------------------------
(* The refinement.                                                         *)

\* What was heard of e is the first of what e submitted.
LEMMA HeardInOrder ==
    ASSUME PInv, NEW e \in End
    PROVE  /\ log[peer(e)] \in Seq(Payload) /\ submitted[e] \in Nat
           /\ Len(log[peer(e)]) <= submitted[e]
           /\ \A i \in 1 .. Len(log[peer(e)]) : log[peer(e)][i] = i
           /\ Abstract!last(e) = Len(log[peer(e)])
<1>1. peer(e) \in End /\ TypeOK /\ Heeds(peer(e)) /\ Direction(e)
  BY PeerIs DEF PInv, IInv, Directions
<1> DEFINE d == log[peer(e)]
<1>2. /\ d \in Seq(Payload) /\ submitted[e] \in Nat /\ Len(d) <= submitted[e]
      /\ \A i \in 1 .. Len(d) : d[i] = i
  BY <1>1 DEF TypeOK, Heeds, Direction, Direct
<1>3. Abstract!last(e) = IF d = <<>> THEN 0 ELSE d[Len(d)]
  BY DEF Abstract!last
<1> HIDE DEF d
<1>4. CASE d = <<>>
  BY <1>2, <1>3, <1>4 DEF d
<1>5. CASE d # <<>>
  <2>1. Len(d) \in 1 .. Len(d)
    BY <1>2, <1>5
  <2> QED
    BY <1>2, <1>3, <1>5, <2>1 DEF d
<1> QED
  BY <1>4, <1>5

\* The last datum that was heard, 0 before the first.
Latest(s) == IF s = <<>> THEN 0 ELSE s[Len(s)]

\* The last of a log that grows.
LEMMA LatestOn ==
    ASSUME NEW s \in Seq(Payload), NEW k \in Payload
    PROVE  Latest(Append(s, k)) = k
<1>1. Len(Append(s, k)) = Len(s) + 1 /\ Append(s, k)[Len(s) + 1] = k
  OBVIOUS
<1>2. Append(s, k) # <<>>
  <2>1. Len(s) \in Nat /\ Len(<<>>) = 0
    OBVIOUS
  <2> QED
    BY <1>1, <2>1
<1> QED
  BY <1>1, <1>2 DEF Latest

\* A step at end e alone: a datum more submitted, a later datum heard, or neither and
\* perhaps the end of its link.
Forward(e) ==
    /\ Over(peer(e))' <=> Over(peer(e))
    /\ log'[peer(e)] = log[peer(e)]
    /\ \/ submitted' = submitted /\ log'[e] = log[e] /\ (Over(e) => Over(e)')
       \/ /\ submitted' = [submitted EXCEPT ![e] = @ + 1] /\ log'[e] = log[e]
          /\ Over(e)' <=> Over(e)
       \/ /\ submitted' = submitted
          /\ Over(e)' <=> Over(e)
          /\ \E k \in Latest(log[e]) + 1 .. submitted[peer(e)] : log'[e] = Append(log[e], k)

\* Such a step is a step of the abstract link, or a stutter.
LEMMA ForwardMaps ==
    ASSUME NEW e \in End, Forward(e),
           Patient => \A k \in Latest(log[e]) + 1 .. submitted[peer(e)] :
                         log'[e] = Append(log[e], k) => k = Latest(log[e]) + 1
    PROVE  [Abstract!Next]_Abstract!vars
<1> DEFINE p == peer(e)
           D == [x \in End |-> log[peer(x)]]
           L == [x \in End |-> ~Over(x)]
<1>1. p \in End /\ peer(p) = e /\ p # e /\ \A x \in End : x = e \/ x = p
  BY PeerIs
<1>2. /\ Over(p)' <=> Over(p)
      /\ log'[p] = log[p]
      /\ \/ submitted' = submitted /\ log'[e] = log[e] /\ (Over(e) => Over(e)')
         \/ /\ submitted' = [submitted EXCEPT ![e] = @ + 1] /\ log'[e] = log[e]
            /\ Over(e)' <=> Over(e)
         \/ /\ submitted' = submitted
            /\ Over(e)' <=> Over(e)
            /\ \E k \in Latest(log[e]) + 1 .. submitted[p] : log'[e] = Append(log[e], k)
  BY DEF Forward
<1>3. /\ D = [x \in End |-> log[peer(x)]] /\ D' = [x \in End |-> log'[peer(x)]]
      /\ L = [x \in End |-> ~Over(x)] /\ L' = [x \in End |-> ~(Over(x)')]
  OBVIOUS
<1>4. Abstract!vars = <<submitted, D, L>> /\ Abstract!vars' = <<submitted', D', L'>>
  BY DEF Abstract!vars, Over
<1>5. Abstract!Submit(e) <=> /\ submitted' = [submitted EXCEPT ![e] = @ + 1]
                            /\ D' = D /\ L' = L
  BY DEF Abstract!Submit, Over
<1>6. Abstract!Break(e) <=> /\ L[e] /\ L' = [L EXCEPT ![e] = FALSE]
                           /\ submitted' = submitted /\ D' = D
  BY DEF Abstract!Break, Over
<1>7. Abstract!Deliver(p) <=>
         /\ \E k \in Abstract!last(p) + 1 .. submitted[p] :
               /\ ~Patient \/ k = Abstract!last(p) + 1
               /\ D' = [D EXCEPT ![p] = Append(@, k)]
         /\ submitted' = submitted /\ L' = L
  BY DEF Abstract!Deliver, Over
<1>8. Abstract!Submit(e) \/ Abstract!Break(e) \/ Abstract!Deliver(p) => Abstract!Next
  BY <1>1 DEF Abstract!Next
<1>9. ASSUME log'[e] = log[e] PROVE D' = D
  <2>1. \A x \in End : log'[peer(x)] = log[peer(x)]
    BY <1>1, <1>2, <1>9
  <2> HIDE DEF D
  <2> QED
    BY <1>3, <2>1
<1>10. ASSUME Over(e)' <=> Over(e) PROVE L' = L
  <2>1. \A x \in End : Over(x)' <=> Over(x)
    BY <1>1, <1>2, <1>10
  <2>2. \A x \in End : (~(Over(x)')) = (~Over(x))
    BY <2>1, Zenon
  <2> HIDE DEF L
  <2> QED
    BY <1>3, <2>2
<1>11. CASE submitted' = submitted /\ log'[e] = log[e] /\ (Over(e) => Over(e)')
  <2>1. CASE Over(e)' <=> Over(e)
    <3>1. submitted' = submitted /\ D' = D /\ L' = L
      BY <1>9, <1>10, <1>11, <2>1
    <3> HIDE DEF D, L
    <3>2. Abstract!vars' = Abstract!vars
      BY <1>4, <3>1
    <3> QED
      BY <3>2
  <2>2. CASE ~(Over(e)' <=> Over(e))
    <3>1. ~Over(e) /\ Over(e)'
      BY <1>11, <2>2
    <3>2. \A x \in End : (~(Over(x)')) = (IF x = e THEN FALSE ELSE ~Over(x))
      BY <1>1, <1>2, <3>1, Zenon
    <3> HIDE DEF L
    <3>3. L[e] /\ L' = [L EXCEPT ![e] = FALSE]
      BY <1>3, <3>1, <3>2
    <3> QED
      BY <1>6, <1>8, <1>9, <1>11, <3>3
  <2> QED
    BY <2>1, <2>2
<1>12. CASE /\ submitted' = [submitted EXCEPT ![e] = @ + 1] /\ log'[e] = log[e]
            /\ Over(e)' <=> Over(e)
  BY <1>5, <1>8, <1>9, <1>10, <1>12
<1>13. CASE /\ submitted' = submitted
            /\ Over(e)' <=> Over(e)
            /\ \E k \in Latest(log[e]) + 1 .. submitted[p] : log'[e] = Append(log[e], k)
  <2>1. Abstract!last(p) = Latest(log[e])
    BY <1>1, <1>3 DEF Abstract!last, Latest
  <2>2. PICK k \in Latest(log[e]) + 1 .. submitted[p] : log'[e] = Append(log[e], k)
    BY <1>13
  <2>3. ~Patient \/ k = Latest(log[e]) + 1
    BY <2>2, PatientAssumption
  <2>4. D' = [D EXCEPT ![p] = Append(@, k)]
    <3>1. \A x \in End : log'[peer(x)] = IF x = p THEN Append(log[peer(x)], k) ELSE log[peer(x)]
      BY <1>1, <1>2, <2>2
    <3> HIDE DEF D
    <3> QED
      BY <1>1, <1>3, <3>1
  <2> QED
    BY <1>7, <1>8, <1>10, <1>13, <2>1, <2>2, <2>3, <2>4
<1> QED
  BY <1>2, <1>11, <1>12, <1>13

\* The daemons start where the abstract link does.
LEMMA AbstractInit == Init => Abstract!Init
<1>1. ASSUME Init PROVE Abstract!Init
  <2>1. /\ rpc = [e \in End |-> "init"] /\ log = [e \in End |-> <<>>]
        /\ submitted = [e \in End |-> 0]
    BY <1>1 DEF Init
  <2>2. \A e \in End : log[peer(e)] = <<>> /\ rpc[e] = "init"
    BY <2>1, PeerIs
  <2> QED
    BY <2>1, <2>2 DEF Abstract!Init
<1> QED
  BY <1>1

\* A step of the daemons is a step of the abstract link, or a stutter.
LEMMA RefinementStep ==
    ASSUME PInv, PInv', Patient, NEW e \in End, Onward(e)
    PROVE  [Abstract!Next]_Abstract!vars
<1> DEFINE p == peer(e)
           s == log[e]
           t == log'[e]
           n == Len(s) + 1
<1>1. p \in End /\ peer(p) = e
  BY PeerIs
<1>2. /\ s \in Seq(Payload) /\ \A i \in 1 .. Len(s) : s[i] = i
      /\ Latest(s) = Len(s)
  BY <1>1, HeardInOrder DEF Abstract!last, Latest
<1>3. \A k : Len(Append(s, k)) = n /\ Append(s, k)[n] = k
  BY <1>2
<1>4. /\ t \in Seq(Payload) /\ submitted'[p] \in Nat /\ Len(t) <= submitted'[p]
      /\ \A i \in 1 .. Len(t) : t[i] = i
  <2>1. /\ p \in End /\ TypeOK' /\ Heeds(e)' /\ Direction(p)'
    BY <1>1 DEF PInv, IInv, Directions
  <2> QED
    BY <1>1, <2>1 DEF TypeOK, Heeds, Direction, Direct
<1>5. ASSUME NEW k, t = Append(s, k) PROVE k = n
  <2> HIDE DEF s, t
  <2>1. Len(s) \in Nat
    BY <1>2
  <2> QED
    BY <1>3, <1>4, <1>5, <2>1
<1>6. ASSUME submitted' = submitted, Len(t) = n
      PROVE  \E k \in Latest(s) + 1 .. submitted[p] : t = Append(s, k)
  <2> HIDE DEF s, t
  <2>1. Append(s, n) = [i \in 1 .. Len(s) + 1 |-> IF i = Len(s) + 1 THEN n ELSE s[i]]
    BY <1>2
  <2>2. t = [i \in 1 .. Len(t) |-> t[i]]
    BY <1>4
  <2>3. t = Append(s, n)
    BY <1>2, <1>4, <1>6, <2>1, <2>2
  <2>4. n \in Latest(s) + 1 .. submitted[p]
    BY <1>2, <1>4, <1>6
  <2> QED
    BY <2>3, <2>4
<1>7. Forward(e)
  BY <1>6 DEF Onward, Forward
<1> QED
  BY <1>2, <1>5, <1>7, ForwardMaps

\* With a T1 longer than a round trip the two daemons implement the abstract link:
\* every datum is handed over in order, once, and none is passed over.
THEOREM OrderedLink ==
    ASSUME Calm
    PROVE  Spec => DeliversInOrder
<1>1. Init => Abstract!Init
  BY AbstractInit
<1>2. PInv /\ PInv' /\ [Next]_vars => [Abstract!Next]_Abstract!vars
  <2>1. ASSUME PInv, PInv', [Next]_vars PROVE [Abstract!Next]_Abstract!vars
    <3>1. Patient
      BY DEF Calm
    <3>2. PICK e \in End : Onward(e)
      BY <2>1, PatientNext
    <3> QED
      BY <2>1, <3>1, <3>2, RefinementStep
  <2> QED
    BY <2>1
<1> QED
  BY <1>1, <1>2, PatientInvariant, PTL DEF Spec, DeliversInOrder, Abstract!Spec

------------------------------------------------------------------------------
(* Any T1.                                                                 *)

\* The data of end e on their way to its peer.
Streaming(e) ==
    Stream(con[e], con[peer(e)], Latest(log[peer(e)]), air[peer(e)], submitted[e])

\* The inductive invariant: both directions stay in order.
EInv == IInv /\ Quiet /\ \A e \in End : Plain(con[e]) /\ Streaming(e)

\* What a step leaves of the invariant, and what it does.
Flows == Quiet' /\ (\A x \in End : Plain(con'[x]) /\ Streaming(x)') /\ \E x \in End : Forward(x)

\* What is taken from the air when nothing is.
NoFrame == [type |-> "none"]

\* What a call at e leaves.
LEMMA AppliedIs ==
    ASSUME TypeOK, NEW e \in End, NEW g, Good(g), NEW onair \in [End -> Seq(Frame)],
           Apply(e, g, onair), onair[peer(e)] = air[peer(e)]
    PROVE  /\ con'[e] = start(g) /\ con'[peer(e)] = con[peer(e)]
           /\ Onto(air'[peer(e)], air[peer(e)], g.out) /\ air'[e] = onair[e]
           /\ log'[e] = log[e] \o g.up /\ log'[peer(e)] = log[peer(e)]
           /\ SameLinkData(g, start(g)) /\ start(g).st = g.st /\ start(g).vr = g.vr
           /\ start(g).modulus = g.modulus /\ start(g).out = <<>> /\ start(g).up = <<>>
<1> DEFINE p == peer(e)
           h == start(g)
           w1 == Room(onair[p] \o g.out)
<1>1. p \in End /\ p # e
  BY PeerIs
<1>2. g.out \in Seq(Frame) /\ air[p] \in Seq(Frame) /\ air[e] \in Seq(Frame)
  BY <1>1 DEF Good, ConnectionType, TypeOK
<1>3. Onto(w1, air[p], g.out)
  BY <1>2, RoomOnto
<1>4. /\ SameLinkData(g, h) /\ h.st = g.st /\ h.vr = g.vr /\ h.modulus = g.modulus
      /\ h.out = <<>> /\ h.up = <<>>
  BY DEF start, SameLinkData, Good, ConnectionType
<1>5. /\ con' = [con EXCEPT ![e] = h] /\ air' = [onair EXCEPT ![p] = w1]
      /\ log' = [log EXCEPT ![e] = @ \o g.up]
  BY DEF Apply
<1> HIDE DEF h, w1, p
<1>6. /\ con'[e] = h /\ con'[p] = con[p] /\ air'[p] = w1 /\ air'[e] = onair[e]
      /\ log'[e] = log[e] \o g.up /\ log'[p] = log[p]
  BY <1>1, <1>5 DEF TypeOK
<1> QED
  BY <1>3, <1>4, <1>6 DEF h, p

\* A call at e, given a frame or none, keeps both directions in order.
LEMMA CallFlows ==
    ASSUME EInv, NEW e \in End, NEW g, Good(g), NEW onair \in [End -> Seq(Frame)],
           Apply(e, g, onair), onair[peer(e)] = air[peer(e)],
           rpc'[peer(e)] = rpc[peer(e)],
           NEW m \in {submitted[e], submitted[e] + 1},
           submitted' = [submitted EXCEPT ![e] = m],
           NEW f, Done(con[e], g, submitted[e], m, f),
           \/ onair[e] = air[e] /\ f = NoFrame
           \/ /\ air[e] # <<>> /\ onair[e] = Tail(air[e]) /\ f = Head(air[e])
              /\ m = submitted[e] /\ rpc'[e] = rpc[e],
           Over(e) => Over(e)',
           m = submitted[e] \/ (Over(e)' <=> Over(e))
    PROVE  Flows
<1> DEFINE p == peer(e)
           n == submitted[e]
           l == Latest(log[p])
           k == Latest(log[e])
           h == start(g)
<1>1. p \in End /\ peer(p) = e /\ p # e /\ \A x \in End : x = e \/ x = p
  BY PeerIs
<1>2. /\ TypeOK /\ Good(con[e]) /\ Good(con[p])
      /\ Plain(con[p]) /\ con[p].out = <<>> /\ con[p].up = <<>>
      /\ n \in Nat /\ submitted[p] \in Nat /\ log[e] \in Seq(Payload)
  BY <1>1 DEF EInv, IInv, Quiet, TypeOK
<1>3. /\ Stream(con[e], con[p], l, air[p], n)
      /\ Stream(con[p], con[e], k, air[e], submitted[p])
  BY <1>1 DEF EInv, Streaming
<1>4. /\ con'[e] = h /\ con'[p] = con[p]
      /\ Onto(air'[p], air[p], g.out) /\ air'[e] = onair[e]
      /\ log'[e] = log[e] \o g.up /\ log'[p] = log[p]
      /\ SameLinkData(g, h) /\ h.st = g.st /\ h.vr = g.vr
      /\ h.modulus = g.modulus /\ h.out = <<>> /\ h.up = <<>>
  BY <1>2, AppliedIs
<1>5. submitted'[e] = m /\ submitted'[p] = submitted[p] /\ (m = n => submitted' = submitted)
  BY <1>1, <1>2 DEF TypeOK
<1> HIDE DEF h, l, k
<1>6. Plain(g) /\ Proceeds(con[e], g, n, m) /\ Listens(con[e], g, f)
  BY DEF Done
<1>7. Streaming(e)'
  <2>1. Stream(g, con[p], l, air'[p], m)
    <3> DEFINE c == con[e]
               r == con[p]
               w == air[p]
               w1 == air'[p]
    <3>1. /\ m \in {n, n + 1} /\ Good(c) /\ Good(g) /\ Good(r) /\ Proceeds(c, g, n, m)
          /\ Onto(w1, w, g.out) /\ Stream(c, r, l, w, n)
      BY <1>2, <1>3, <1>4, <1>6
    <3> HIDE DEF c, r, w, w1, n
    <3>2. Stream(g, r, l, w1, m)
      BY ONLY <3>1, StreamSent
    <3> QED
      BY <3>2 DEF w1, r
  <2>2. Stream(h, con[p], l, air'[p], m)
    BY <1>4, <2>1, StreamSame
  <2>3. Stream(con'[e], con'[p], Latest(log'[p]), air'[p], submitted'[e])
    BY <1>4, <1>5, <2>2 DEF l
  <2> QED
    BY <2>3 DEF Streaming
<1>8. \/ g.up = <<>> /\ Stream(con[p], g, k, air'[e], submitted[p])
      \/ \E i \in k + 1 .. submitted[p] :
            /\ g.up = <<i>> /\ Stream(con[p], g, i, air'[e], submitted[p])
            /\ can_receive_data(con[e]) /\ can_receive_data(g)
            /\ m = n /\ rpc'[e] = rpc[e]
  <2>1. CASE onair[e] = air[e] /\ f = NoFrame
    <3>1. ~Resets(f) /\ f.type # "iframe"
      BY <2>1 DEF NoFrame, Resets
    <3>2. g.up = <<>> /\ (can_receive_data(g) => can_receive_data(con[e]) /\ g.vr = con[e].vr)
      BY <1>6, <3>1 DEF Listens
    <3> QED
      BY <1>3, <1>4, <2>1, <3>2, StreamHeard
  <2>2. CASE /\ air[e] # <<>> /\ onair[e] = Tail(air[e]) /\ f = Head(air[e])
             /\ m = n /\ rpc'[e] = rpc[e]
    <3> DEFINE c == con[p]
               r == con[e]
               w == air[e]
               q == submitted[p]
    <3>1. /\ Good(c) /\ Good(r) /\ w # <<>> /\ Stream(c, r, k, w, q)
          /\ Listens(r, g, Head(w))
      BY <1>2, <1>3, <1>6, <2>2
    <3>2. air'[e] = Tail(w)
      BY <1>4, <2>2
    <3> HIDE DEF c, r, w, q
    <3>3. \/ g.up = <<>> /\ Stream(c, g, k, Tail(w), q)
          \/ \E i \in k + 1 .. q :
                /\ g.up = <<i>> /\ Stream(c, g, i, Tail(w), q)
                /\ can_receive_data(r) /\ can_receive_data(g)
      BY ONLY <3>1, StreamListens
    <3>4. \/ g.up = <<>> /\ Stream(c, g, k, air'[e], q)
          \/ \E i \in k + 1 .. q :
                /\ g.up = <<i>> /\ Stream(c, g, i, air'[e], q)
                /\ can_receive_data(r) /\ can_receive_data(g)
      BY <3>2, <3>3, Zenon
    <3> QED
      BY <2>2, <3>4, Zenon DEF c, r, q
  <2> QED
    BY <2>1, <2>2
<1>9. Quiet'
  <2>1. \A x \in End : con'[x].out = <<>> /\ con'[x].up = <<>>
    BY <1>1, <1>2, <1>4
  <2> QED
    BY <2>1 DEF Quiet
<1>10. \A x \in End : Plain(con'[x])
  BY <1>1, <1>2, <1>4, <1>6 DEF Plain
<1>11. Over(p)' <=> Over(p)
  BY <1>1, <1>4 DEF Over
<1>12. CASE g.up = <<>> /\ Stream(con[p], g, k, air'[e], submitted[p])
  <2>1. log'[e] = log[e]
    BY <1>2, <1>4, <1>12
  <2>2. Stream(con[p], h, k, air'[e], submitted[p])
    BY <1>4, <1>12, StreamSame DEF SameLinkData
  <2>3. Stream(con'[p], con'[e], Latest(log'[e]), air'[e], submitted'[p])
    BY <1>4, <1>5, <2>1, <2>2 DEF k
  <2>4. Streaming(p)'
    BY <1>1, <2>3 DEF Streaming
  <2>5. Forward(e)
    BY <1>4, <1>5, <1>11, <2>1 DEF Forward
  <2> QED
    BY <1>1, <1>7, <1>9, <1>10, <2>4, <2>5 DEF Flows
<1>13. ASSUME NEW i \in k + 1 .. submitted[p],
              g.up = <<i>>, Stream(con[p], g, i, air'[e], submitted[p]),
              can_receive_data(con[e]), can_receive_data(g), m = n, rpc'[e] = rpc[e]
       PROVE  Flows
  <2>1. log'[e] = Append(log[e], i)
    BY <1>2, <1>4, <1>13, SMTT(30)
  <2>2. Latest(log'[e]) = i
    <3>1. i \in Payload
      <4>1. g.up \in Seq(Payload) /\ Len(<<i>>) = 1 /\ <<i>>[1] = i
        BY DEF Good, ConnectionType
      <4>2. \A s \in Seq(Payload) : Len(s) = 1 => s[1] \in Payload
        <5> TAKE s \in Seq(Payload)
        <5>1. 1 \in 1 .. Len(s) => s[1] \in Payload
          OBVIOUS
        <5> QED
          BY <5>1
      <4> QED
        BY <1>13, <4>1, <4>2
    <3> QED
      BY <1>2, <2>1, <3>1, LatestOn
  <2>3. Stream(con[p], h, i, air'[e], submitted[p])
    BY <1>4, <1>13, StreamSame DEF SameLinkData
  <2>4. Stream(con'[p], con'[e], Latest(log'[e]), air'[e], submitted'[p])
    BY <1>4, <1>5, <2>2, <2>3
  <2>5. Streaming(p)'
    BY <1>1, <2>4 DEF Streaming
  <2>6. Over(e)' <=> Over(e)
    BY <1>4, <1>13 DEF Over, can_receive_data, ReceivingStates
  <2>7. \E j \in Latest(log[e]) + 1 .. submitted[p] : log'[e] = Append(log[e], j)
    BY <2>1 DEF k
  <2>8. Forward(e)
    BY <1>4, <1>5, <1>11, <1>13, <2>6, <2>7 DEF Forward
  <2> QED
    BY <1>1, <1>7, <1>9, <1>10, <2>5, <2>8 DEF Flows
<1> QED
  BY <1>8, <1>12, <1>13

\* A step that changes neither connection takes nothing from the data on their way
\* but the first frame.
LEMMA StillFlows ==
    ASSUME EInv, NEW e \in End, con' = con, log' = log, submitted' = submitted,
           rpc'[peer(e)] = rpc[peer(e)], Over(e) => Over(e)',
           \A x \in End : air'[x] = air[x] \/ (air[x] # <<>> /\ air'[x] = Tail(air[x]))
    PROVE  Flows
<1>1. ASSUME NEW x \in End
      PROVE  Plain(con'[x]) /\ Streaming(x)' /\ con'[x].out = <<>> /\ con'[x].up = <<>>
  <2> DEFINE p == peer(x)
             l == Latest(log[p])
             w == air[p]
             w1 == air'[p]
             n == submitted[x]
  <2>1. p \in End
    BY PeerIs
  <2>2. Plain(con[x]) /\ Stream(con[x], con[p], l, w, n)
    BY DEF EInv, Streaming
  <2>3. w1 = w \/ (w # <<>> /\ w1 = Tail(w))
    BY <2>1
  <2> HIDE DEF p, l, w, w1, n
  <2>4. Stream(con[x], con[p], l, w1, n)
    BY <2>2, <2>3, StreamTail
  <2>5. Stream(con'[x], con'[p], Latest(log'[p]), w1, submitted'[x])
    BY <2>4 DEF l, n
  <2>6. Streaming(x)'
    BY <2>5 DEF Streaming, p, w1
  <2> QED
    BY <2>2, <2>6 DEF EInv, Quiet
<1>2. Quiet'
  BY <1>1 DEF Quiet
<1>3. Over(peer(e))' <=> Over(peer(e))
  BY DEF Over
<1>4. Forward(e)
  BY <1>3 DEF Forward
<1> QED
  BY <1>1, <1>2, <1>4 DEF Flows

\* The entry is erased, with the data it still stored.
LEMMA ErasedFlows ==
    ASSUME EInv, NEW e \in End, Erased(e)
    PROVE  Flows
<1> DEFINE p == peer(e)
           n == submitted[e]
           l == Latest(log[p])
           k == Latest(log[e])
           h == NewConnection
<1>1. p \in End /\ peer(p) = e /\ p # e /\ \A x \in End : x = e \/ x = p
  BY PeerIs
<1>2. /\ TypeOK /\ Good(con[e]) /\ Good(con[p])
      /\ Plain(con[p]) /\ con[p].out = <<>> /\ con[p].up = <<>>
      /\ Stream(con[e], con[p], l, air[p], n)
      /\ Stream(con[p], con[e], k, air[e], submitted[p])
  BY <1>1 DEF EInv, IInv, Quiet, Streaming
<1>3. Good(h) /\ h.iframe_resend_queue = <<>>
  BY NewGood DEF Fresh
<1>4. h.out = <<>> /\ h.up = <<>> /\ h.st = "Disconnected"
  BY DEF NewConnection
<1>5. ~can_receive_data(h) /\ Plain(h)
  BY <1>4 DEF can_receive_data, ReceivingStates, Plain
<1>6. /\ con'[e] = h /\ con'[p] = con[p] /\ air' = air /\ submitted' = submitted /\ log' = log
      /\ rpc[e] = "closing" /\ rpc'[e] = "done" /\ rpc'[p] = rpc[p]
  BY <1>1, <1>2 DEF Erased, TypeOK
<1> HIDE DEF h, l, k, n
<1>7. Streaming(e)'
  <2> DEFINE c == con[e]
             r == con[p]
             w == air[p]
  <2>1. Good(c) /\ Good(r) /\ Stream(c, r, l, w, n)
    BY <1>2
  <2> HIDE DEF c, r, w
  <2>2. Stream(h, r, l, w, n)
    BY <1>3, <1>4, <1>5, <2>1, StreamForgets
  <2>3. Stream(con'[e], con'[p], Latest(log'[p]), air'[p], submitted'[e])
    BY <1>6, <2>2 DEF c, r, w, l, n
  <2> QED
    BY <2>3 DEF Streaming
<1>8. Streaming(p)'
  <2>1. Stream(con[p], h, k, air[e], submitted[p])
    BY <1>2, <1>5, StreamHeard
  <2>2. Stream(con'[p], con'[e], Latest(log'[e]), air'[e], submitted'[p])
    BY <1>6, <2>1 DEF k
  <2> QED
    BY <1>1, <2>2 DEF Streaming
<1>9. Quiet' /\ \A x \in End : Plain(con'[x])
  BY <1>1, <1>2, <1>4, <1>5, <1>6 DEF Quiet
<1>10. Over(e)' /\ (Over(p)' <=> Over(p))
  BY <1>6 DEF Over
<1>11. Forward(e)
  BY <1>6, <1>10 DEF Forward
<1> QED
  BY <1>1, <1>7, <1>8, <1>9, <1>11 DEF Flows

\* A call of end e's threads, its timers' included.
LEMMA ThreadFlows ==
    ASSUME EInv, NEW e \in End,
           \/ e = "A" /\ Connect2_dl_connect
           \/ dl_data(e) \/ dl_disconnect(e) \/ timer1(e) \/ timer3(e)
    PROVE  Flows
<1> DEFINE c == con[e]
           n == submitted[e]
<1>1. peer(e) \in End /\ peer(e) # e
  BY PeerIs
<1>2. /\ TypeOK /\ Good(c) /\ Plain(c) /\ (Unopened(e) => Fresh(c))
      /\ air \in [End -> Seq(Frame)] /\ n \in Nat /\ submitted = [submitted EXCEPT ![e] = n]
  BY DEF EInv, IInv, TypeOK
<1>3. ASSUME NEW g, Good(g), Done(c, g, n, n, NoFrame), Apply(e, g, air),
             submitted' = submitted, rpc'[peer(e)] = rpc[peer(e)], Over(e) => Over(e)'
      PROVE  Flows
  BY <1>2, <1>3, CallFlows
<1>5. CASE e = "A" /\ Connect2_dl_connect
  <2> DEFINE g == con_dl_connect(c)
  <2>1. /\ Apply(e, g, air) /\ submitted' = submitted
        /\ rpc[e] = "init" /\ rpc' = [rpc EXCEPT ![e] = "waiting"]
    BY <1>5 DEF Connect2_dl_connect
  <2>2. Good(g) /\ Done(c, g, n, n, NoFrame)
    BY <1>2, <2>1, CallsDone DEF Unopened
  <2>3. ~Over(e) /\ rpc'[peer(e)] = rpc[peer(e)]
    BY <1>1, <1>2, <2>1 DEF Over, TypeOK
  <2> HIDE DEF g
  <2> QED
    BY <1>3, <2>1, <2>2, <2>3
<1>6. CASE dl_data(e)
  <2> DEFINE g == con_dl_data(c, n + 1)
             m == n + 1
  <2>1. /\ Apply(e, g, air) /\ submitted' = [submitted EXCEPT ![e] = m]
        /\ rpc[e] = "open" /\ rpc' = rpc /\ n < MaxData(e)
    BY <1>2, <1>6 DEF dl_data, TypeOK
  <2>2. m \in Payload
    <3>1. MaxData(e) \in Nat /\ \A d \in 1 .. MaxData(e) : d \in Payload
      BY LinkBoundAssumption DEF MaxData
    <3>2. n \in Nat /\ n < MaxData(e)
      BY <1>2, <2>1
    <3> HIDE DEF n
    <3>3. n + 1 \in 1 .. MaxData(e)
      BY <3>1, <3>2
    <3> QED
      BY <3>1, <3>3
  <2>3. Good(g) /\ Done(c, g, n, m, NoFrame)
    BY <1>2, <2>2, CallsDone
  <2>4. g.st = c.st
    BY <1>2, <2>2, DlDataState
  <2>5. con'[e].st = c.st
    <3> HIDE DEF g
    <3>1. con'[e] = start(g) /\ start(g).st = g.st
      BY <1>2, <2>1, <2>3 DEF Apply, TypeOK, start, Good, ConnectionType
    <3> QED
      BY <2>4, <3>1
  <2>6. Over(e)' <=> Over(e)
    BY <2>1, <2>5 DEF Over
  <2>7. m \in {submitted[e], submitted[e] + 1} /\ rpc'[peer(e)] = rpc[peer(e)]
    BY <2>1
  <2> HIDE DEF g, m
  <2> QED
    BY <1>2, <2>1, <2>3, <2>6, <2>7, CallFlows
<1>7. CASE dl_disconnect(e)
  <2> DEFINE g == con_dl_disconnect(c)
  <2>1. /\ Apply(e, g, air) /\ submitted' = submitted /\ rpc' = [rpc EXCEPT ![e] = "closing"]
    BY <1>7 DEF dl_disconnect
  <2>2. Good(g) /\ Done(c, g, n, n, NoFrame)
    BY <1>2, CallsDone
  <2>3. rpc'[peer(e)] = rpc[peer(e)] /\ rpc'[e] = "closing"
    BY <1>1, <1>2, <2>1 DEF TypeOK
  <2>4. Over(e)'
    BY <2>3 DEF Over
  <2> HIDE DEF g
  <2> QED
    BY <1>3, <2>1, <2>2, <2>3, <2>4
<1>8. ASSUME NEW g, Good(g), Done(c, g, n, n, NoFrame), Apply(e, g, air),
             submitted' = submitted, rpc' = rpc,
             c.st = "Disconnected" => g.st = "Disconnected"
      PROVE  Flows
  <2>1. con'[e] = start(g) /\ start(g).st = g.st
    BY <1>2, <1>8 DEF Apply, TypeOK, start, Good, ConnectionType
  <2>2. Over(e) => Over(e)'
    BY <1>8, <2>1 DEF Over
  <2> QED
    BY <1>3, <1>8, <2>2
<1>9. CASE timer1(e)
  <2> DEFINE g == con_timer1_tick(c)
  <2>1. c.t1 /\ Apply(e, g, air) /\ submitted' = submitted /\ rpc' = rpc
    BY <1>9 DEF timer1
  <2>2. Good(g) /\ Done(c, g, n, n, NoFrame)
    BY <1>2, <2>1, CallsDone, Timer1Good
  <2>3. c.st = "Disconnected" => g.st = "Disconnected"
    BY <1>2, <2>1, DownStays
  <2> HIDE DEF g
  <2> QED
    BY <1>8, <2>1, <2>2, <2>3
<1>10. CASE timer3(e)
  <2> DEFINE g == con_timer3_tick(c)
  <2>1. Apply(e, g, air) /\ submitted' = submitted /\ rpc' = rpc
    BY <1>10 DEF timer3
  <2>2. Good(g) /\ Done(c, g, n, n, NoFrame)
    BY <1>2, CallsDone, Timer3Good
  <2>3. c.st = "Disconnected" => g.st = "Disconnected"
    BY <1>2, DownStays
  <2> HIDE DEF g
  <2> QED
    BY <1>8, <2>1, <2>2, <2>3
<1> QED
  BY <1>5, <1>6, <1>7, <1>9, <1>10

\* A frame that was routed flows into the connection, one that was not flows away.
LEMMA ReceiveFlows ==
    ASSUME EInv, NEW e \in End, Receive(e)
    PROVE  Flows
<1> DEFINE c == con[e]
           n == submitted[e]
           f == Head(air[e])
           g == packet_callback(c, f)
           rest == [air EXCEPT ![e] = Tail(@)]
<1>1. peer(e) \in End /\ peer(e) # e
  BY PeerIs
<1>2. /\ TypeOK /\ Good(c) /\ Plain(c) /\ c.out = <<>> /\ c.up = <<>>
      /\ (Unopened(e) => Fresh(c)) /\ air \in [End -> Seq(Frame)]
      /\ submitted = [submitted EXCEPT ![e] = n]
  BY DEF EInv, IInv, TypeOK, Quiet
<1>3. /\ air[e] # <<>> /\ rpc' = rpc /\ submitted' = submitted
      /\ IF routed(e, f) THEN Apply(e, g, rest)
                         ELSE air' = rest /\ con' = con /\ log' = log
  BY DEF Receive
<1>4. f \in Frame /\ Tail(air[e]) \in Seq(Frame)
  <2>1. air[e] \in Seq(Frame)
    BY <1>2
  <2> QED
    BY <1>3, <2>1, TailIs
<1>5. /\ rest \in [End -> Seq(Frame)] /\ rest[e] = Tail(air[e])
      /\ \A x \in End : x # e => rest[x] = air[x]
  BY <1>2, <1>4
<1> HIDE DEF f, g, rest
<1>6. CASE ~routed(e, f)
  <2>1. \A x \in End : air'[x] = air[x] \/ (air[x] # <<>> /\ air'[x] = Tail(air[x]))
    BY <1>3, <1>5, <1>6
  <2>2. Over(e) => Over(e)'
    BY <1>3, <1>6 DEF Over
  <2> QED
    BY <1>3, <1>6, <2>1, <2>2, StillFlows
<1>7. CASE routed(e, f)
  <2>1. f.type = "sabm" => Unopened(e) /\ rpc[e] = "waiting"
    BY <1>7 DEF routed, Unopened
  <2>2. Good(g)
    BY <1>2, <1>4, <2>1, PacketGood DEF g
  <2>3. Done(c, g, n, n, f)
    <3>1. CASE f.type = "sabm"
      BY <1>2, <1>4, <2>1, <3>1, FramesDone DEF g, packet_callback
    <3>2. CASE f.type \in {"ua", "iframe", "rr", "disc"}
      BY <1>2, <1>4, <3>2, FramesDone DEF g, packet_callback
    <3>3. CASE f.type \notin {"sabm", "ua", "iframe", "rr", "disc"}
      <4>1. g = c
        BY <3>3 DEF g, packet_callback
      <4> QED
        BY <1>2, <4>1, IdleDone
    <3> QED
      BY <3>1, <3>2, <3>3
  <2>4. c.st = "Disconnected" => g.st = "Disconnected" \/ f.type = "sabm"
    <3>1. f.poll \in BOOLEAN \/ f.type \in {"rr", "iframe"}
      BY <1>4 DEF Frame
    <3>2. ASSUME c.st = "Disconnected", f.type # "sabm" PROVE g.st = "Disconnected"
      BY <1>2, <3>1, <3>2, DownStays DEF g, packet_callback
    <3> QED
      BY <3>2
  <2>5. Over(e) => Over(e)'
    <3>1. con'[e] = start(g) /\ start(g).st = g.st
      BY <1>2, <1>3, <1>7, <2>2 DEF Apply, TypeOK, start, Good, ConnectionType
    <3>2. Over(e) /\ f.type = "sabm" => FALSE
      BY <2>1 DEF Over
    <3> QED
      BY <1>3, <2>4, <3>1, <3>2 DEF Over
  <2>6. /\ Apply(e, g, rest) /\ rest[peer(e)] = air[peer(e)] /\ rest[e] = Tail(air[e])
        /\ rpc'[peer(e)] = rpc[peer(e)] /\ rpc'[e] = rpc[e] /\ n = submitted[e]
        /\ submitted' = [submitted EXCEPT ![e] = n] /\ f = Head(air[e])
    BY <1>1, <1>2, <1>3, <1>5, <1>7 DEF f
  <2>7. n \in {submitted[e], submitted[e] + 1}
    OBVIOUS
  <2> HIDE DEF c, n
  <2>8. Done(con[e], g, submitted[e], n, f)
    BY <2>3 DEF c, n
  <2> QED
    BY <1>3, <1>5, <2>2, <2>5, <2>6, <2>7, <2>8, CallFlows
<1> QED
  BY <1>6, <1>7

\* Every step leaves both directions in order.
LEMMA AnyNext ==
    ASSUME EInv, [Next]_vars
    PROVE  EInv' /\ \E e \in End : Forward(e)
<1>1. IInv'
  BY NextKeeps DEF EInv
<1>2. Flows
  <2>1. "A" \in End /\ "B" \in End
    BY DEF End
  <2>2. CASE Connect2_dl_connect
    BY <2>1, <2>2, ThreadFlows
  <2>3. CASE Accept2_insert
    <3>1. rpc'[peer("B")] = rpc[peer("B")] /\ rpc["B"] = "init"
      BY <2>1, <2>3, PeerIs DEF Accept2_insert, EInv, IInv, TypeOK
    <3>2. ~Over("B")
      BY <3>1 DEF Over
    <3> QED
      BY <2>1, <2>3, <3>1, <3>2, StillFlows DEF Accept2_insert
  <2>4. ASSUME NEW e \in End, Opened(e) PROVE Flows
    <3>1. rpc'[peer(e)] = rpc[peer(e)] /\ rpc[e] = "waiting"
      BY <2>4, PeerIs DEF Opened, EInv, IInv, TypeOK
    <3>2. ~Over(e)
      BY <3>1 DEF Over
    <3> QED
      BY <2>4, <3>1, <3>2, StillFlows DEF Opened
  <2>5. ASSUME NEW e \in End, dl_data(e) \/ dl_disconnect(e) \/ timer1(e) \/ timer3(e)
        PROVE  Flows
    BY <2>5, ThreadFlows
  <2>6. ASSUME NEW e \in End, Erased(e) PROVE Flows
    BY <2>6, ErasedFlows
  <2>7. ASSUME NEW e \in End, await_data(e) \/ reader_stops(e) PROVE Flows
    <3>1. /\ con' = con /\ rpc' = rpc /\ air' = air /\ log' = log /\ submitted' = submitted
      BY <2>7 DEF await_data, reader_stops
    <3>2. Over(e) => Over(e)'
      BY <3>1 DEF Over
    <3> QED
      BY <2>7, <3>1, <3>2, StillFlows
  <2>8. ASSUME NEW e \in End, Receive(e) PROVE Flows
    BY <2>8, ReceiveFlows
  <2>9. ASSUME NEW e \in End, Lose(e) PROVE Flows
    <3>1. /\ con' = con /\ rpc' = rpc /\ log' = log /\ submitted' = submitted
          /\ air[e] # <<>> /\ air' = [air EXCEPT ![e] = Tail(@)]
      BY <2>9 DEF Lose
    <3>2. \A x \in End : air'[x] = air[x] \/ (air[x] # <<>> /\ air'[x] = Tail(air[x]))
      BY <3>1 DEF EInv, IInv, TypeOK
    <3>3. Over(e) => Over(e)'
      BY <3>1 DEF Over
    <3> QED
      BY <2>9, <3>1, <3>2, <3>3, StillFlows
  <2>10. CASE UNCHANGED vars
    <3>1. /\ con' = con /\ rpc' = rpc /\ air' = air /\ log' = log /\ submitted' = submitted
      BY <2>10 DEF vars
    <3>2. Over("A") => Over("A")'
      BY <3>1 DEF Over
    <3> QED
      BY <2>1, <3>1, <3>2, StillFlows
  <2> QED
    BY <2>2, <2>3, <2>4, <2>5, <2>6, <2>7, <2>8, <2>9, <2>10 DEF Next
<1>3. EInv'
  BY <1>1, <1>2 DEF EInv, Flows
<1> QED
  BY <1>2, <1>3 DEF Flows

\* The invariant holds before the first step.
LEMMA AnyInit == Init => EInv
<1> SUFFICES ASSUME Init PROVE EInv
  OBVIOUS
<1>1. IInv
  BY InitGood
<1>2. ASSUME NEW e \in End
      PROVE  Plain(con[e]) /\ Streaming(e) /\ con[e].out = <<>> /\ con[e].up = <<>>
  <2>1. /\ peer(e) \in End /\ con[e] = NewConnection /\ con[peer(e)] = NewConnection
        /\ log[peer(e)] = <<>> /\ air[peer(e)] = <<>> /\ submitted[e] = 0
    BY PeerIs DEF Init
  <2>2. Stream(NewConnection, NewConnection, 0, <<>>, 0)
    BY NewGood, StreamNone DEF Fresh
  <2>3. NewConnection.st = "Disconnected" /\ NewConnection.out = <<>> /\ NewConnection.up = <<>>
    BY DEF NewConnection
  <2> QED
    BY <2>1, <2>2, <2>3 DEF Streaming, Plain, Latest
<1> QED
  BY <1>1, <1>2 DEF EInv, Quiet

\* Both directions stay in order, whatever T1.
LEMMA AnyInvariant == Spec => []EInv
<1>1. EInv /\ [Next]_vars => EInv'
  BY AnyNext
<1> QED
  BY <1>1, AnyInit, PTL DEF Spec

\* However early T1 expires the two daemons hand over the data in the order they were
\* submitted in, none twice and none made up: what a daemon that sets the link up anew
\* loses is a gap, never a repetition.
THEOREM OrderedAnyway ==
    ASSUME ~Patient
    PROVE  Spec => DeliversInOrder
<1>1. Init => Abstract!Init
  BY AbstractInit
<1>2. EInv /\ [Next]_vars => [Abstract!Next]_Abstract!vars
  <2>1. ASSUME EInv, [Next]_vars PROVE [Abstract!Next]_Abstract!vars
    <3>1. PICK e \in End : Forward(e)
      BY <2>1, AnyNext
    <3> QED
      BY <3>1, ForwardMaps
  <2> QED
    BY <2>1
<1> QED
  BY <1>1, <1>2, AnyInvariant, PTL DEF Spec, DeliversInOrder, Abstract!Spec
==============================================================================
