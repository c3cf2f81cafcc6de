--------------------------- MODULE ConnectionProofs ---------------------------
(***************************************************************************)
(* That one Connection keeps its window, its queues, its timers and its    *)
(* retry counter consistent, for every modulus, window, retry limit and    *)
(* payload set the assumptions allow.  NextKeeps has one step per action   *)
(* of Connection.                                                          *)
(***************************************************************************)
EXTENDS Connection, ConnectionLemmas

\* The inductive invariant.
IInv ==
    /\ Good(con)
    /\ spent \in BOOLEAN /\ unwound \in BOOLEAN
    /\ con.st = "Disconnected" /\ ~spent => Fresh(con)

USE ModulusAssumption, WindowAssumption, RetryAssumption

------------------------------------------------------------------------------
\* One call: a handler was given b, which is con with its hands empty and the
\* expired timer stopped, and left d; the poll does the rest.
Serves(b, d) ==
    /\ b.st = con.st /\ (Fresh(con) => Fresh(b))
    /\ Handled(b, d) /\ Passes(start(con), d)
    /\ Call(maybe_change_state(con, d))

\* The parts of Serves, gathered.
LEMMA ServesIs ==
    ASSUME NEW c, c = start(con), NEW b, NEW d, b.st = con.st, Fresh(con) => Fresh(b),
           Handled(b, d), Passes(c, d), Call(maybe_change_state(con, d))
    PROVE  \E x, y : Serves(x, y)
<1>1. Serves(b, d)
  BY DEF Serves
<1> QED
  BY <1>1

\* A handled call keeps the invariant: b is the connection the handler was
\* given, d what it left.
LEMMA CallKeeps ==
    ASSUME IInv, NEW b, NEW d, Serves(b, d)
    PROVE  /\ IInv' /\ Matches(con')
           /\ SameStore(d, con') /\ con'.st = d.st /\ (SaysUa(d) => SaysUa(con'))
<1>0. /\ b.st = con.st /\ (Fresh(con) => Fresh(b))
      /\ Handled(b, d) /\ Call(maybe_change_state(con, d)) /\ Silent(d)
  BY DEF Serves, Passes
<1>1. Ready(d) /\ ~d.aborted
  BY <1>0 DEF Handled, Ready
<1>2. con' = dl_data_poll(d)
  BY <1>0, <1>1 DEF Call, maybe_change_state
<1>3. Good(dl_data_poll(d)) /\ dl_data_poll(d).st = d.st
      /\ (d.st = "Disconnected" => dl_data_poll(d) = d)
  BY <1>1, PollGood
<1>4. Good(con')
  BY <1>2, <1>3
<1>5. spent' \in BOOLEAN /\ unwound' \in BOOLEAN
  BY <1>0 DEF IInv, Call
<1>6. con'.st = "Disconnected" /\ ~spent' => Fresh(con')
  <2>1. SUFFICES ASSUME con'.st = "Disconnected", ~spent' PROVE Fresh(con')
    OBVIOUS
  <2>2. con.st = "Disconnected" /\ ~spent
    BY <1>0, <1>2, <2>1 DEF Call
  <2>3. Fresh(b) /\ b.st = "Disconnected"
    BY <1>0, <2>2 DEF IInv
  <2>4. d.st = "Disconnected" /\ con' = d
    BY <1>2, <1>3, <2>1
  <2> QED
    BY <1>0, <2>3, <2>4 DEF Handled
<1>7. Matches(con') /\ SameStore(d, con') /\ (SaysUa(d) => SaysUa(con'))
  BY <1>0, <1>1, <1>2, PollTells
<1>8. IInv'
  BY <1>4, <1>5, <1>6 DEF IInv
<1> QED
  BY <1>2, <1>3, <1>7, <1>8

\* A new connection satisfies the invariant.
LEMMA InitGood == Init => IInv
<1> SUFFICES ASSUME Init PROVE IInv
  OBVIOUS
<1>1. <<>> \in Seq(Payload) /\ <<>> \in Seq(Frame) /\ Len(<<>>) = 0
  OBVIOUS
<1>2. con \in ConnectionType
  BY <1>1 DEF Init, NewConnection, ConnectionType, States
<1>3. Good(con)
  BY <1>2 DEF Init, NewConnection, Good, Versioned, Window, Stored, Timed,
              AwaitsPeer, can_receive_data, ReceivingStates
<1> QED
  BY <1>3 DEF Init, NewConnection, IInv, Fresh

\* Every action is one handler and the poll after it.
LEMMA NextServes ==
    ASSUME IInv, Next
    PROVE  \E b, d : Serves(b, d)
<1> DEFINE c == start(con)
<1>0. c = start(con)
  OBVIOUS
<1>1. Good(c) /\ Silent(c) /\ c.st = con.st /\ (Fresh(con) => Fresh(c))
  BY StartGood, StartSilent DEF IInv
<1>2. MayComeUp /\ con.st = "Disconnected" => Fresh(c)
  BY <1>1 DEF MayComeUp, IInv
<1> HIDE DEF c
<1>3. CASE sabm
  <2>1. PICK pf \in BOOLEAN : Call(maybe_change_state(con, dispatch_sabm(c, pf)))
    BY <1>3 DEF sabm, con_sabm, c
  <2>2. Handled(c, dispatch_sabm(c, pf))
    <3>1. CASE c.st = "Disconnected"
      BY <1>1, <1>2, <1>3, <3>1, SabmHandled DEF sabm, dispatch_sabm
    <3>2. CASE c.st = "Connected"
      BY <1>1, <3>2, ConnectedSabmHandled DEF dispatch_sabm
    <3>3. CASE c.st \notin {"Disconnected", "Connected"}
      BY <1>1, <3>3, GoodReady DEF dispatch_sabm, Handled
    <3> QED
      BY <3>1, <3>2, <3>3
  <2> QED
    BY <1>1, <2>1, <2>2, SabmPasses, ServesIs, <1>0
<1>4. CASE sabme
  <2>1. PICK pf \in BOOLEAN : Call(maybe_change_state(con, dispatch_sabme(c, pf)))
    BY <1>4 DEF sabme, con_sabme, c
  <2>2. Handled(c, dispatch_sabme(c, pf))
    <3>1. CASE c.st = "Disconnected"
      BY <1>1, <1>2, <1>4, <3>1, SabmHandled DEF sabme, dispatch_sabme
    <3>2. CASE c.st # "Disconnected"
      BY <1>1, <3>2, GoodReady DEF dispatch_sabme, Handled
    <3> QED
      BY <3>1, <3>2
  <2> QED
    BY <1>1, <2>1, <2>2, SabmPasses, ServesIs, <1>0
<1>5. CASE ua
  <2>1. PICK pf \in BOOLEAN : Call(maybe_change_state(con, dispatch_ua(c, pf)))
    BY <1>5 DEF ua, con_ua, c
  <2> QED
    BY <1>1, <2>1, UaHandled, UaPasses, ServesIs, <1>0
<1>6. CASE ui
  <2>1. PICK pf \in BOOLEAN : Call(maybe_change_state(con, dispatch_ui(c, pf)))
    BY <1>6 DEF ui, con_ui, c
  <2> QED
    BY <1>1, <2>1, UiHandled, UiPasses, ServesIs, <1>0
<1>7. CASE dm
  <2>1. Call(maybe_change_state(con, dispatch_dm(c)))
    BY <1>7 DEF dm, con_dm, c
  <2> QED
    BY <1>1, <2>1, DmHandled, DmPasses, ServesIs, <1>0
<1>8. CASE disc
  <2>1. PICK pf \in BOOLEAN : Call(maybe_change_state(con, dispatch_disc(c, pf)))
    BY <1>8 DEF disc, con_disc, c
  <2> QED
    BY <1>1, <2>1, DiscHandled, DiscPasses, ServesIs, <1>0
<1>9. CASE rr
  <2>1. PICK pf \in BOOLEAN, cr \in BOOLEAN, n \in SeqNo :
           Call(maybe_change_state(con, dispatch_rr(c, Rr(pf, n, cr))))
    BY <1>9 DEF rr, con_rr, c
  <2>2. Rr(pf, n, cr).poll \in BOOLEAN /\ Rr(pf, n, cr).command_response \in BOOLEAN
    BY DEF Rr
  <2> QED
    BY <1>1, <2>1, <2>2, RrHandled, RrPasses, ServesIs, <1>0
<1>10. CASE iframe
  <2>1. PICK pf \in BOOLEAN, cr \in BOOLEAN, s \in SeqNo, n \in SeqNo, p \in Payload :
           Call(maybe_change_state(con, dispatch_iframe(c,
                   [Iframe(s, n, pf, p) EXCEPT !.command_response = cr])))
    BY <1>10 DEF iframe, con_iframe, c
  <2> DEFINE f == [Iframe(s, n, pf, p) EXCEPT !.command_response = cr]
  <2>2. f.poll \in BOOLEAN /\ f.command_response \in BOOLEAN /\ f.payload \in Payload
    BY DEF Iframe
  <2> HIDE DEF f
  <2>3. Handled(c, dispatch_iframe(c, f))
    BY <1>1, <2>2, IframeHandled
  <2>4. Passes(c, dispatch_iframe(c, f))
    BY <1>1, <2>2, IframePasses
  <2> QED
    BY <1>0, <1>1, <2>1, <2>3, <2>4, ServesIs DEF f
<1>11. CASE dl_connect
  <2>1. Call(maybe_change_state(con, dispatch_dl_connect(c)))
    BY <1>11 DEF dl_connect, con_dl_connect, c
  <2>2. c.st = "Disconnected" => Fresh(c)
    BY <1>1, <1>2, <1>11 DEF dl_connect
  <2> QED
    BY <1>1, <2>1, <2>2, DlConnectHandled, DlConnectPasses, ServesIs, <1>0
<1>12. CASE dl_data
  <2>1. PICK p \in Payload : Call(maybe_change_state(con, dispatch_dl_data(c, p)))
    BY <1>12 DEF dl_data, con_dl_data, c
  <2> QED
    BY <1>1, <2>1, DlDataHandled, DlDataPasses, ServesIs, <1>0
<1>13. CASE dl_disconnect
  <2>1. Call(maybe_change_state(con, dispatch_dl_disconnect(c)))
    BY <1>13 DEF dl_disconnect, con_dl_disconnect, c
  <2> QED
    BY <1>1, <2>1, DlDisconnectHandled, DlDisconnectPasses, ServesIs, <1>0
<1>14. CASE timer1_tick
  <2> DEFINE b == [c EXCEPT !.t1 = FALSE]
  <2>1. Call(maybe_change_state(con, dispatch_timer1_tick(b)))
    BY <1>14 DEF timer1_tick, con_timer1_tick, c
  <2>2. c.t1
    BY <1>14 DEF timer1_tick, c, start, IInv, Good, ConnectionType
  <2>3. b.st = con.st /\ (Fresh(con) => Fresh(b))
    BY <1>1 DEF Fresh, Good, ConnectionType
  <2>4. Handled(b, dispatch_timer1_tick(b))
    BY <1>1, <2>2, Timer1Handled
  <2>5. Passes(c, dispatch_timer1_tick(b))
    BY <1>1, Timer1Passes
  <2> HIDE DEF b
  <2> QED
    BY <1>0, <2>1, <2>3, <2>4, <2>5, ServesIs
<1>15. CASE timer3_tick
  <2> DEFINE b == [c EXCEPT !.t3 = FALSE]
  <2>1. Call(maybe_change_state(con, b))
    BY <1>15 DEF timer3_tick, con_timer3_tick, c
  <2>2. b.st = con.st /\ (Fresh(con) => Fresh(b))
    BY <1>1 DEF Fresh, Good, ConnectionType
  <2>3. Handled(b, b)
    BY <1>1, Timer3Handled
  <2>4. Passes(c, b)
    BY <1>1, Timer3Passes
  <2> HIDE DEF b
  <2> QED
    BY <1>0, <2>1, <2>2, <2>3, <2>4, ServesIs
<1> QED
  BY <1>3, <1>4, <1>5, <1>6, <1>7, <1>8, <1>9, <1>10, <1>11, <1>12, <1>13,
     <1>14, <1>15 DEF Next

\* Every action keeps the invariant, and what it sends agrees with the store.
LEMMA NextKeeps ==
    /\ IInv /\ [Next]_vars => IInv'
    /\ IInv /\ Matches(con) /\ [Next]_vars => Matches(con')
<1>1. ASSUME IInv, Next PROVE IInv' /\ Matches(con')
  BY <1>1, NextServes, CallKeeps
<1>2. CASE UNCHANGED vars
  BY <1>2 DEF vars, IInv
<1> QED
  BY <1>1, <1>2

\* Every action takes from the store what it acknowledges, unless it answers a
\* SABM.
LEMMA NextLoses ==
    ASSUME IInv, Next, can_receive_data(con), can_receive_data(con'), ~SaysUa(con')
    PROVE  AcksOnly(con, con')
<1> DEFINE c == start(con)
<1>1. PICK b, d : Serves(b, d)
  BY NextServes
<1>2. SameStore(d, con') /\ con'.st = d.st /\ (SaysUa(d) => SaysUa(con'))
  BY <1>1, CallKeeps
<1>3. Passes(c, d) /\ c.st = con.st
  BY <1>1, StartGood DEF Serves, IInv
<1>4. SameStore(con, c) /\ c.vs = con.vs /\ c.modulus = con.modulus
  BY DEF start, SameStore, IInv, Good, ConnectionType
<1> HIDE DEF c
<1>5. AcksOnly(c, d)
  BY <1>2, <1>3 DEF Passes, can_receive_data
<1> QED
  BY <1>2, <1>4, <1>5, AcksOnlySame, AcksOnlyFrom

\* The inductive invariant: the window, the two queues, the timers and the retry
\* counter of a connection fit each other after every call.
THEOREM Invariance == Spec => []IInv
<1>1. Init => IInv
  BY InitGood
<1>2. IInv /\ [Next]_vars => IInv'
  BY NextKeeps
<1> QED
  BY <1>1, <1>2, PTL DEF Spec

------------------------------------------------------------------------------
\* Every field of a connection keeps its type, and V(S), V(A), V(R) stay on the
\* circle of the link's modulus, whatever arrives (seqpacket_con.h).
THEOREM TypeCorrect == Spec => []TypeOK
<1>1. IInv => TypeOK
  BY DEF IInv, Good, Window, Versioned, can_receive_data, ReceivingStates, TypeOK, SequenceOK
<1> QED
  BY <1>1, Invariance, PTL

\* No order of frames, calls and timer expiries fails an assert() of update_ack
\* or invoke_retransmission, whose failure would stop the daemon.
THEOREM NoAssertionFails == Spec => []AssertionsHold
<1>1. IInv => AssertionsHold
  BY DEF IInv, Good, AssertionsHold
<1> QED
  BY <1>1, Invariance, PTL

\* dl_data_poll and the acknowledgements never leave more than k I frames
\* outstanding.
THEOREM WindowNeverOverruns == Spec => []WindowRespected
<1>1. IInv => WindowRespected
  BY DEF IInv, Good, Window, WindowRespected
<1> QED
  BY <1>1, Invariance, PTL

\* The resend queue of a link that is up is its outstanding frames followed by
\* its transmit queue.
THEOREM StoreMatchesWindow == Spec => []StoreIsWindowPlusQueue
<1>1. IInv => StoreIsWindowPlusQueue
  BY DEF IInv, Good, Stored, TailOf, StoreIsWindowPlusQueue
<1> QED
  BY <1>1, Invariance, PTL

\* A connection that waits for its peer has T1 running.
THEOREM WaitingIsTimed == Spec => []T1Supervises
<1>1. IInv => T1Supervises
  BY DEF IInv, Good, Timed, T1Supervises
<1> QED
  BY <1>1, Invariance, PTL

\* T1 and T3 never run together.
THEOREM OneTimerAtATime == Spec => []TimersExclusive
<1>1. IInv => TimersExclusive
  BY DEF IInv, Good, Timed, TimersExclusive
<1> QED
  BY <1>1, Invariance, PTL

\* rc never passes n2, so that every comparison for equality with n2 is reached.
THEOREM RetriesAreBounded == Spec => []RetryBudget
<1>1. IInv => RetryBudget
  BY DEF IInv, Good, RetryBudget
<1> QED
  BY <1>1, Invariance, PTL

\* Whatever was acknowledged, retransmitted or set up anew before: an I frame
\* goes out with the payload kept under its number.
THEOREM FramesCarryTheirPayload == Spec => []FramesMatchStore
<1>1. Init => IInv /\ Matches(con)
  BY InitGood DEF Init, NewConnection, Matches
<1>2. (IInv /\ Matches(con)) /\ [Next]_vars => (IInv /\ Matches(con))'
  BY NextKeeps
<1>3. Matches(con) => FramesMatchStore
  BY DEF Matches, FramesMatchStore
<1> QED
  BY <1>1, <1>2, <1>3, PTL DEF Spec

\* While a link stays up nothing leaves the resend queue but what the peer
\* acknowledged of the frames outstanding.
THEOREM NothingIsLost == Spec => StoreLosesOnlyAcked
<1>1. IInv /\ [Next]_vars => [LosesOnlyAcked]_vars
  <2>1. SUFFICES ASSUME IInv, Next PROVE LosesOnlyAcked
    OBVIOUS
  <2> DEFINE same_link == can_receive_data(con) /\ can_receive_data(con')
                          /\ \A i \in DOMAIN con'.out : con'.out[i].type # "ua"
  <2>2. same_link => AcksOnly(con, con')
    BY <2>1, NextLoses DEF SaysUa
  <2> QED
    BY <2>2 DEF LosesOnlyAcked, AcksOnly
<1> QED
  BY <1>1, Invariance, PTL DEF Spec, StoreLosesOnlyAcked
==============================================================================
