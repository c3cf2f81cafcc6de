--------------------------------- MODULE Link ---------------------------------
(***************************************************************************)
(* Two seqpacket daemons (src/src/seqpacket.cc) with one link between      *)
(* them: end A runs the Connect RPC, end B the Accept RPC, each with the   *)
(* reader thread the RPC starts, packet_callback for the frames the router *)
(* brings, and the timers that ConnEntry::wait triggers.  The radio keeps  *)
(* the order of the frames and may lose any of them.                       *)
(*                                                                         *)
(* The payloads an end submits are numbered from 1, so a payload names the *)
(* datum.  One ConnEntry per end: what two entries of one daemon do to     *)
(* each other is not modelled here.                                        *)
(***************************************************************************)
EXTENDS ConnectionState, FiniteSets

CONSTANTS
    DataA, DataB,   \* bound: data the application at A, at B submits
    AirCap,         \* bound: frames on the air towards one end
    Patient         \* does T1 outlast every round trip?

ASSUME LinkBoundAssumption ==
    /\ DataA \in Nat /\ DataB \in Nat /\ AirCap \in Nat \ {0}
    /\ \A d \in 1 .. DataA : d \in Payload
    /\ \A d \in 1 .. DataB : d \in Payload
ASSUME PatientAssumption == Patient \in BOOLEAN

End == {"A", "B"}
peer(e) == IF e = "A" THEN "B" ELSE "A"
MaxData(e) == IF e = "A" THEN DataA ELSE DataB

VARIABLES
    con,        \* con[e]: ConnEntry::con_ of end e
    rpc,        \* rpc[e]: where the RPC's own thread stands
    reader,     \* reader[e]: the reader thread runs
    received,   \* received[e]: ConnEntry::received_
    air,        \* air[e]: frames on their way to e, in order
    submitted,  \* submitted[e]: data e's application has written
    log         \* log[e]: everything handed to e's receive callback

vars == <<con, rpc, reader, received, air, submitted, log>>

\* "init" before the RPC; "waiting" in await_state_not; "open" in the loop that
\* reads from the stream; "closing" in receive_thread.join(); "done" once the
\* entry is erased.
RpcStates == {"init", "waiting", "open", "closing", "done"}

Init ==
    /\ con = [e \in End |-> NewConnection]
    /\ rpc = [e \in End |-> "init"]
    /\ reader = [e \in End |-> FALSE]
    /\ received = [e \in End |-> <<>>]
    /\ air = [e \in End |-> <<>>]
    /\ submitted = [e \in End |-> 0]
    /\ log = [e \in End |-> <<>>]

------------------------------------------------------------------------------
(* ConnEntry::apply and the two callbacks: frames go to the router and so  *)
(* on the air, which loses those it has no room for; deliver() appends to  *)
(* received_.                                                              *)

Room(s) == SubSeq(s, 1, IF Len(s) < AirCap THEN Len(s) ELSE AirCap)

\* End e's connection becomes c; "onair" is what is on the air when it does.
Apply(e, c, onair) ==
    /\ con' = [con EXCEPT ![e] = start(c)]
    /\ air' = [onair EXCEPT ![peer(e)] = Room(@ \o c.out)]
    /\ received' = [received EXCEPT ![e] = @ \o c.up]
    /\ log' = [log EXCEPT ![e] = @ \o c.up]

------------------------------------------------------------------------------
(* The RPC threads.                                                        *)

Connect2_dl_connect ==
    /\ rpc["A"] = "init"
    /\ rpc' = [rpc EXCEPT !["A"] = "waiting"]
    /\ Apply("A", con_dl_connect(con["A"]), air)
    /\ UNCHANGED <<reader, submitted>>

Accept2_insert ==
    /\ rpc["B"] = "init"
    /\ rpc' = [rpc EXCEPT !["B"] = "waiting"]
    /\ UNCHANGED <<con, reader, received, air, submitted, log>>

\* The state await_state_not() waits to see left.
awaited(e) == IF e = "A" THEN "AwaitingConnection" ELSE "Disconnected"

\* await_state_not returns.  Accept2 then moves its entry from {src, ""} to
\* {src, dst}; both tell the client and start the reader thread.
Opened(e) ==
    /\ rpc[e] = "waiting" /\ con[e].st # awaited(e)
    /\ rpc' = [rpc EXCEPT ![e] = "open"]
    /\ reader' = [reader EXCEPT ![e] = TRUE]
    /\ UNCHANGED <<con, received, air, submitted, log>>

\* The application writes a datum, the RPC's loop reads it; also after the reader
\* has stopped, until its TryCancel ends the loop.
dl_data(e) ==
    /\ rpc[e] = "open"
    /\ submitted[e] < MaxData(e)
    /\ submitted' = [submitted EXCEPT ![e] = @ + 1]
    /\ Apply(e, con_dl_data(con[e], submitted[e] + 1), air)
    /\ UNCHANGED <<rpc, reader>>

\* The loop ends: the application closed the stream, or the reader thread's
\* TryCancel did.
dl_disconnect(e) ==
    /\ rpc[e] = "open"
    /\ rpc' = [rpc EXCEPT ![e] = "closing"]
    /\ Apply(e, con_dl_disconnect(con[e]), air)
    /\ UNCHANGED <<reader, submitted>>

\* The reader is joined and the entry erased.
Erased(e) ==
    /\ rpc[e] = "closing" /\ ~reader[e]
    /\ rpc' = [rpc EXCEPT ![e] = "done"]
    /\ con' = [con EXCEPT ![e] = NewConnection]
    /\ received' = [received EXCEPT ![e] = <<>>]
    /\ UNCHANGED <<reader, air, submitted, log>>

------------------------------------------------------------------------------
(* The reader thread: await_data hands one datum to the stream, or ends    *)
(* because the connection is down, with received_ left as it is.           *)

await_data(e) ==
    /\ reader[e] /\ can_receive_data(con[e]) /\ received[e] # <<>>
    /\ received' = [received EXCEPT ![e] = Tail(@)]
    /\ UNCHANGED <<con, rpc, reader, air, submitted, log>>

reader_stops(e) ==
    /\ reader[e] /\ ~can_receive_data(con[e])
    /\ reader' = [reader EXCEPT ![e] = FALSE]
    /\ UNCHANGED <<con, rpc, received, air, submitted, log>>

------------------------------------------------------------------------------
(* Frames.                                                                 *)

\* The entry is found under {dst, ""} for a SABM and under {dst, src} for
\* anything else; Accept2 changes the key when it returns from its wait.
routed(e, f) ==
    IF e = "B" /\ rpc[e] = "waiting"
    THEN f.type = "sabm"
    ELSE f.type # "sabm" /\ rpc[e] \in {"waiting", "open", "closing"}

\* What packet_callback makes of a frame; it passes on no other types.
packet_callback(c, f) ==
    CASE f.type = "ua"     -> con_ua(c, f.poll)
      [] f.type = "iframe" -> con_iframe(c, f)
      [] f.type = "rr"     -> con_rr(c, f)
      [] f.type = "disc"   -> con_disc(c, f.poll)
      [] f.type = "sabm"   -> con_sabm(c, f.poll)
      [] OTHER -> c

Receive(e) ==
    /\ air[e] # <<>>
    /\ LET f == Head(air[e])
           rest == [air EXCEPT ![e] = Tail(@)]
       IN  IF routed(e, f)
           THEN Apply(e, packet_callback(con[e], f), rest)
           ELSE air' = rest /\ UNCHANGED <<con, received, log>>
    /\ UNCHANGED <<rpc, reader, submitted>>

Lose(e) ==
    /\ air[e] # <<>>
    /\ air' = [air EXCEPT ![e] = Tail(@)]
    /\ UNCHANGED <<con, rpc, reader, received, submitted, log>>

------------------------------------------------------------------------------
(* Timers, triggered by a thread that is inside ConnEntry::wait: the RPC's *)
(* until the link is up, then the reader.                                  *)

waits(e) == rpc[e] = "waiting" \/ reader[e]

timer1(e) ==
    /\ waits(e) /\ con[e].t1
    /\ Patient => \A f \in End : air[f] = <<>>
    /\ Apply(e, con_timer1_tick(con[e]), air)
    /\ UNCHANGED <<rpc, reader, submitted>>

timer3(e) ==
    /\ waits(e) /\ con[e].t3
    /\ Apply(e, con_timer3_tick(con[e]), air)
    /\ UNCHANGED <<rpc, reader, submitted>>

Next ==
    \/ Connect2_dl_connect \/ Accept2_insert
    \/ \E e \in End :
          \/ Opened(e) \/ dl_data(e) \/ dl_disconnect(e) \/ Erased(e)
          \/ await_data(e) \/ reader_stops(e)
          \/ Receive(e) \/ Lose(e)
          \/ timer1(e) \/ timer3(e)

Spec == Init /\ [][Next]_vars

\* Threads run, the router hands on the frames that were not lost, and a
\* timer that stays due expires.  The application owes nothing: it need not submit
\* nor close.
Fairness ==
    \A e \in End : WF_vars(Opened(e)) /\ WF_vars(reader_stops(e))
                   /\ WF_vars(Receive(e))
                   /\ WF_vars(timer1(e)) /\ WF_vars(timer3(e))

FairSpec == Spec /\ Fairness

------------------------------------------------------------------------------
(* Properties.                                                             *)

Has(s, d) == \E i \in DOMAIN s : s[i] = d

\* Every variable of the two daemons and of the air has its type.
TypeOK ==
    /\ con \in [End -> ConnectionType]
    /\ rpc \in [End -> RpcStates]
    /\ reader \in [End -> BOOLEAN]
    /\ received \in [End -> Seq(Payload)]
    /\ air \in [End -> Seq(Frame)]
    /\ submitted \in [End -> Nat]
    /\ log \in [End -> Seq(Payload)]

\* No order of frames, losses, calls and timers brings a daemon down on an
\* assert().
AssertionsHold == \A e \in End : ~con[e].aborted

\* The data B's application is given implement the abstract link: in order, at
\* most once, nothing made up.  Data may be missing in the middle: dl_data is
\* dropped without a word while the link is being set up anew.
Abstract == INSTANCE OrderedDelivery WITH
    MaySkip   <- ~Patient,
    delivered <- [e \in End |-> log[peer(e)]],
    live      <- [e \in End |-> ~(rpc[e] \in {"closing", "done"}
                                  \/ (rpc[e] = "open"
                                      /\ con[e].st = "Disconnected"))]

DeliversInOrder == Abstract!Spec

\* With a T1 longer than a round trip, and if the radio stops losing frames, every
\* datum submitted on a live link is delivered, or the link goes down and the
\* application's stream with it.  An earlier T1 refutes it without any loss: a
\* repeated SABM is answered by a second UA, which sets the link up anew under
\* the application, and what dl_data drops meanwhile never arrives.
DeliversOrBreaks ==
    <>[][~\E e \in End : Lose(e)]_vars => Abstract!Liveness

\* Connect() answers its client: a link or N2 unanswered SABMs end the wait,
\* however many frames are lost.
ConnectReturns == rpc["A"] = "waiting" ~> rpc["A"] # "waiting"

\* Once nothing arrives any more, an end does not wait for its peer for ever: T1
\* starts the enquiries, and the last of them brings the link down.
SilenceIsNoticed ==
    \A e \in End : <>[][~Receive(e)]_vars
                     => <>[](waits(e) => ~AwaitsPeer(con[e]))

\* With a T1 longer than a round trip, a datum that has left the resend queue of
\* a live link has arrived at the other end: an acknowledgement is never for
\* data that a reset, a stale number or a lost frame swallowed.
AcknowledgedIsDelivered ==
    \A e \in End : can_receive_data(con[e]) =>
        \A d \in 1 .. submitted[e] :
            Has(con[e].iframe_resend_queue, d) \/ Has(log[peer(e)], d)

\* With a T1 longer than a round trip, a link that is up is never set up anew:
\* no sequence number is out of range and no UA comes unasked.
NeverReset ==
    \A e \in End : rpc[e] = "open" => con[e].st # "AwaitingConnection"

\* What T3 is there for, "idle supervision (keep alive)": an end whose peer is
\* gone finds out, also when it has nothing to send.
IdleIsSupervised ==
    \A e \in End :
        rpc[e] = "open" /\ rpc[peer(e)] = "done" ~> ~can_receive_data(con[e])

\* Connect2 tells its client that it was successful only of a connection that
\* is up.
ConnectedWhenTold ==
    [][rpc["A"] = "waiting" /\ rpc'["A"] = "open"
         => can_receive_data(con["A"])]_vars
==============================================================================
