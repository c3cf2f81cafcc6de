------------------------------ MODULE Connection ------------------------------
(***************************************************************************)
(* One Connection object (src/src/seqpacket_con.h) in the hands of any     *)
(* caller that keeps to its interface: frames of every kind and with every *)
(* sequence number arrive, the application connects, sends and             *)
(* disconnects, and a running timer expires, all in any order.  The calls  *)
(* are atomic: ConnEntry::apply and ConnEntry::wait hold the entry's mutex *)
(* around every one of them.                                               *)
(***************************************************************************)
EXTENDS ConnectionState

CONSTANT
    MaxStore    \* bound: frames the application leaves unacknowledged

ASSUME BoundAssumption == MaxStore \in Nat

VARIABLES
    con,        \* the connection
    spent,      \* it has been up and has gone down again
    unwound     \* an exception took the application's RPC away

vars == <<con, spent, unwound>>

Init == con = NewConnection /\ spent = FALSE /\ unwound = FALSE

\* Any number a frame of either version can carry.
SeqNo == 0 .. (IF Modulus > ExtModulus THEN Modulus ELSE ExtModulus) - 1

\* Every Connect and Accept makes an object of its own, and the key of a SABM
\* finds only the entry of an Accept that waits, so an object that went down is
\* not brought up a second time.  Left out is the SABM whose entry was found
\* before Accept2 re-keyed it and which is applied after the link went down
\* ("held" of SeqPacketTable).
MayComeUp == con.st = "Disconnected" => ~spent

\* One call returns and leaves the connection as c.
Call(c) ==
    /\ ~con.aborted
    /\ con' = c
    /\ spent' = (spent \/ (con.st # "Disconnected" /\ c.st = "Disconnected"))
    /\ UNCHANGED unwound

------------------------------------------------------------------------------
(* A frame arrives.                                                        *)

sabm   == MayComeUp /\ \E pf \in BOOLEAN : Call(con_sabm(con, pf))
sabme  == MayComeUp /\ \E pf \in BOOLEAN : Call(con_sabme(con, pf))
ua     == \E pf \in BOOLEAN : Call(con_ua(con, pf))
ui     == \E pf \in BOOLEAN : Call(con_ui(con, pf))
dm     == Call(con_dm(con))
disc   == \E pf \in BOOLEAN : Call(con_disc(con, pf))
rr     == \E pf, cr \in BOOLEAN, n \in SeqNo : Call(con_rr(con, Rr(pf, n, cr)))
iframe == \E pf, cr \in BOOLEAN, s, n \in SeqNo, p \in Payload :
             Call(con_iframe(con, [Iframe(s, n, pf, p)
                                     EXCEPT !.command_response = cr]))

Receive == sabm \/ sabme \/ ua \/ ui \/ dm \/ disc \/ rr \/ iframe

------------------------------------------------------------------------------
(* The application calls.                                                  *)

dl_connect    == MayComeUp /\ ~unwound /\ Call(con_dl_connect(con))
dl_disconnect == ~unwound /\ Call(con_dl_disconnect(con))
dl_data ==
    /\ ~unwound
    /\ Len(con.iframe_resend_queue) < MaxStore
    /\ \E p \in Payload : Call(con_dl_data(con, p))

\* send_ throws (SeqPacketImpl::send: the router's Send RPC failed).  The
\* exception leaves the handler where it was thrown; Connect() and Accept()
\* catch it, and the connection lives on without an application while the
\* reader thread is being joined.
Unwind(c) ==
    /\ ~unwound /\ ~con.aborted
    /\ con' = c
    /\ unwound' = TRUE
    /\ UNCHANGED spent

\* The poll of dl_data throws at one of the frames it sends: that frame has
\* been taken off the queue, and vs does not count it.
dl_data_throws ==
    /\ Len(con.iframe_resend_queue) < MaxStore
    /\ \E p \in Payload :
          LET c == dispatch_dl_data(start(con), p)
          IN  /\ c.st \in ReceivingStates
              /\ \E n \in 1 .. sendable(c) :
                    Unwind([transmit(c, n - 1)
                              EXCEPT !.iframe_queue = Tail(@)])

\* send_disc throws: the queues are cleared and rc is 0, the state stays.
dl_disconnect_throws ==
    /\ con.st \in ReceivingStates
    /\ Unwind([clear_iframe_queue(start(con)) EXCEPT !.rc = 0])

------------------------------------------------------------------------------
(* A running timer expires while a thread waits on the entry.              *)

timer1_tick == con.t1 /\ Call(con_timer1_tick(con))
timer3_tick == con.t3 /\ Call(con_timer3_tick(con))

Next ==
    \/ sabm \/ sabme \/ ua \/ ui \/ dm \/ disc \/ rr \/ iframe
    \/ dl_connect \/ dl_data \/ dl_disconnect
    \/ timer1_tick \/ timer3_tick

Spec == Init /\ [][Next]_vars

\* The same with a router that refuses frames now and then.
FailingSpec ==
    Init /\ [][Next \/ dl_data_throws \/ dl_disconnect_throws]_vars

------------------------------------------------------------------------------
(* Properties.                                                             *)

\* The sequence variables stay on the circle of the link's modulus.
SequenceOK ==
    can_receive_data(con) => /\ con.modulus # 0
                             /\ {con.vs, con.va, con.vr} \subseteq 0 .. con.modulus - 1

\* Every field of the connection has its type.
TypeOK ==
    /\ con \in ConnectionType
    /\ spent \in BOOLEAN /\ unwound \in BOOLEAN
    /\ SequenceOK

\* No frame, no call and no timer makes one of the assert()s of update_ack and
\* invoke_retransmission fail: the resend queue always holds what is being
\* acknowledged or retransmitted.
AssertionsHold == ~con.aborted

\* Acknowledgements can only be correct if the window is never wider than k:
\* one frame more and a full window looks like an empty one modulo 8.
WindowRespected == can_receive_data(con) => Outstanding(con) <= K

\* While the link is up the resend queue is exactly the frames that are out
\* plus the frames that wait, and the transmit queue is its tail: a
\* retransmission (which copies one queue over the other) neither skips nor
\* repeats a frame, whatever window is open.
StoreIsWindowPlusQueue ==
    LET store == con.iframe_resend_queue
        n == Outstanding(con)
    IN  can_receive_data(con) => /\ Len(store) >= n
                                 /\ con.iframe_queue = SubSeq(store, n + 1, Len(store))

\* An I frame on the air carries the payload the resend queue keeps under its
\* sequence number, the first time it is sent and every time after.
FramesMatchStore ==
    \A i \in DOMAIN con.out :
        LET f == con.out[i]
        IN  f.type = "iframe" =>
               /\ ahead(con, con.va, f.ns) < Len(con.iframe_resend_queue)
               /\ f.payload = con.iframe_resend_queue[
                                ahead(con, con.va, f.ns) + 1]

\* Whenever the connection waits for its peer (an answer to SABM or to an
\* enquiry, or the acknowledgement of an I frame), T1 is running: no lost frame
\* leaves it waiting for ever.  AwaitingRelease is not covered, its T1 expires
\* unhandled.
T1Supervises == AwaitsPeer(con) => con.t1

\* T1 and T3 never run together.
TimersExclusive == ~(con.t1 /\ con.t3)

\* The retry counter never passes n2: it is compared with = and # only, so one
\* step too far would retry for ever.
RetryBudget == con.rc <= con.n2

\* While a link stays up, the resend queue loses a frame only by the
\* acknowledgement that moves va past it, in order, and va only moves over
\* frames that were sent; a UA or a reset of the sequence numbers ends the link.
LosesOnlyAcked ==
    LET n == ahead(con, con.va, con'.va)
        old == con.iframe_resend_queue
        new == con'.iframe_resend_queue
        same_link == can_receive_data(con) /\ can_receive_data(con') /\ \A i \in DOMAIN con'.out :
                                               con'.out[i].type # "ua"
    IN  same_link => /\ n <= Outstanding(con)
                     /\ Len(old) - n <= Len(new)
                     /\ SubSeq(old, n + 1, Len(old)) =
                        SubSeq(new, 1, Len(old) - n)

StoreLosesOnlyAcked == [][LosesOnlyAcked]_vars
==============================================================================
