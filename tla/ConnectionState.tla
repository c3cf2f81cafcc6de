--------------------------- MODULE ConnectionState ---------------------------
(***************************************************************************)
(* The AX.25 connection state machine of src/src/seqpacket_con.{h,cc} as   *)
(* operators on one connection record.  A record plays the part of a       *)
(* Connection, its ConnectionData and its current ConnectionState object;  *)
(* an operator is a member function and keeps the name the source gives    *)
(* it.  The operators of the last section are the public members of        *)
(* Connection: they run the handler of the current state and then, as      *)
(* maybe_change_state does, poll the transmit queue.                       *)
(*                                                                         *)
(* Two fields have no counterpart in the class: "out" and "up" collect     *)
(* what one operation hands to the send_ and to the receive_ callback.     *)
(* A failed assert() sets "aborted": the program is built with assertions  *)
(* on, so the whole daemon is gone.                                        *)
(*                                                                         *)
(* Left out, because no statement ever sets them: peer_receiver_busy,      *)
(* own_receiver_busy, srej_enabled, sreject_exception (and so the RNR and  *)
(* SREJ branches).  Addresses, durations and logging are abstracted.       *)
(*                                                                         *)
(* An operator whose name ends in "_mutant_" and a word is not the code    *)
(* but a plausible mistake in the definition that follows it; PROJECT.json *)
(* says which property it would break.                                     *)
(***************************************************************************)
EXTENDS Integers, Sequences

CONSTANTS
    Modulus,        \* sequence-number modulus of a version 2.0 link (8)
    ExtModulus,     \* modulus of a version 2.2 link (128)
    K,              \* ConnectionData::k, most I frames outstanding (7)
    DefaultN2,      \* ConnectionData::n2 as constructed (3)
    Version2N2,     \* n2 once set_version_2 or set_version_2_2 ran (10)
    Payload,        \* contents of I frames
    Oversized       \* the payloads longer than n1 octets

ASSUME ModulusAssumption == Modulus \in Nat /\ ExtModulus \in Nat
ASSUME WindowAssumption == K \in Nat \ {0} /\ K < Modulus /\ K < ExtModulus
ASSUME RetryAssumption == DefaultN2 \in Nat \ {0} /\ Version2N2 \in Nat
                          /\ DefaultN2 <= Version2N2
ASSUME PayloadAssumption == Oversized \subseteq Payload

States == {"Disconnected", "Connected", "AwaitingConnection",
           "AwaitingRelease", "TimerRecovery"}

\* The states that can_receive_data(), where ConnectedTimerRecovery's
\* handlers serve.
ReceivingStates == {"Connected", "TimerRecovery"}

can_receive_data(c) == c.st \in ReceivingStates

------------------------------------------------------------------------------
(* Frames, as the fields of ax25.proto that the state machine reads.       *)

Ua(pf)        == [type |-> "ua", poll |-> pf]
Dm(pf)        == [type |-> "dm", poll |-> pf]
Sabm(pf)      == [type |-> "sabm", poll |-> pf]
Disc(pf)      == [type |-> "disc", poll |-> pf]
Rr(pf, n, cr) == [type |-> "rr", poll |-> pf, nr |-> n, command_response |-> cr]
Rej(pf, n)    == [type |-> "rej", poll |-> pf, nr |-> n]
Iframe(s, n, pf, d) == [type |-> "iframe", ns |-> s, nr |-> n, poll |-> pf,
                        command_response |-> TRUE, payload |-> d]

\* Everything send_packet can be called with.
Frame ==
    [type : {"ua", "dm", "sabm", "disc"}, poll : BOOLEAN]
    \union [type : {"rr"}, poll : BOOLEAN, nr : Nat, command_response : BOOLEAN]
    \union [type : {"rej"}, poll : BOOLEAN, nr : Nat]
    \union [type : {"iframe"}, ns : Nat, nr : Nat, poll : BOOLEAN,
            command_response : {TRUE}, payload : Payload]

------------------------------------------------------------------------------
(* The connection object.                                                  *)

NewConnection ==
    [st |-> "Disconnected", modulus |-> 0, layer3_initiated |-> FALSE,
     reject_exception |-> FALSE, acknowledge_pending |-> FALSE,
     n2 |-> DefaultN2, rc |-> 0, vs |-> 0, va |-> 0, vr |-> 0,
     t1 |-> FALSE, t3 |-> FALSE,
     iframe_queue |-> <<>>, iframe_resend_queue |-> <<>>,
     out |-> <<>>, up |-> <<>>, aborted |-> FALSE]

ConnectionType ==
    [st : States, modulus : {0, Modulus, ExtModulus},
     layer3_initiated : BOOLEAN, reject_exception : BOOLEAN,
     acknowledge_pending : BOOLEAN,
     n2 : {DefaultN2, Version2N2}, rc : Nat,
     vs : Nat, va : Nat, vr : Nat, t1 : BOOLEAN, t3 : BOOLEAN,
     iframe_queue : Seq(Payload), iframe_resend_queue : Seq(Payload),
     out : Seq(Frame), up : Seq(Payload), aborted : BOOLEAN]

\* How far sequence number b is ahead of a on the connection's circle.
ahead(c, a, b) == (b - a) % c.modulus

\* I frames sent and not acknowledged.
Outstanding(c) == ahead(c, c.va, c.vs)

\* The connection waits for a frame of its peer: the answer to a SABM or to an
\* enquiry, or an acknowledgement.
AwaitsPeer(c) ==
    \/ c.st \in {"AwaitingConnection", "TimerRecovery"}
    \/ c.st = "Connected" /\ c.vs # c.va

in_range_mutant_any(c, nr) == nr \in 0 .. c.modulus - 1
in_range_mutant_exclusive(c, nr) ==
    nr \in 0 .. c.modulus - 1 /\ ahead(c, c.va, nr) < Outstanding(c)

\* The loop of in_range walks from va and stops at nr or at vs.
in_range(c, nr) ==
    /\ nr \in 0 .. c.modulus - 1
    /\ ahead(c, c.va, nr) <= Outstanding(c)

------------------------------------------------------------------------------
(* Senders and subroutines of ConnectionState.                             *)

send(c, f) == [c EXCEPT !.out = Append(@, f)]

fail(c) == [c EXCEPT !.aborted = TRUE]

clear_iframe_queue(c) ==
    [c EXCEPT !.iframe_queue = <<>>, !.iframe_resend_queue = <<>>]

clear_exception_conditions(c) ==
    [c EXCEPT !.reject_exception = FALSE, !.acknowledge_pending = FALSE]

establish_data_link(c) ==
    [send(clear_exception_conditions(c), Sabm(TRUE))
        EXCEPT !.rc = 0, !.t3 = FALSE, !.t1 = TRUE]

\* establish_data_link followed by layer3_initiated = by_user and the move to
\* AwaitingConnection: nr_error_recovery and its callers, and dl_connect.
reestablish(c, by_user) ==
    [establish_data_link(c)
        EXCEPT !.layer3_initiated = by_user, !.st = "AwaitingConnection"]

transmit_enquiry_mutant_untimed(c) ==
    [send(c, Rr(TRUE, c.vr, TRUE)) EXCEPT !.acknowledge_pending = FALSE]

transmit_enquiry(c) ==
    [send(c, Rr(TRUE, c.vr, TRUE))
        EXCEPT !.acknowledge_pending = FALSE, !.t1 = TRUE]

enquiry_response_mutant_last(c, f) ==
    [send(c, Rr(f, c.vr - 1, FALSE)) EXCEPT !.acknowledge_pending = FALSE]
enquiry_response_mutant_ahead(c, f) ==
    [send(c, Rr(f, (c.vr + 1) % c.modulus, FALSE))
        EXCEPT !.acknowledge_pending = FALSE]

enquiry_response(c, f) ==
    [send(c, Rr(f, c.vr, FALSE)) EXCEPT !.acknowledge_pending = FALSE]

update_ack_mutant_onemore(c, nr) ==
    LET store == c.iframe_resend_queue
    IN  [c EXCEPT !.va = nr,
                  !.iframe_resend_queue =
                     SubSeq(store, ahead(c, c.va, nr) + 2, Len(store))]

\* Pops one stored frame for every sequence number from va up to nr; the
\* assert is that the store does not run out.
update_ack(c, nr) ==
    LET n == ahead(c, c.va, nr)
        store == c.iframe_resend_queue
    IN  IF n > Len(store)
        THEN fail(c)
        ELSE [c EXCEPT !.va = nr,
                       !.iframe_resend_queue = SubSeq(store, n + 1, Len(store))]

invoke_retransmission_mutant_pushed(c, nr) ==
    LET store == c.iframe_resend_queue
        n == ahead(c, nr, c.vs)
    IN  IF n > Len(store)
        THEN fail(c)
        ELSE [c EXCEPT !.vs = nr,
                       !.iframe_queue =
                          SubSeq(store, Len(store) - n + 1, Len(store)) \o @]
invoke_retransmission_mutant_rewind(c, nr) == [c EXCEPT !.vs = nr]

\* The assert is that the store holds a frame for every number from nr up to
\* the old vs.  The frames pushed in the loop are overwritten after it.
invoke_retransmission(c, nr) ==
    IF ahead(c, nr, c.vs) > Len(c.iframe_resend_queue)
    THEN fail(c)
    ELSE [c EXCEPT !.vs = nr, !.iframe_queue = c.iframe_resend_queue]

check_iframe_acked_mutant_t1(c, nr) ==
    IF nr = c.vs THEN [update_ack(c, nr) EXCEPT !.t3 = TRUE]
    ELSE [update_ack(c, nr) EXCEPT !.t1 = TRUE]

check_iframe_acked(c, nr) ==
    IF nr = c.vs
    THEN [update_ack(c, nr) EXCEPT !.t1 = FALSE, !.t3 = TRUE]
    ELSE IF nr # c.va
         THEN [update_ack(c, nr) EXCEPT !.t1 = TRUE]
         ELSE c

check_need_for_response(c, command, pf) ==
    IF command /\ pf THEN enquiry_response(c, TRUE) ELSE c

set_version(c, m) == [c EXCEPT !.modulus = m, !.n2 = Version2N2]

------------------------------------------------------------------------------
(* Handlers of the state Disconnected.                                     *)

Disconnected_ui(c, pf) == IF pf THEN send(c, Dm(TRUE)) ELSE c

Disconnected_disc(c, pf) == send(c, Dm(pf))

\* A SABM arrives with m = Modulus, a SABME with m = ExtModulus.
Disconnected_sabm(c, pf, m) ==
    [clear_exception_conditions(send(set_version(c, m), Ua(pf)))
        EXCEPT !.vs = 0, !.va = 0, !.vr = 0, !.t3 = TRUE, !.st = "Connected"]

Disconnected_dl_connect(c) == reestablish([c EXCEPT !.modulus = Modulus], TRUE)

------------------------------------------------------------------------------
(* Handlers of the state AwaitingConnection.                               *)

AwaitingConnection_ua(c, pf) ==
    LET d == IF ~c.layer3_initiated /\ c.vs # c.va
             THEN clear_iframe_queue(c) ELSE c
    IN  IF ~pf
        THEN c
        ELSE [d EXCEPT !.t1 = FALSE, !.t3 = FALSE,
                       !.vs = 0, !.va = 0, !.vr = 0, !.st = "Connected"]

AwaitingConnection_timer1_tick_mutant_late(c) ==
    IF c.rc > c.n2
    THEN [clear_iframe_queue(c) EXCEPT !.st = "Disconnected"]
    ELSE [send(c, Sabm(TRUE)) EXCEPT !.rc = @ + 1, !.t1 = TRUE]
AwaitingConnection_timer1_tick_mutant_once(c) ==
    IF c.rc = c.n2
    THEN [clear_iframe_queue(c) EXCEPT !.st = "Disconnected"]
    ELSE [send(c, Sabm(TRUE)) EXCEPT !.rc = @ + 1]

AwaitingConnection_timer1_tick(c) ==
    IF c.rc = c.n2
    THEN [clear_iframe_queue(c) EXCEPT !.st = "Disconnected"]
    ELSE [send(c, Sabm(TRUE)) EXCEPT !.rc = @ + 1, !.t1 = TRUE]

------------------------------------------------------------------------------
(* Handlers shared by Connected and TimerRecovery.                         *)

ConnectedTimerRecovery_dm(c) ==
    [clear_iframe_queue(c)
        EXCEPT !.t1 = FALSE, !.t3 = FALSE, !.st = "Disconnected"]

ConnectedTimerRecovery_disc(c, pf) ==
    [send(clear_iframe_queue(c), Ua(pf))
        EXCEPT !.t1 = FALSE, !.t3 = FALSE, !.st = "Disconnected"]

receive_iframe_mutant_unordered(c, f) ==
    [c EXCEPT !.vr = (f.ns + 1) % c.modulus, !.up = Append(@, f.payload)]

\* The receiving half of iframe(), once its nr has been taken care of.
receive_iframe(c, f) ==
    IF f.ns = c.vr
    THEN LET d == [c EXCEPT !.vr = (@ + 1) % c.modulus,
                            !.up = Append(@, f.payload)]
         IN  IF f.poll
             THEN enquiry_response(d, TRUE)
             ELSE [d EXCEPT !.acknowledge_pending = TRUE]
    ELSE IF c.reject_exception
         THEN IF f.poll THEN enquiry_response(c, TRUE) ELSE c
         ELSE [send(c, Rej(f.poll, c.vr))
                 EXCEPT !.reject_exception = TRUE,
                        !.acknowledge_pending = FALSE]

ConnectedTimerRecovery_iframe(c, f) ==
    IF ~f.command_response
    THEN c
    ELSE IF f.payload \in Oversized \/ ~in_range(c, f.nr)
         THEN reestablish(c, FALSE)
         ELSE receive_iframe(IF c.st = "Connected"
                             THEN check_iframe_acked(c, f.nr)
                             ELSE update_ack(c, f.nr), f)

ConnectedTimerRecovery_dl_data_mutant_unkept(c, p) ==
    [c EXCEPT !.iframe_queue = Append(@, p)]

ConnectedTimerRecovery_dl_data(c, p) ==
    [c EXCEPT !.iframe_resend_queue = Append(@, p),
              !.iframe_queue = Append(@, p)]

ConnectedTimerRecovery_dl_disconnect(c) ==
    [send(clear_iframe_queue(c), Disc(TRUE))
        EXCEPT !.rc = 0, !.t3 = FALSE, !.t1 = TRUE, !.st = "AwaitingRelease"]

------------------------------------------------------------------------------
(* Handlers of the state Connected.                                        *)

Connected_rr(c, f) ==
    LET d == check_need_for_response(c, f.command_response, f.poll)
    IN  IF in_range(d, f.nr) THEN check_iframe_acked(d, f.nr)
                             ELSE reestablish(d, FALSE)

Connected_ui(c, pf) == IF pf THEN enquiry_response(c, TRUE) ELSE c

Connected_sabm(c, pf) ==
    LET d == clear_exception_conditions(send(c, Ua(pf)))
        e == IF d.vs # d.va THEN clear_iframe_queue(d) ELSE d
    IN  [e EXCEPT !.t1 = FALSE, !.t3 = TRUE, !.vs = 0, !.va = 0, !.vr = 0]

Connected_dl_connect(c) == reestablish(clear_iframe_queue(c), TRUE)

Connected_timer1_tick(c) ==
    [transmit_enquiry(c) EXCEPT !.rc = 1, !.st = "TimerRecovery"]

------------------------------------------------------------------------------
(* Handlers of the state TimerRecovery.                                    *)

\* A response with F=1 answers our enquiry; everything else only acknowledges.
TimerRecovery_rr(c, f) ==
    IF f.poll /\ ~f.command_response
    THEN LET d == [c EXCEPT !.t1 = FALSE]
             e == update_ack(d, f.nr)
         IN  IF ~in_range(d, f.nr)
             THEN reestablish(d, FALSE)
             ELSE IF e.vs # e.va
                  THEN invoke_retransmission(e, f.nr)
                  ELSE [e EXCEPT !.t3 = TRUE, !.st = "Connected"]
    ELSE LET d == check_need_for_response(c, f.command_response, f.poll)
         IN  IF in_range(d, f.nr) THEN update_ack(d, f.nr)
                                  ELSE reestablish(d, FALSE)

TimerRecovery_timer1_tick_mutant_uncounted(c) ==
    IF c.rc # c.n2 THEN transmit_enquiry(c)
    ELSE [c EXCEPT !.st = "Disconnected"]

TimerRecovery_timer1_tick(c) ==
    IF c.rc # c.n2
    THEN [transmit_enquiry(c) EXCEPT !.rc = @ + 1]
    ELSE [c EXCEPT !.st = "Disconnected"]

------------------------------------------------------------------------------
(* maybe_change_state: install the new state and poll the queue.           *)

sendable_mutant_all(c) == Len(c.iframe_queue)

\* The number of queued frames the loop sends before the queue is empty or
\* the window is closed.
sendable(c) ==
    LET room == (c.va + K - c.vs) % c.modulus
    IN  IF Len(c.iframe_queue) < room THEN Len(c.iframe_queue) ELSE room

\* The i-th frame of the poll; the last one the window has room for polls.
queued_iframe(c, i) ==
    LET ns == (c.vs + i - 1) % c.modulus
    IN  Iframe(ns, c.vr, ns = (c.va + K + c.modulus - 1) % c.modulus,
               c.iframe_queue[i])

transmit_mutant_unwrapped(c, n) ==
    [c EXCEPT !.iframe_queue = SubSeq(@, n + 1, Len(@)), !.vs = @ + n,
              !.t1 = @ \/ n > 0]
transmit_mutant_untimed(c, n) ==
    [c EXCEPT !.iframe_queue = SubSeq(@, n + 1, Len(@)),
              !.out = @ \o [i \in 1 .. n |-> queued_iframe(c, i)],
              !.vs = (@ + n) % c.modulus]

\* The first n frames of the queue go out.
transmit(c, n) ==
    [c EXCEPT !.iframe_queue = SubSeq(@, n + 1, Len(@)),
              !.out = @ \o [i \in 1 .. n |-> queued_iframe(c, i)],
              !.vs = (@ + n) % c.modulus,
              !.t3 = @ /\ (c.t1 \/ n = 0),
              !.t1 = @ \/ n > 0]

dl_data_poll(c) ==
    IF c.st \in ReceivingStates THEN transmit(c, sendable(c)) ELSE c

maybe_change_state(c, d) == IF d.aborted THEN fail(c) ELSE dl_data_poll(d)

------------------------------------------------------------------------------
(* The public members of Connection: dispatch on the current state, where  *)
(* a state that does not override a handler ignores the call.              *)

start(c) == [c EXCEPT !.out = <<>>, !.up = <<>>]

dispatch_sabm(c, pf) ==
    CASE c.st = "Disconnected" -> Disconnected_sabm(c, pf, Modulus)
      [] c.st = "Connected"    -> Connected_sabm(c, pf)
      [] OTHER -> c

dispatch_sabme(c, pf) ==
    IF c.st = "Disconnected" THEN Disconnected_sabm(c, pf, ExtModulus) ELSE c

dispatch_ua(c, pf) ==
    CASE c.st = "AwaitingConnection" -> AwaitingConnection_ua(c, pf)
      [] c.st \in ReceivingStates    -> reestablish(c, FALSE)
      [] OTHER -> c

dispatch_ui(c, pf) ==
    CASE c.st = "Disconnected" -> Disconnected_ui(c, pf)
      [] c.st = "Connected"    -> Connected_ui(c, pf)
      [] OTHER -> c

dispatch_dm(c) ==
    IF c.st \in ReceivingStates THEN ConnectedTimerRecovery_dm(c) ELSE c

dispatch_disc(c, pf) ==
    CASE c.st = "Disconnected"    -> Disconnected_disc(c, pf)
      [] c.st \in ReceivingStates -> ConnectedTimerRecovery_disc(c, pf)
      [] OTHER -> c

dispatch_rr(c, f) ==
    CASE c.st = "Connected"     -> Connected_rr(c, f)
      [] c.st = "TimerRecovery" -> TimerRecovery_rr(c, f)
      [] OTHER -> c

dispatch_iframe(c, f) ==
    IF c.st \in ReceivingStates THEN ConnectedTimerRecovery_iframe(c, f) ELSE c

dispatch_dl_connect(c) ==
    CASE c.st = "Disconnected" -> Disconnected_dl_connect(c)
      [] c.st = "Connected"    -> Connected_dl_connect(c)
      [] OTHER -> c

dispatch_dl_data(c, p) ==
    IF c.st \in ReceivingStates THEN ConnectedTimerRecovery_dl_data(c, p) ELSE c

dispatch_dl_disconnect(c) ==
    IF c.st \in ReceivingStates
    THEN ConnectedTimerRecovery_dl_disconnect(c) ELSE c

dispatch_timer1_tick(c) ==
    CASE c.st = "AwaitingConnection" -> AwaitingConnection_timer1_tick(c)
      [] c.st = "Connected"          -> Connected_timer1_tick(c)
      [] c.st = "TimerRecovery"      -> TimerRecovery_timer1_tick(c)
      [] OTHER -> c

con_sabm(c, pf)      == maybe_change_state(c, dispatch_sabm(start(c), pf))
con_sabme(c, pf)     == maybe_change_state(c, dispatch_sabme(start(c), pf))
con_ua(c, pf)        == maybe_change_state(c, dispatch_ua(start(c), pf))
con_ui(c, pf)        == maybe_change_state(c, dispatch_ui(start(c), pf))
con_dm(c)            == maybe_change_state(c, dispatch_dm(start(c)))
con_disc(c, pf)      == maybe_change_state(c, dispatch_disc(start(c), pf))
con_rr(c, f)         == maybe_change_state(c, dispatch_rr(start(c), f))
con_iframe(c, f)     == maybe_change_state(c, dispatch_iframe(start(c), f))
con_dl_connect(c)    == maybe_change_state(c, dispatch_dl_connect(start(c)))
con_dl_data(c, p)    == maybe_change_state(c, dispatch_dl_data(start(c), p))
con_dl_disconnect(c) == maybe_change_state(c, dispatch_dl_disconnect(start(c)))

\* ConnEntry::trigger_timers stops the expired timer, then ticks.  No state
\* overrides timer3_tick.
con_timer1_tick(c) ==
    maybe_change_state(c, dispatch_timer1_tick([start(c) EXCEPT !.t1 = FALSE]))
con_timer3_tick(c) == maybe_change_state(c, [start(c) EXCEPT !.t3 = FALSE])
==============================================================================
