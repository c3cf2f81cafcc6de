------------------------------- MODULE Preload -------------------------------
(***************************************************************************)
(* One AF_AX25 socket of the preload library (src/src/preload.cc): the     *)
(* Connection object, its read_thread_, the thread that opens it with      *)
(* connect() or accept(), the application threads that read() and the one  *)
(* that closes it.                                                         *)
(*                                                                         *)
(* All of them share one mutex and one condition variable; what the code   *)
(* does between taking the mutex and letting go of it is one action.  The  *)
(* packets the daemon sends are numbered from 1.  An application that      *)
(* closes a socket which another of its threads is using, or the object    *)
(* that a thread replaces under another, is undefined behaviour: the model *)
(* stops there.                                                            *)
(***************************************************************************)
EXTENDS Naturals, Sequences, FiniteSets

CONSTANTS
    Reader,         \* application threads that call read()
    ReadThread,     \* read_thread_
    Cap,            \* packets that read_queue_ takes (10 in the code)
    MaxPackets      \* bound: packets the daemon sends

ASSUME PreloadAssumption ==
    /\ ReadThread \notin Reader /\ IsFiniteSet(Reader)
    /\ Cap \in Nat \ {0} /\ MaxPackets \in Nat

VARIABLES
    kind,       \* whether connect() or accept() makes the connection
    op,         \* where that call stands
    stream,     \* stream_ is set
    ready,      \* read_ready_
    stop,       \* read_stop_, and the cancelled stream_ctx_
    closed,     \* stream_closed_, and the handler's end of the pipe is closed
    queue,      \* read_queue_
    tokens,     \* octets in the pipe that makes the descriptor readable
    asleep,     \* threads asleep on read_queue_cv_
    rt,         \* where read_thread_main stands
    resp,       \* the packet it has just read
    pc,         \* pc[r]: where r's read() stands
    life,       \* "alive"; "destroying" in ~Connection; "gone"
    broken,     \* undefined behaviour, or an exception nobody catches
    inbox,      \* packets on the gRPC stream, not yet read
    ended,      \* the daemon has ended the stream
    sent,       \* history: packets the daemon has sent
    taken,      \* history: packets taken from read_queue_
    early       \* history: a read() was called before the socket was open

queueVars == <<queue, tokens, resp, inbox, taken>>
openVars  == <<kind, op, stream, ready>>
histVars  == <<sent, ended, early>>
vars == <<openVars, queueVars, histVars, stop, closed, asleep, rt, pc, life, broken>>

Init ==
    /\ kind \in {"connect", "accept"} /\ op = "new"
    /\ stream = FALSE /\ ready = FALSE /\ stop = FALSE /\ closed = FALSE
    /\ queue = <<>> /\ tokens = 0 /\ asleep = {}
    /\ rt = "start" /\ resp = 0
    /\ pc = [r \in Reader |-> "out"]
    /\ life = "alive" /\ broken = FALSE
    /\ inbox = <<>> /\ ended = FALSE /\ sent = 0 /\ taken = <<>> /\ early = FALSE

Sleep(t) == asleep' = asleep \union {t}
notify_one == IF asleep = {} THEN asleep' = {}
              ELSE \E t \in asleep : asleep' = asleep \ {t}
notify_all == asleep' = {}

\* Connections::get finds the descriptor: socket() inserts it, accept() only
\* once it has the connection; close() extracts it.
known == life = "alive" /\ (kind = "connect" \/ op = "open")

------------------------------------------------------------------------------
(* connect() and accept().                                                 *)

rpc_start_mutant_late ==
    /\ op = "new" /\ op' = "calling" /\ UNCHANGED stream
    /\ UNCHANGED <<kind, ready, queueVars, histVars, stop, closed, asleep, rt, pc, life, broken>>

\* The RPC starts and its first Write succeeds.  connect() keeps the stream in
\* stream_ from the start, accept() in a variable of its own.
rpc_start ==
    /\ op = "new" /\ op' = "calling"
    /\ stream' = (kind = "connect")
    /\ UNCHANGED <<kind, ready, queueVars, histVars, stop, closed, asleep, rt, pc, life, broken>>

\* The first Write fails; accept()'s new connection is destroyed.
rpc_fails ==
    /\ op = "new" /\ op' = "failed"
    /\ stream' = (kind = "connect")
    /\ IF kind = "accept"
       THEN stop' = TRUE /\ life' = "destroying" /\ notify_all
       ELSE UNCHANGED <<stop, life, asleep>>
    /\ UNCHANGED <<kind, ready, queueVars, histVars, closed, rt, pc, broken>>

\* The daemon answers, or ends the stream; then set_read_ready().
answered ==
    /\ op = "calling"
    /\ \/ op' = "connected" /\ UNCHANGED ended
       \/ op' = "refused" /\ ended' = TRUE
    /\ ready' = TRUE /\ notify_one
    /\ UNCHANGED <<kind, stream, queueVars, sent, early, stop, closed, rt, pc, life, broken>>

opened ==
    /\ op = "connected" /\ op' = "open" /\ stream' = TRUE
    /\ UNCHANGED <<kind, ready, queueVars, histVars, stop, closed, asleep, rt, pc, life, broken>>

\* connect() drops the stream, also from under a Read of read_thread_.
connect_refused ==
    /\ kind = "connect" /\ op = "refused" /\ op' = "failed"
    /\ stream' = FALSE
    /\ broken' = (rt = "reading")
    /\ UNCHANGED <<kind, ready, queueVars, histVars, stop, closed, asleep, rt, pc, life>>

\* Refused, or the daemon's answer names no valid peer.
accept_fails ==
    /\ kind = "accept" /\ op \in {"refused", "connected"} /\ op' = "failed"
    /\ stop' = TRUE /\ life' = "destroying" /\ notify_all
    /\ UNCHANGED <<kind, stream, ready, queueVars, histVars, closed, rt, pc, broken>>

------------------------------------------------------------------------------
(* read_thread_main.                                                       *)

Awake(t) == t \notin asleep

rt_start ==
    /\ rt = "start" /\ Awake(ReadThread)
    /\ IF ready \/ stop
       THEN rt' = (IF stop THEN "done" ELSE "check") /\ UNCHANGED asleep
       ELSE Sleep(ReadThread) /\ UNCHANGED rt
    /\ UNCHANGED <<openVars, queueVars, histVars, stop, closed, pc, life, broken>>

\* Without a stream the thread is done: it leaves stream_closed_ as it is.
rt_check ==
    /\ rt = "check" /\ rt' = IF stream THEN "reading" ELSE "done"
    /\ UNCHANGED <<openVars, queueVars, histVars, stop, closed, asleep, pc, life, broken>>

rt_read ==
    /\ rt = "reading"
    /\ \/ /\ inbox # <<>>
          /\ resp' = Head(inbox) /\ inbox' = Tail(inbox) /\ rt' = "push"
       \/ /\ stop \/ (ended /\ inbox = <<>>)
          /\ rt' = "ending" /\ UNCHANGED <<resp, inbox>>
    /\ UNCHANGED <<openVars, queue, tokens, taken, histVars, stop, closed, asleep, pc, life, broken>>

rt_push_mutant_unbounded ==
    /\ rt = "push" /\ rt' = "token" /\ queue' = Append(queue, resp) /\ notify_one
    /\ UNCHANGED <<openVars, tokens, resp, inbox, taken, histVars, stop, closed, pc, life, broken>>

\* One token for many packets.
rt_push_mutant_coalesced ==
    /\ rt = "push" /\ Awake(ReadThread) /\ Len(queue) < Cap
    /\ rt' = (IF queue = <<>> THEN "token" ELSE "reading")
    /\ queue' = Append(queue, resp) /\ notify_one
    /\ UNCHANGED <<openVars, tokens, resp, inbox, taken, histVars, stop, closed, pc, life, broken>>

rt_push ==
    /\ rt = "push" /\ Awake(ReadThread)
    /\ \/ stop /\ rt' = "ending" /\ UNCHANGED <<queue, asleep>>
       \/ /\ ~stop /\ Len(queue) < Cap
          /\ queue' = Append(queue, resp) /\ notify_one /\ rt' = "token"
       \/ ~stop /\ Len(queue) >= Cap /\ Sleep(ReadThread) /\ UNCHANGED <<queue, rt>>
    /\ UNCHANGED <<openVars, tokens, resp, inbox, taken, histVars, stop, closed, pc, life, broken>>

rt_token ==
    /\ rt = "token" /\ rt' = "reading" /\ tokens' = tokens + 1
    /\ UNCHANGED <<openVars, queue, resp, inbox, taken, histVars, stop, closed, asleep, pc, life, broken>>

rt_end ==
    /\ rt = "ending" /\ rt' = "done" /\ closed' = TRUE /\ notify_all
    /\ UNCHANGED <<openVars, queueVars, histVars, stop, pc, life, broken>>

------------------------------------------------------------------------------
(* read(): the call finds the connection, then holds a plain pointer to    *)
(* it.  "lock" waits for a packet, "token" takes the packet's octet from   *)
(* the pipe, "eof" has been told 0.                                        *)

read_call(r) ==
    /\ pc[r] = "out" /\ known /\ pc' = [pc EXCEPT ![r] = "lock"]
    /\ early' = (early \/ op # "open")
    /\ UNCHANGED <<openVars, queueVars, sent, ended, stop, closed, asleep, rt, life, broken>>

Read(r, packets, after) ==
    /\ taken' = Append(taken, Head(packets)) /\ queue' = Tail(packets)
    /\ pc' = [pc EXCEPT ![r] = after]

NoPacket(r) ==
    /\ queue = <<>> /\ UNCHANGED <<queue, taken>>
    /\ IF closed
       THEN pc' = [pc EXCEPT ![r] = "eof"] /\ UNCHANGED asleep
       ELSE Sleep(r) /\ UNCHANGED pc

read_lock_mutant_unnotified(r) ==
    /\ pc[r] = "lock" /\ Awake(r)
    /\ \/ queue # <<>> /\ Read(r, queue, "token") /\ UNCHANGED asleep
       \/ NoPacket(r)
    /\ UNCHANGED <<openVars, tokens, resp, inbox, histVars, stop, closed, rt, life, broken>>

read_lock_mutant_unflushed(r) ==
    /\ pc[r] = "lock" /\ Awake(r)
    /\ \/ queue # <<>> /\ Read(r, queue, "out") /\ notify_one
       \/ NoPacket(r)
    /\ UNCHANGED <<openVars, tokens, resp, inbox, histVars, stop, closed, rt, life, broken>>

read_lock_mutant_hasty(r) ==
    /\ pc[r] = "lock" /\ Awake(r)
    /\ \/ queue # <<>> /\ ~closed /\ Read(r, queue, "token") /\ notify_one
       \/ closed /\ pc' = [pc EXCEPT ![r] = "eof"] /\ UNCHANGED <<queue, taken, asleep>>
       \/ ~closed /\ NoPacket(r)
    /\ UNCHANGED <<openVars, tokens, resp, inbox, histVars, stop, closed, rt, life, broken>>

read_lock_mutant_newest(r) ==
    /\ pc[r] = "lock" /\ Awake(r)
    /\ \/ /\ queue # <<>> /\ notify_one
          /\ Read(r, <<queue[Len(queue)]>> \o SubSeq(queue, 1, Len(queue) - 1), "token")
       \/ NoPacket(r)
    /\ UNCHANGED <<openVars, tokens, resp, inbox, histVars, stop, closed, rt, life, broken>>

read_lock(r) ==
    /\ pc[r] = "lock" /\ Awake(r)
    /\ \/ queue # <<>> /\ Read(r, queue, "token") /\ notify_one
       \/ NoPacket(r)
    /\ UNCHANGED <<openVars, tokens, resp, inbox, histVars, stop, closed, rt, life, broken>>

\* The read of the octet blocks; the end of the pipe instead of an octet is an
\* exception.
read_token(r) ==
    /\ pc[r] = "token" /\ (tokens > 0 \/ closed)
    /\ IF tokens > 0
       THEN tokens' = tokens - 1 /\ pc' = [pc EXCEPT ![r] = "out"] /\ UNCHANGED broken
       ELSE broken' = TRUE /\ UNCHANGED <<tokens, pc>>
    /\ UNCHANGED <<openVars, queue, resp, inbox, taken, histVars, stop, closed, asleep, rt, life>>

\* write() on a socket without a stream.
write ==
    /\ known /\ ~stream /\ broken' = TRUE
    /\ UNCHANGED <<openVars, queueVars, histVars, stop, closed, asleep, rt, pc, life>>

------------------------------------------------------------------------------
(* close(), and the daemon at the other end of the stream.                 *)

close_mutant_quiet ==
    /\ known /\ life' = "destroying" /\ stop' = TRUE
    /\ UNCHANGED <<openVars, queueVars, histVars, closed, asleep, rt, pc, broken>>

\* The entry is extracted, and ~Connection runs.
close ==
    /\ known /\ life' = "destroying" /\ stop' = TRUE /\ notify_all
    /\ UNCHANGED <<openVars, queueVars, histVars, closed, rt, pc, broken>>

\* The members go, read_thread_ first: it is joined.
destroyed ==
    /\ life = "destroying" /\ rt = "done" /\ life' = "gone"
    /\ UNCHANGED <<openVars, queueVars, histVars, stop, closed, asleep, rt, pc, broken>>

Up == op \in {"connected", "open"} /\ ~ended

daemon_sends ==
    /\ Up /\ sent < MaxPackets
    /\ sent' = sent + 1 /\ inbox' = Append(inbox, sent + 1)
    /\ UNCHANGED <<openVars, queue, tokens, resp, taken, ended, early, stop, closed, asleep, rt, pc, life, broken>>

daemon_ends ==
    /\ Up /\ ended' = TRUE
    /\ UNCHANGED <<openVars, queueVars, sent, early, stop, closed, asleep, rt, pc, life, broken>>

Inside(r) == pc[r] \in {"lock", "token"}
Opening == kind = "connect" /\ op \in {"calling", "connected", "refused"}

\* Nothing undefined has happened.
Defined == ~broken /\ (life = "gone" => ~Opening /\ \A r \in Reader : ~Inside(r))

OpenStep == rpc_start \/ answered \/ opened \/ connect_refused \/ accept_fails
ThreadStep == rt_start \/ rt_check \/ rt_read \/ rt_push \/ rt_token \/ rt_end
ReadStep(r) == read_lock(r) \/ read_token(r)

Next ==
    /\ Defined
    /\ \/ OpenStep \/ rpc_fails \/ ThreadStep
       \/ \E r \in Reader : read_call(r) \/ ReadStep(r)
       \/ write \/ close \/ destroyed \/ daemon_sends \/ daemon_ends

Spec == Init /\ [][Next]_vars

\* The threads run; the application need not call anything, nor the daemon
\* answer, send or end.
FairSpec ==
    /\ Spec
    /\ WF_vars(Defined /\ ThreadStep)
    /\ WF_vars(Defined /\ destroyed)
    /\ WF_vars(Defined /\ (opened \/ connect_refused))
    /\ \A r \in Reader : WF_vars(Defined /\ ReadStep(r))

------------------------------------------------------------------------------
(* Properties.                                                             *)

\* Every variable has its type; the queue never grows past its limit.
TypeOK ==
    /\ kind \in {"connect", "accept"}
    /\ op \in {"new", "calling", "connected", "refused", "open", "failed"}
    /\ stream \in BOOLEAN /\ ready \in BOOLEAN /\ stop \in BOOLEAN /\ closed \in BOOLEAN
    /\ broken \in BOOLEAN /\ ended \in BOOLEAN /\ early \in BOOLEAN
    /\ queue \in Seq(Nat) /\ Len(queue) <= Cap
    /\ inbox \in Seq(Nat) /\ taken \in Seq(Nat)
    /\ tokens \in Nat /\ resp \in Nat /\ sent \in Nat
    /\ asleep \subseteq Reader \union {ReadThread}
    /\ rt \in {"start", "check", "reading", "push", "token", "ending", "done"}
    /\ pc \in [Reader -> {"out", "lock", "token", "eof"}]
    /\ life \in {"alive", "destroying", "gone"}

InToken == {r \in Reader : pc[r] = "token"}

\* Every packet has its octet in the pipe: those in the queue and those just
\* taken, but for the one whose octet read_thread_ is about to write.  Where it
\* did not hold a read() would throw, or take another packet's octet.
TokenPerPacket ==
    tokens + (IF rt = "token" THEN 1 ELSE 0) = Len(queue) + Cardinality(InToken)

\* What select() says of the descriptor is true when no read() is under way: if
\* it is readable the next read() does not block, whether it is an octet or the
\* end of the pipe that makes it so.
SelectTellsTruth ==
    (\A r \in Reader : ~Inside(r)) =>
        /\ tokens > 0 => queue # <<>>
        /\ tokens = 0 /\ closed => queue = <<>>

\* read() says that the stream has ended only when everything the daemon sent
\* before has been read, or the application has closed the socket itself.
EofAfterAll ==
    \A r \in Reader : pc[r] = "eof" => stop \/ (ended /\ Len(taken) = sent)

\* read_thread_ is not there although the socket is not being closed: it saw no
\* stream and left, or set_read_ready() woke another thread.
Deaf ==
    \/ rt = "done" /\ ~closed
    \/ rt = "start" /\ ready /\ ReadThread \in asleep

\* A socket that connect() has opened is read from, unless some thread called
\* read() on it before.
ConnectHears == kind = "connect" /\ op = "open" /\ ~early /\ life = "alive" => ~Deaf

Socket == INSTANCE OrderedDelivery WITH
    End       <- {ReadThread},
    MaySkip   <- FALSE,
    submitted <- [e \in {ReadThread} |-> sent],
    delivered <- [e \in {ReadThread} |-> taken],
    live      <- [e \in {ReadThread} |-> ~stop]

\* A socket delivers what the daemon sent, in that order, nothing twice and
\* nothing left out, whichever of several threads reads.
DeliversInOrder == Socket!Spec

Hangs(r) ==
    /\ Inside(r) /\ life = "alive" /\ Defined /\ ~Deaf
    /\ pc[r] = "token" \/ Len(taken) < sent \/ ended

\* No read() hangs while there is a packet to be had or the stream has ended.
ReadReturns == \A r \in Reader : []<>~Hangs(r)

\* close() returns, whatever read_thread_ was waiting for.
CloseReturns == life = "destroying" ~> life = "gone" \/ ~Defined
==============================================================================
