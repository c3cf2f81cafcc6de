------------------------------- MODULE Serial -------------------------------
(***************************************************************************)
(* The KISS service (src/src/serial.cc): two of them, joined by a serial   *)
(* line.  At one end callers Send frames, at the other the read thread     *)
(* cuts the octets into frames and hands them to the clients of            *)
(* StreamFrames.  The line carries octets in order and loses none while it *)
(* works; a write may be cut short or fail, a read returns what is there,  *)
(* fails, or finds that the line has gone.                                 *)
(***************************************************************************)
EXTENDS Naturals, Sequences, SequencesExt

CONSTANTS
    Client,     \* callers of StreamFrames
    Sender,     \* callers of Send
    Payload,    \* Payload[i]: the octets of the i-th frame to be sent
    Leftover,   \* what may be on the line when the service starts
    MaxFaults   \* bound: failed reads and writes

VARIABLES
    submitted,  \* history: the payload of every Send, and whether it failed
    published,  \* history: the frames inject() was called with
    handler,    \* handler[c]: where c's StreamFrames stands
    gone,       \* clients that have cancelled their stream
    joined,     \* history: Len(published) when the client joined
    got,        \* history: what Write has handed each client
    rest,       \* rest[s]: octets the Send of s has still to write
    line,       \* octets on the line
    buf,        \* buf of read_main2
    state,      \* state of read_main2
    reader,     \* "running", or "reopening" in the loop after an end of file
    queue,      \* queue[c]: c's Queue
    faults,     \* failures so far
    calm        \* history: Len(submitted) at the last failure

clientVars == <<handler, gone, joined, got, queue>>
readVars   == <<buf, state, reader>>
faultVars  == <<faults, calm>>
serialVars == <<rest, line, readVars, queue, faultVars>>
vars == <<submitted, published, handler, gone, joined, got, serialVars>>

FEND  == 192
FESC  == 219
TFEND == 220
TFESC == 221
Octet == 0 .. 255

------------------------------------------------------------------------------
(* The code of KISS.                                                       *)

kiss_escape_mutant_fend(s) ==
    FlattenSeq([i \in 1 .. Len(s) |->
        IF s[i] = FESC THEN <<FESC, TFESC>> ELSE <<s[i]>>])

kiss_escape(s) ==
    FlattenSeq([i \in 1 .. Len(s) |->
        CASE s[i] = FESC -> <<FESC, TFESC>>
          [] s[i] = FEND -> <<FESC, TFEND>>
          [] OTHER       -> <<s[i]>>])

\* What the loop of kiss_unescape makes of one octet more.
unescape_octet(a, o) ==
    CASE ~a.escape /\ o = FESC  -> [a EXCEPT !.escape = TRUE]
      [] ~a.escape /\ o # FESC  -> [a EXCEPT !.out = Append(@, o)]
      [] a.escape /\ o = TFESC  -> [a EXCEPT !.escape = FALSE, !.out = Append(@, FESC)]
      [] a.escape /\ o = TFEND  -> [a EXCEPT !.escape = FALSE, !.out = Append(@, FEND)]
      [] OTHER                  -> [a EXCEPT !.escape = FALSE, !.invalid = TRUE]

\* What it has made of the octets it has seen so far.
Unescaped(s) ==
    LET seen[i \in 0 .. Len(s)] ==
            IF i = 0 THEN [out |-> <<>>, escape |-> FALSE, invalid |-> FALSE]
            ELSE unescape_octet(seen[i - 1], s[i])
    IN  seen[Len(s)]

Invalid(s) == Unescaped(s).invalid

\* A frame that ends in the middle of an escape is no frame at all.
kiss_unescape(s) == IF Unescaped(s).escape THEN <<>> ELSE Unescaped(s).out

KissFrame(payload) == <<FEND, 0>> \o kiss_escape(payload) \o <<FEND>>

------------------------------------------------------------------------------
Init ==
    /\ submitted = <<>> /\ published = <<>>
    /\ handler = [c \in Client |-> "out"] /\ gone = {}
    /\ joined = [c \in Client |-> 0] /\ got = [c \in Client |-> <<>>]
    /\ rest = [s \in Sender |-> <<>>] /\ line \in Leftover
    /\ buf = <<>> /\ state = "UNKNOWN" /\ reader = "running"
    /\ queue = [c \in Client |-> <<>>]
    /\ faults = 0 /\ calm = 0

Fault == faults < MaxFaults /\ faults' = faults + 1 /\ calm' = Len(submitted)

------------------------------------------------------------------------------
(* Send, which writes its octets under serial_mu_.                         *)

upcoming == Payload[Len(submitted) + 1]

Send_mutant_unlocked(s) ==
    /\ Len(submitted) < Len(Payload) /\ rest[s] = <<>>
    /\ submitted' = Append(submitted, [payload |-> upcoming, whole |-> TRUE])
    /\ rest' = [rest EXCEPT ![s] = KissFrame(upcoming)]
    /\ UNCHANGED <<published, clientVars, line, readVars, faultVars>>

Send(s) ==
    /\ Len(submitted) < Len(Payload)
    /\ \A t \in Sender : rest[t] = <<>>
    /\ submitted' = Append(submitted, [payload |-> upcoming, whole |-> TRUE])
    /\ rest' = [rest EXCEPT ![s] = KissFrame(upcoming)]
    /\ UNCHANGED <<published, clientVars, line, readVars, faultVars>>

Send_write(s) ==
    /\ \E n \in 1 .. Len(rest[s]) :
          /\ line' = line \o SubSeq(rest[s], 1, n)
          /\ rest' = [rest EXCEPT ![s] = SubSeq(@, n + 1, Len(@))]
    /\ UNCHANGED <<submitted, published, clientVars, readVars, faultVars>>

\* What was written stays on the line.
Send_throws(s) ==
    /\ rest[s] # <<>> /\ Fault
    /\ rest' = [rest EXCEPT ![s] = <<>>]
    /\ submitted' = [submitted EXCEPT ![Len(submitted)].whole = FALSE]
    /\ UNCHANGED <<published, clientVars, line, readVars>>

------------------------------------------------------------------------------
(* read_main and read_main2.                                               *)

Ends == {i \in 1 .. Len(buf) : buf[i] = FEND}
Reading == reader = "running" /\ Ends = {}

\* What is there, that is any part of what has been sent.
read ==
    /\ Reading /\ line # <<>>
    /\ buf' = buf \o line /\ line' = <<>>
    /\ UNCHANGED <<submitted, published, clientVars, rest, state, reader, faultVars>>

\* read_main calls read_main2 again, with variables of its own.
Restart == buf' = <<>> /\ state' = "UNKNOWN"

read_fails ==
    /\ Reading /\ Fault /\ Restart
    /\ UNCHANGED <<submitted, published, clientVars, rest, line, reader>>

\* The loop that opens the port again is not left once it is entered.
read_eof ==
    /\ Reading /\ Fault /\ reader' = "reopening"
    /\ UNCHANGED <<submitted, published, clientVars, rest, line, buf, state>>

inject_mutant_behind(f) ==
    /\ published' = Append(published, f)
    /\ queue' = [c \in Client |-> IF handler[c] = "in" THEN <<f>> \o queue[c] ELSE queue[c]]

inject_mutant_busy(f) ==
    /\ published' = Append(published, f)
    /\ queue' = [c \in Client |->
                    IF handler[c] = "in" /\ queue[c] = <<>> THEN <<f>> ELSE queue[c]]

\* A queue whose handler has returned is dropped from the list.
inject(f) ==
    /\ published' = Append(published, f)
    /\ queue' = [c \in Client |-> IF handler[c] = "in" THEN Append(queue[c], f) ELSE queue[c]]

Keep == UNCHANGED <<published, queue>>

\* The next FEND in buf.  What lies before it is a frame if the thread has seen
\* a FEND before; an invalid escape throws, with all of buf.
frame ==
    /\ Ends # {} /\ reader = "running"
    /\ LET fend == CHOOSE i \in Ends : \A j \in Ends : i <= j
           data == SubSeq(buf, 1, fend - 1)
           payload == kiss_unescape(data)
       IN IF state = "READING" /\ Invalid(data)
          THEN Restart /\ calm' = Len(submitted) /\ Keep
          ELSE /\ state' = "READING" /\ buf' = SubSeq(buf, fend + 1, Len(buf))
               /\ UNCHANGED calm
               /\ IF state = "READING" /\ payload # <<>> /\ payload[1] = 0
                  THEN inject(Tail(payload))
                  ELSE Keep
    /\ UNCHANGED <<submitted, handler, gone, joined, got, rest, line, reader, faults>>

------------------------------------------------------------------------------
(* StreamFrames.                                                           *)

StreamFrames(c) ==
    /\ handler[c] = "out" /\ handler' = [handler EXCEPT ![c] = "in"]
    /\ joined' = [joined EXCEPT ![c] = Len(published)]
    /\ UNCHANGED <<submitted, published, gone, got, serialVars>>

\* pop() and Write(): the Write fails when the client has gone, and the handler
\* returns; with nothing to write it stays.
StreamFrames_write(c) ==
    /\ handler[c] = "in" /\ queue[c] # <<>>
    /\ IF c \in gone
       THEN /\ handler' = [handler EXCEPT ![c] = "done"]
            /\ queue' = [queue EXCEPT ![c] = <<>>] /\ UNCHANGED got
       ELSE /\ got' = [got EXCEPT ![c] = Append(@, Head(queue[c]))]
            /\ queue' = [queue EXCEPT ![c] = Tail(@)] /\ UNCHANGED handler
    /\ UNCHANGED <<submitted, published, gone, joined, rest, line, readVars, faultVars>>

client_cancels(c) ==
    /\ handler[c] = "in" /\ c \notin gone /\ gone' = gone \union {c}
    /\ UNCHANGED <<submitted, published, handler, joined, got, serialVars>>

\* What the threads do of their own accord.
Progress ==
    \/ \E s \in Sender : Send_write(s)
    \/ read \/ frame
    \/ \E c \in Client : StreamFrames_write(c)

Next ==
    \/ Progress
    \/ \E s \in Sender : Send(s) \/ Send_throws(s)
    \/ read_fails \/ read_eof
    \/ \E c \in Client : StreamFrames(c) \/ client_cancels(c)

------------------------------------------------------------------------------
(* Properties.                                                             *)

\* One Send at a time is between its first octet and its last.
OneWriter == \A s, t \in Sender : rest[s] # <<>> /\ rest[t] # <<>> => s = t

\* Every frame that comes off the line is one that was sent, in the order of the
\* Sends, and each only once.  Frames may be missing where something failed,
\* and of a frame whose Send failed the beginning may come in its place; never
\* does a frame come out that is made of two, or the end of one.
FramesIntact ==
    \E f \in [1 .. Len(published) -> 1 .. Len(submitted)] :
        \A i \in 1 .. Len(published) :
            /\ \A j \in 1 .. i - 1 : f[j] < f[i]
            /\ LET send == submitted[f[i]] IN
                 IF send.whole THEN published[i] = send.payload
                 ELSE IsPrefix(published[i], send.payload)

\* What was sent after the last failure comes off the line, whatever was lost or
\* cut short before: the reader finds its way back to the frames by itself.  It
\* does not once the port has met its end of file.
Recent == [i \in 1 .. Len(submitted) - calm |-> submitted[calm + i].payload]
Resynchronises == []<>(reader = "reopening" \/ IsSuffix(Recent, published))
==============================================================================
