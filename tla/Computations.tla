---------------------------- MODULE Computations ----------------------------
(***************************************************************************)
(* What the program computes, run from chosen inputs and compared with     *)
(* what the computation is for: the loops of SequenceLoops, the frames of  *)
(* Codec as they come out of serialize and go into parse, whole, damaged   *)
(* or cut off, and T1Value from one round trip to the next.                *)
(***************************************************************************)
EXTENDS SequenceLoops, Codec, T1Value

CONSTANT Damaged       \* types of frame that are damaged

VARIABLES packet, with_fcs, damage, parsed     \* a frame

frameVars == <<packet, with_fcs, damage, parsed>>
allVars   == <<vars, frameVars, t1Vars>>

\* T1 as a connection finds it that is set up by its peer.
NoT1 == T1Init /\ ~started

------------------------------------------------------------------------------
(* Frames.                                                                 *)

Short == [call |-> <<75, 55>>, ssid |-> 0]
Long  == [call |-> <<77, 48, 84, 72, 67, 90>>, ssid |-> 15]
Digis(n) == [k \in 1 .. n |-> [address |-> Short, has_been_repeated |-> k = 1]]

Plain ==
    [dst |-> Long, src |-> Short, repeater |-> <<>>, command_response |-> TRUE,
     command_response_la |-> FALSE, rr_extseq |-> FALSE, type |-> "",
     poll |-> FALSE, nr |-> 0, ns |-> 0, pid |-> 0, payload |-> <<>>]

NoDamage == [kind |-> "none"]
NotYet   == [outcome |-> "none"]
NoFrame == packet = Plain /\ with_fcs = FALSE /\ damage = NoDamage /\ parsed = NotYet

\* The frames that the daemon sends, but for RR and REJ with the two control
\* octets of modulo 128, which parse reads as if there were one.
Packets ==
    UNION {
        {[Plain EXCEPT !.type = t, !.poll = b, !.repeater = Digis(n),
                       !.rr_extseq = e, !.command_response = b] :
            t \in {"SABM", "SABME", "DISC", "DM", "UA"}, b, e \in BOOLEAN, n \in 0 .. 2},
        {[Plain EXCEPT !.type = "UI", !.poll = b, !.pid = 240, !.payload = s,
                       !.repeater = Digis(n)] :
            b \in BOOLEAN, s \in {<<>>, <<0, 255>>}, n \in 0 .. 2},
        {[Plain EXCEPT !.type = t, !.poll = b, !.nr = n, !.src = Long, !.dst = Short] :
            t \in {"RR", "REJ"}, b \in BOOLEAN, n \in 0 .. 7},
        {[Plain EXCEPT !.type = "I", !.poll = b, !.nr = n, !.ns = m, !.pid = 240,
                       !.payload = s, !.repeater = Digis(1)] :
            b \in BOOLEAN, n, m \in {0, 1, 4, 7}, s \in {<<>>, <<1, 219>>}},
        {[Plain EXCEPT !.type = "I", !.poll = b, !.nr = n, !.ns = m, !.pid = 1,
                       !.payload = s, !.rr_extseq = TRUE] :
            b \in BOOLEAN, n, m \in {0, 1, 64, 127}, s \in {<<>>, <<1, 219>>}}}

\* Bits are numbered in the order in which they are sent.  A burst is at most
\* 16 bits long.
Bursts == {{0}, {0, 1}, {0, 7, 8}, {0, 3, 5, 15}, 0 .. 15}
Flips(n) ==
    {{b + k : k \in s} : b \in 0 .. 8 * n - 16, s \in Bursts}
        \union {{b, k} : b \in {0, 50, 8 * n - 1}, k \in 0 .. 8 * n - 1}

Flipped(data, bits) ==
    [j \in 1 .. Len(data) |->
        data[j] ^^ MapThenSumSet(LAMBDA b : 2 ^ (b % 8), {b \in bits : b \div 8 = j - 1})]

Received(data) ==
    CASE damage.kind = "none" -> data
      [] damage.kind = "flip" -> Flipped(data, damage.bits)
      [] damage.kind = "cut"  -> SubSeq(data, 1, Len(data) - damage.by)

\* No loop runs.
Without(what) ==
    /\ loop = "done" /\ ran = what /\ input = NewConnection /\ arg = 0
    /\ c = NewConnection /\ i = 0 /\ found = FALSE

FrameInit ==
    /\ Without("frame") /\ NoT1 /\ parsed = NotYet
    /\ packet \in Packets
    /\ \/ with_fcs \in BOOLEAN /\ damage = NoDamage
       \/ with_fcs = FALSE /\ \E n \in 1 .. 10 : damage = [kind |-> "cut", by |-> n]
       \/ /\ with_fcs = TRUE /\ packet.type \in Damaged
          /\ packet.poll /\ ~packet.rr_extseq /\ packet.nr = packet.ns /\ packet.nr < 4
          /\ \E s \in Flips(Len(serialize(packet, TRUE))) :
                damage = [kind |-> "flip", bits |-> s]

frame ==
    /\ ran = "frame" /\ parsed = NotYet
    /\ parsed' = parse(Received(serialize(packet, with_fcs)), with_fcs)
    /\ UNCHANGED <<vars, packet, with_fcs, damage, t1Vars>>

------------------------------------------------------------------------------
\* The T1 of one connection.
T1Starts == Without("t1") /\ NoFrame /\ T1Init
T1Moves  == ran = "t1" /\ T1Next /\ UNCHANGED <<vars, frameVars>>

------------------------------------------------------------------------------
AllInit ==
    \/ Init /\ NoFrame /\ NoT1
    \/ FrameInit
    \/ T1Starts

AllNext ==
    \/ Next /\ UNCHANGED <<frameVars, t1Vars>>
    \/ frame
    \/ T1Moves

LoopStep == Next /\ UNCHANGED <<frameVars, t1Vars>>
AllSpec == AllInit /\ [][AllNext]_allVars /\ WF_allVars(LoopStep)

\* parse gives back the packet that serialize was given.  With an FCS it refuses
\* the frame if up to sixteen bits in a row, or any two, were received wrong.
\* Without, and cut off, the frame is refused or is the same but for the end of
\* its payload.
ParseInvertsSerialize ==
    ran = "frame" /\ parsed # NotYet =>
        CASE damage.kind = "none" -> parsed = [outcome |-> "ok", packet |-> packet]
          [] damage.kind = "flip" -> parsed.outcome = "refused"
          [] damage.kind = "cut"  ->
                parsed.outcome = "ok" =>
                    /\ IsPrefix(parsed.packet.payload, packet.payload)
                    /\ parsed.packet = [packet EXCEPT !.payload = parsed.packet.payload]
==============================================================================
