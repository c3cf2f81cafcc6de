-------------------------------- MODULE Codec --------------------------------
(***************************************************************************)
(* AX.25 frames as octets: serialize (src/src/serialize.cc), parse         *)
(* (src/src/parse.cc) and the frame check sequence (src/src/fcs.cc).       *)
(*                                                                         *)
(* A packet is a record.  Its addresses are a call sign, the octets of its *)
(* characters, and an SSID; the text form "CALL-SSID" in which the program *)
(* passes them around is left out.  Fields that a frame of the type does   *)
(* not have are 0, FALSE or <<>>, as in a protobuf.                        *)
(***************************************************************************)
EXTENDS Integers, Sequences, SequencesExt, Bitwise

Octet == 0 .. 255
Space == 32
bit(x, k) == (x \div (2 ^ k)) % 2
flag(b) == IF b THEN 1 ELSE 0

------------------------------------------------------------------------------
(* The frame check sequence.                                               *)

Table == <<
    0, 4489, 8978, 12955, 17956, 22445, 25910, 29887, 35912, 40385, 44890,
    48851, 51820, 56293, 59774, 63735, 4225, 264, 13203, 8730, 22181, 18220,
    30135, 25662, 40137, 36160, 49115, 44626, 56045, 52068, 63999, 59510,
    8450, 12427, 528, 5017, 26406, 30383, 17460, 21949, 44362, 48323, 36440,
    40913, 60270, 64231, 51324, 55797, 12675, 8202, 4753, 792, 30631, 26158,
    21685, 17724, 48587, 44098, 40665, 36688, 64495, 60006, 55549, 51572,
    16900, 21389, 24854, 28831, 1056, 5545, 10034, 14011, 52812, 57285, 60766,
    64727, 34920, 39393, 43898, 47859, 21125, 17164, 29079, 24606, 5281, 1320,
    14259, 9786, 57037, 53060, 64991, 60502, 39145, 35168, 48123, 43634,
    25350, 29327, 16404, 20893, 9506, 13483, 1584, 6073, 61262, 65223, 52316,
    56789, 43370, 47331, 35448, 39921, 29575, 25102, 20629, 16668, 13731,
    9258, 5809, 1848, 65487, 60998, 56541, 52564, 47595, 43106, 39673, 35696,
    33800, 38273, 42778, 46739, 49708, 54181, 57662, 61623, 2112, 6601, 11090,
    15067, 20068, 24557, 28022, 31999, 38025, 34048, 47003, 42514, 53933,
    49956, 61887, 57398, 6337, 2376, 15315, 10842, 24293, 20332, 32247, 27774,
    42250, 46211, 34328, 38801, 58158, 62119, 49212, 53685, 10562, 14539,
    2640, 7129, 28518, 32495, 19572, 24061, 46475, 41986, 38553, 34576, 62383,
    57894, 53437, 49460, 14787, 10314, 6865, 2904, 32743, 28270, 23797, 19836,
    50700, 55173, 58654, 62615, 32808, 37281, 41786, 45747, 19012, 23501,
    26966, 30943, 3168, 7657, 12146, 16123, 54925, 50948, 62879, 58390, 37033,
    33056, 46011, 41522, 23237, 19276, 31191, 26718, 7393, 3432, 16371, 11898,
    59150, 63111, 50204, 54677, 41258, 45219, 33336, 37809, 27462, 31439,
    18516, 23005, 11618, 15595, 3696, 8185, 63375, 58886, 54429, 50452, 45483,
    40994, 37561, 33584, 31687, 27214, 22741, 18780, 15843, 11370, 7921, 3960>>

fcstab == [b \in Octet |-> Table[b + 1]]

\* Eight steps of the shift register of RFC 1662.
Shifted(r) == IF r % 2 = 1 THEN (r \div 2) ^^ 33800 ELSE r \div 2
Register(b) == LET r[k \in 0 .. 8] == IF k = 0 THEN b ELSE Shifted(r[k - 1]) IN r[8]

\* The table is that register's; a wrong number in it would spoil some frames.
ASSUME TableIsRFC1662 == \A b \in Octet : fcstab[b] = Register(b)

fcs(data) ==
    LET crc == FoldLeft(LAMBDA r, b : (r \div 256) ^^ fcstab[(r ^^ b) % 256],
                        65535, data)
    IN  <<(65535 - crc) % 256, (65535 - crc) \div 256>>

check_fcs(data) ==
    fcs(SubSeq(data, 1, Len(data) - 2)) = SubSeq(data, Len(data) - 1, Len(data))

------------------------------------------------------------------------------
(* serialize.                                                              *)

serialize_call(a, last, high, ext) ==
    [k \in 1 .. 7 |->
        CASE k <= Len(a.call)            -> 2 * a.call[k]
          [] k > Len(a.call) /\ k < 7    -> 2 * Space
          [] OTHER -> 128 * flag(high) + 64 * flag(~ext) + 32
                          + 2 * a.ssid + flag(last)]

U == [UI |-> 3, SABM |-> 47, SABME |-> 111, DISC |-> 67, DM |-> 15, UA |-> 99]
SFrame == [RR |-> 1, REJ |-> 9]

control_mutant_nr(p) ==
    LET pf   == flag(p.poll)
        low  == IF p.type = "I" THEN 2 * p.ns ELSE SFrame[p.type]
        high == 2 * (p.nr % 4)
    IN  CASE p.type \in DOMAIN U                     -> <<U[p.type] + 16 * pf>>
          [] p.type \notin DOMAIN U /\ ~p.rr_extseq ->
                <<(low % 16) + 16 * pf + ((16 * high) % 256)>>
          [] p.type \notin DOMAIN U /\ p.rr_extseq  -> <<low % 256, (high % 256) + pf>>

control(p) ==
    LET pf   == flag(p.poll)
        low  == IF p.type = "I" THEN 2 * p.ns ELSE SFrame[p.type]
        high == 2 * p.nr
    IN  CASE p.type \in DOMAIN U                     -> <<U[p.type] + 16 * pf>>
          [] p.type \notin DOMAIN U /\ ~p.rr_extseq ->
                <<(low % 16) + 16 * pf + ((16 * high) % 256)>>
          [] p.type \notin DOMAIN U /\ p.rr_extseq  -> <<low % 256, (high % 256) + pf>>

HasPayload(p) == p.type \in {"UI", "I"}

serialize(p, with_fcs) ==
    LET n == Len(p.repeater)
        frame ==
            serialize_call(p.dst, FALSE, p.command_response, FALSE)
            \o serialize_call(p.src, n = 0, p.command_response_la, p.rr_extseq)
            \o FlattenSeq([k \in 1 .. n |->
                   serialize_call(p.repeater[k].address, k = n,
                                  p.repeater[k].has_been_repeated, FALSE)])
            \o control(p)
            \o (IF HasPayload(p) THEN <<p.pid>> \o p.payload ELSE <<>>)
    IN  IF with_fcs THEN frame \o fcs(frame) ELSE frame

------------------------------------------------------------------------------
(* parse.  Its outcome is "ok" with a packet, "refused", or "throws" where  *)
(* it reads past the end of the data.                                      *)

Refused == [outcome |-> "refused"]
Throws  == [outcome |-> "throws"]

\* The address in the k-th seven octets: spaces go, wherever they are.
parse_call(data, k) ==
    [call |-> SelectSeq([j \in 1 .. 6 |-> data[7 * k - 7 + j] \div 2],
                        LAMBDA ch : ch # Space),
     ssid |-> (data[7 * k] \div 2) % 16]

\* The packet with n addresses, all but what its control octets say.
Addressed(data, n) ==
    [dst                 |-> parse_call(data, 1),
     src                 |-> parse_call(data, 2),
     repeater            |-> [k \in 1 .. n - 2 |->
                                [address           |-> parse_call(data, k + 2),
                                 has_been_repeated |-> bit(data[7 * (k + 2)], 7) = 1]],
     command_response    |-> bit(data[7], 7) = 1,
     command_response_la |-> bit(data[14], 7) = 1,
     rr_extseq           |-> bit(data[14], 6) = 0,
     type |-> "", poll |-> FALSE, nr |-> 0, ns |-> 0, pid |-> 0, payload |-> <<>>]

\* a: the packet so far; c: its control octet; rest: what follows.
parse_iframe(a, c, rest) ==
    LET own == IF a.rr_extseq THEN 2 ELSE 1     \* octets before the payload
        e   == rest[1]
    IN  IF Len(rest) < own THEN Throws
        ELSE [outcome |-> "ok",
              packet  |-> [a EXCEPT
                  !.type = "I", !.ns = IF a.rr_extseq THEN c \div 2 ELSE (c \div 2) % 8,
                  !.nr = IF a.rr_extseq THEN e \div 2 ELSE c \div 32,
                  !.poll = bit(IF a.rr_extseq THEN e * 16 ELSE c, 4) = 1,
                  !.pid = rest[own], !.payload = SubSeq(rest, own + 1, Len(rest))]]

\* A second control octet is not looked for.
parse_sframe(a, c) ==
    [outcome |-> "ok",
     packet  |-> [a EXCEPT !.type = <<"RR", "RNR", "REJ", "SREJ">>[((c \div 4) % 4) + 1],
                           !.nr = c \div 32, !.poll = bit(c, 4) = 1]]

parse_uframe(a, c, rest) ==
    LET base  == c - 16 * bit(c, 4)
        known == {t \in DOMAIN U : U[t] = base}
        p     == [a EXCEPT !.poll = bit(c, 4) = 1]
    IN  CASE base = U.UI /\ rest = <<>> -> Throws
          [] base = U.UI /\ rest # <<>> ->
                [outcome |-> "ok",
                 packet  |-> [p EXCEPT !.type = "UI", !.pid = rest[1],
                                       !.payload = Tail(rest)]]
          [] base # U.UI /\ known # {} ->
                [outcome |-> "ok",
                 packet  |-> [p EXCEPT !.type = CHOOSE t \in known : TRUE]]
          [] base = 227 ->
                [outcome |-> "ok", packet |-> [p EXCEPT !.type = "TEST", !.payload = rest]]
          [] OTHER -> Refused

\* The addresses end with the first whose last octet is odd, from the second
\* on; the other octets of an address are even.
parse(fulldata, with_fcs) ==
    LET data  == IF with_fcs THEN SubSeq(fulldata, 1, Len(fulldata) - 2) ELSE fulldata
        whole == 1 .. Len(data) \div 7
        done  == {k \in whole : data[7 * k] % 2 = 1}
        n     == CHOOSE k \in done : \A j \in done : k <= j
        odd   == {j \in 1 .. Len(data) : j % 7 # 0 /\ data[j] % 2 = 1}
        Bad   == \E j \in odd : done = {} \/ j < 7 * n
        c     == data[7 * n + 1]
        rest  == SubSeq(data, 7 * n + 2, Len(data))
    IN  IF Len(fulldata) < 15 \/ (with_fcs /\ ~check_fcs(fulldata)) THEN Refused
        ELSE CASE 1 \in done \/ Bad -> Refused
               [] ~(1 \in done \/ Bad) /\ (done = {} \/ Len(data) < 7 * n + 1) -> Throws
               [] OTHER ->
                    LET a == Addressed(data, n) IN
                    CASE c % 2 = 0 -> parse_iframe(a, c, rest)
                      [] c % 4 = 1 -> parse_sframe(a, c)
                      [] c % 4 = 3 -> parse_uframe(a, c, rest)
==============================================================================
