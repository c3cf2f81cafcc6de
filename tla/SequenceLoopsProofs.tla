-------------------------- MODULE SequenceLoopsProofs --------------------------
(***************************************************************************)
(* The loops that walk the circle of sequence numbers compute the closed   *)
(* forms of module ConnectionState, for every modulus, every window and    *)
(* queues of every length; and, at the end, the T1 of module T1Value       *)
(* outlasts the round trips it is set from, whatever they are.             *)
(***************************************************************************)
EXTENDS SequenceLoops, T1Value, ConnectionLemmas

\* What the queues of the inputs hold.
Number == {CHOOSE p \in Payload : p = k : k \in Nat}

\* The connections the loops start from.
Inputs ==
    [st : {"Connected"}, modulus : {Modulus}, layer3_initiated : {FALSE},
     reject_exception : {FALSE}, acknowledge_pending : {FALSE},
     n2 : {DefaultN2}, rc : {0}, vs : Circle, va : Circle, vr : {0},
     t1 : BOOLEAN, t3 : BOOLEAN,
     iframe_queue : Seq(Number), iframe_resend_queue : Seq(Number),
     out : {<<>>}, up : {<<>>}, aborted : {FALSE}]

\* The circle has at least two numbers, and a window of K fits.
LEMMA CircleIs ==
    /\ Modulus \in Nat \ {0} /\ Modulus > 1 /\ K \in 1 .. Modulus - 1
    /\ Circle = 0 .. Modulus - 1 /\ 0 \in Circle
BY ModulusAssumption, WindowAssumption DEF Circle

\* n numbered frames.
LEMMA NumberedIs ==
    ASSUME NEW n \in 0 .. MaxQueue
    PROVE  Numbered(n) \in Seq(Number)
<1>1. n \in Nat
  BY MaxQueueAssumption
<1>2. \A k \in 1 .. n : (CHOOSE p \in Payload : p = k) \in Number
  BY <1>1 DEF Number
<1> QED
  BY <1>1, <1>2 DEF Numbered

\* Init takes its connections from Inputs.
LEMMA AtIs ==
    ASSUME NEW va \in Circle, NEW vs \in Circle, NEW w \in 0 .. MaxQueue,
           NEW s \in 0 .. MaxQueue, NEW t1 \in BOOLEAN, NEW t3 \in BOOLEAN
    PROVE  /\ At(va, vs, w, s) \in Inputs
           /\ [At(va, vs, w, s) EXCEPT !.t1 = t1, !.t3 = t3] \in Inputs
<1>1. PICK q \in Seq(Number), r \in Seq(Number) : q = Numbered(w) /\ r = Numbered(s)
  BY NumberedIs
<1>2. At(va, vs, w, s) = [NewConnection EXCEPT
        !.st = "Connected", !.modulus = Modulus, !.va = va, !.vs = vs,
        !.iframe_queue = q, !.iframe_resend_queue = r]
  BY <1>1 DEF At
<1>3. At(va, vs, w, s) \in Inputs
  BY <1>2, ZenonT(40) DEF Inputs, NewConnection
<1>4. [At(va, vs, w, s) EXCEPT !.t1 = t1, !.t3 = t3] \in Inputs
  BY <1>3 DEF Inputs
<1> QED
  BY <1>3, <1>4

------------------------------------------------------------------------------
(* The circle.                                                             *)

\* One step on is one step further from a, short of b.
LEMMA StepOn ==
    ASSUME NEW m \in Nat \ {0}, NEW a \in 0 .. m - 1, NEW b \in 0 .. m - 1,
           NEW x \in 0 .. m - 1, (x - a) % m <= (b - a) % m, x # b
    PROVE  /\ (x + 1) % m \in 0 .. m - 1
           /\ (((x + 1) % m) - a) % m = ((x - a) % m) + 1
           /\ (((x + 1) % m) - a) % m <= (b - a) % m
<1> DEFINE y == (x + 1) % m
<1>1. (x - a) % m = (IF a <= x THEN x - a ELSE x - a + m)
      /\ (b - a) % m = (IF a <= b THEN b - a ELSE b - a + m)
  BY ModDiff
<1>2. y = IF x + 1 < m THEN x + 1 ELSE x + 1 - m
  <2>1. 1 \in 0 .. m
    OBVIOUS
  <2> QED
    BY <2>1, ModSum
<1>3. y \in 0 .. m - 1
  BY <1>2
<1> HIDE DEF y
<1>4. (y - a) % m = IF a <= y THEN y - a ELSE y - a + m
  BY <1>3, ModDiff
<1>5. (y - a) % m = ((x - a) % m) + 1 /\ (y - a) % m <= (b - a) % m
  BY <1>1, <1>2, <1>4
<1> QED
  BY <1>3, <1>5 DEF y

\* Two numbers equally far from a are the same.
LEMMA SameDistance ==
    ASSUME NEW m \in Nat \ {0}, NEW a \in 0 .. m - 1, NEW x \in 0 .. m - 1,
           NEW y \in 0 .. m - 1
    PROVE  /\ (x - a) % m = (y - a) % m <=> x = y
           /\ (a - a) % m = 0 /\ (x - a) % m \in 0 .. m - 1
<1>1. (x - a) % m = (IF a <= x THEN x - a ELSE x - a + m)
      /\ (y - a) % m = (IF a <= y THEN y - a ELSE y - a + m)
      /\ (a - a) % m = (IF a <= a THEN a - a ELSE a - a + m)
  BY ModDiff
<1> QED
  BY <1>1

\* Where the window ends, n steps on from x.
LEMMA RoomIs ==
    ASSUME NEW m \in Nat \ {0}, NEW a \in 0 .. m - 1, NEW x \in 0 .. m - 1,
           NEW k \in 1 .. m - 1, NEW n \in Nat, n <= (a + k - x) % m
    PROVE  /\ (a + k - x) % m \in 0 .. m - 1
           /\ (x + n) % m = (a + k) % m <=> n = (a + k - x) % m
<1> DEFINE e == (a + k) % m
           r == (a + k - x) % m
<1>1. e = IF a + k < m THEN a + k ELSE a + k - m
  <2>1. k \in 0 .. m
    OBVIOUS
  <2> QED
    BY <2>1, ModSum
<1>2. r = IF x <= e THEN e - x ELSE e - x + m
  <2>1. CASE a + k - x < 0
    <3>1. a + k - x \in -m .. -1
      BY <2>1
    <3>2. r = a + k - x + m
      BY <3>1, ModUnder
    <3> QED
      BY <1>1, <2>1, <3>2
  <2>2. CASE a + k - x \in 0 .. m - 1
    <3>1. r = a + k - x
      BY <2>2, ModPlain
    <3> QED
      BY <1>1, <2>2, <3>1
  <2>3. CASE a + k - x >= m
    <3>1. a + k - x \in m .. 2 * m - 1
      BY <2>3
    <3>2. r = a + k - x - m
      BY <3>1, ModOver
    <3> QED
      BY <1>1, <2>3, <3>2
  <2> QED
    BY <2>1, <2>2, <2>3
<1>3. e \in 0 .. m - 1
  BY <1>1
<1>4. r \in 0 .. m - 1
  BY <1>2, <1>3
<1>5. (x + n) % m = IF x + n < m THEN x + n ELSE x + n - m
  <2>1. n \in 0 .. m
    BY <1>4
  <2> QED
    BY <2>1, ModSum
<1> HIDE DEF e, r
<1>6. (x + n) % m = e <=> n = r
  <2>1. n <= r
    BY DEF r
  <2> QED
    BY <1>2, <1>3, <1>4, <1>5, <2>1
<1> QED
  BY <1>4, <1>6 DEF e, r

------------------------------------------------------------------------------
(* in_range.                                                               *)

\* The numbers from va up to before i are not nr, and the walk has not passed vs.
InRangeInv ==
    ran = "in_range" =>
        /\ c = input /\ input \in Inputs /\ arg \in 0 .. Modulus /\ i \in Circle
        /\ loop \in {"in_range", "done"}
        /\ loop = "in_range" =>
             /\ ahead(input, input.va, i) <= Outstanding(input)
             /\ arg \in Circle => ahead(input, input.va, i) <= ahead(input, input.va, arg)
        /\ loop = "done" => found = in_range(input, arg)

\* The loop begins.
LEMMA InRangeBegins == Init => InRangeInv
<1> SUFFICES ASSUME Init, ran = "in_range" PROVE InRangeInv
  BY DEF InRangeInv
<1>1. PICK va \in Circle, vs \in Circle, nr \in 0 .. Modulus :
         Start("in_range", At(va, vs, 0, 0), nr, va)
  BY DEF Init, Start
<1>2. input \in Inputs /\ input.va = va /\ input.vs = vs /\ input.modulus = Modulus
  <2>1. 0 \in 0 .. MaxQueue
    BY MaxQueueAssumption
  <2>2. At(va, vs, 0, 0) \in Inputs
    BY <2>1, AtIs
  <2>3. At(va, vs, 0, 0).va = va /\ At(va, vs, 0, 0).vs = vs
    BY DEF At, NewConnection
  <2> QED
    BY <1>1, <2>2, <2>3 DEF Start, Inputs
<1>3. /\ (va - va) % Modulus = 0 /\ (vs - va) % Modulus \in 0 .. Modulus - 1
      /\ nr \in Circle => (nr - va) % Modulus \in 0 .. Modulus - 1
  BY CircleIs, SameDistance
<1>4. loop = "in_range" /\ c = input /\ arg = nr /\ i = va
  BY <1>1 DEF Start
<1> QED
  BY <1>2, <1>3, <1>4 DEF InRangeInv, ahead, Outstanding

\* Every step of it keeps to that.
LEMMA InRangeGoesOn == InRangeInv /\ [Next]_vars => InRangeInv'
<1> SUFFICES ASSUME InRangeInv, [Next]_vars, ran' = "in_range" PROVE InRangeInv'
  BY DEF InRangeInv
<1>1. CASE UNCHANGED vars
  BY <1>1 DEF vars, InRangeInv, ahead, Outstanding, in_range
<1>2. CASE Next
  <2>1. UNCHANGED <<ran, input, arg>>
    BY <1>2 DEF Next, in_range_loop, update_ack_loop, invoke_retransmission_loop,
                dl_data_poll_loop, End, Iterate
  <2>2. in_range_loop
    <3>1. loop \in {"in_range", "done"}
      BY <2>1 DEF InRangeInv
    <3> QED
      BY <1>2, <3>1 DEF Next, update_ack_loop, invoke_retransmission_loop, dl_data_poll_loop
  <2> DEFINE m == Modulus
             a == input.va
             b == input.vs
  <2>3. m \in Nat \ {0} /\ a \in 0 .. m - 1 /\ b \in 0 .. m - 1 /\ i \in 0 .. m - 1
        /\ c = input /\ input \in Inputs /\ input.modulus = m /\ loop = "in_range"
        /\ arg \in 0 .. m /\ (i - a) % m <= (b - a) % m
        /\ (arg \in 0 .. m - 1 => (i - a) % m <= (arg - a) % m)
    BY <2>1, <2>2, CircleIs DEF InRangeInv, Inputs, in_range_loop, ahead, Outstanding
  <2>4. in_range(input, arg) <=> arg \in 0 .. m - 1 /\ (arg - a) % m <= (b - a) % m
    BY <2>3 DEF in_range, ahead, Outstanding
  <2>5. CASE i = arg /\ End(c, TRUE)
    <3>1. in_range(input, arg) = TRUE
      BY <2>3, <2>4, <2>5 DEF in_range
    <3> QED
      BY <2>1, <2>3, <2>5, <3>1, CircleIs DEF End, InRangeInv, in_range, ahead, Outstanding
  <2>6. CASE i # arg /\ i = c.vs /\ End(c, FALSE)
    <3>1. in_range(input, arg) = FALSE
      <4>1. CASE arg \in 0 .. m - 1
        <5>1. (arg - a) % m # (b - a) % m /\ (arg - a) % m \in 0 .. m - 1
              /\ (b - a) % m \in 0 .. m - 1
          <6>1. arg # b
            BY <2>3, <2>6
          <6>2. (arg - a) % m = (b - a) % m <=> arg = b
            <7>1. m \in Nat \ {0} /\ a \in 0 .. m - 1 /\ b \in 0 .. m - 1 /\ arg \in 0 .. m - 1
              BY <2>3, <4>1
            <7> HIDE DEF m, a, b
            <7> QED
              BY <7>1, SameDistance
          <6>3. (arg - a) % m \in 0 .. m - 1 /\ (b - a) % m \in 0 .. m - 1
            BY <2>3, <4>1, SameDistance
          <6> QED
            BY <6>1, <6>2, <6>3
        <5>2. (b - a) % m <= (arg - a) % m
          BY <2>3, <2>6, <4>1
        <5>3. ~in_range(input, arg)
          <6> DEFINE u == (arg - a) % m
                     v == (b - a) % m
          <6> HIDE DEF u, v
          <6>1. u # v /\ v <= u /\ u \in 0 .. m - 1 /\ v \in 0 .. m - 1
            BY <5>1, <5>2 DEF u, v
          <6>2. ~(u <= v)
            BY <2>3, <6>1
          <6> QED
            BY <2>4, <6>2 DEF u, v
        <5> QED
          BY <5>3 DEF in_range
      <4>2. CASE arg \notin 0 .. m - 1
        BY <2>4, <4>2 DEF in_range
      <4> QED
        BY <4>1, <4>2
    <3> QED
      BY <2>1, <2>3, <2>6, <3>1, CircleIs DEF End, InRangeInv, in_range, ahead, Outstanding
  <2>7. CASE i # arg /\ i # c.vs /\ Iterate(c, next(i))
    <3>1. /\ (i + 1) % m \in 0 .. m - 1 /\ (((i + 1) % m) - a) % m <= (b - a) % m
      BY <2>3, <2>7, StepOn
    <3>2. arg \in 0 .. m - 1 => (((i + 1) % m) - a) % m <= (arg - a) % m
      BY <2>3, <2>7, StepOn
    <3>3. i' = (i + 1) % m /\ c' = c /\ UNCHANGED <<loop, found>>
      BY <2>7 DEF Iterate, next
    <3> QED
      BY <2>1, <2>3, <3>1, <3>2, <3>3, CircleIs DEF InRangeInv, ahead, Outstanding
  <2> QED
    BY <2>2, <2>5, <2>6, <2>7 DEF in_range_loop
<1> QED
  BY <1>1, <1>2

\* Property InRangeIsBetween: whatever the modulus and wherever va, vs and nr are,
\* the loop of in_range says whether nr lies between va and vs.
THEOREM InRangeExact == Spec => []InRangeIsBetween
<1>1. InRangeInv => InRangeIsBetween
  BY DEF InRangeInv, InRangeIsBetween
<1> QED
  BY <1>1, InRangeBegins, InRangeGoesOn, PTL DEF Spec

------------------------------------------------------------------------------
(* update_ack.                                                             *)

\* The store has lost one frame for every number from va up to where the loop is.
Acked(v) ==
    LET n == ahead(input, input.va, v)
        store == input.iframe_resend_queue
    IN  /\ n <= ahead(input, input.va, arg) /\ n <= Len(store)
        /\ c = [input EXCEPT !.va = v, !.iframe_resend_queue = SubSeq(store, n + 1, Len(store))]

UpdateAckInv ==
    ran = "update_ack" =>
        /\ input \in Inputs /\ arg \in Circle
        /\ loop \in {"update_ack", "done"}
        /\ loop = "update_ack" => \E v \in Circle : Acked(v)
        /\ loop = "done" => c = update_ack(input, arg)

\* The first frames are taken one by one.
LEMMA TailOfDrop ==
    ASSUME NEW T, NEW s \in Seq(T), NEW n \in Nat, n <= Len(s)
    PROVE  LET d == SubSeq(s, n + 1, Len(s))
           IN  /\ d \in Seq(T) /\ Len(d) = Len(s) - n
               /\ d = <<>> <=> n = Len(s)
               /\ n < Len(s) => /\ Tail(d) = SubSeq(s, n + 2, Len(s)) /\ Head(d) = s[n + 1]
                                /\ s[n + 1] \in T
<1> DEFINE d == SubSeq(s, n + 1, Len(s))
           e == SubSeq(s, n + 2, Len(s))
<1>1. d \in Seq(T) /\ Len(d) = Len(s) - n /\ \A j \in 1 .. Len(s) - n : d[j] = s[n + j]
  OBVIOUS
<1> HIDE DEF d
<1>2. d = <<>> <=> n = Len(s)
  BY <1>1, EmptySeq
<1>3. ASSUME n < Len(s) PROVE Tail(d) = e /\ Head(d) = s[n + 1] /\ s[n + 1] \in T
  <2>1. d # <<>>
    BY <1>1, <1>2, <1>3
  <2>2. Tail(d) \in Seq(T) /\ Len(Tail(d)) = Len(s) - n - 1
        /\ \A j \in 1 .. Len(s) - n - 1 : Tail(d)[j] = s[n + 1 + j]
    BY <1>1, <1>3, <2>1
  <2>3. e \in Seq(T) /\ Len(e) = Len(s) - n - 1
        /\ \A j \in 1 .. Len(s) - n - 1 : e[j] = s[n + 1 + j]
    BY <1>3
  <2> DEFINE t == Tail(d)
  <2> HIDE DEF t, e
  <2>4. t = e
    <3>1. t \in Seq(T) /\ e \in Seq(T) /\ Len(t) = Len(e) /\ \A j \in 1 .. Len(t) : t[j] = e[j]
      BY <1>3, <2>2, <2>3 DEF t
    <3> QED
      BY <3>1, SeqEqual
  <2>5. Head(d) = s[n + 1] /\ s[n + 1] \in T
    BY <1>1, <1>3, <2>1
  <2> QED
    BY <2>4, <2>5 DEF t
<1> QED
  BY <1>1, <1>2, <1>3 DEF d

\* The loop begins.
LEMMA UpdateAckBegins == Init => UpdateAckInv
<1> SUFFICES ASSUME Init, ran = "update_ack" PROVE UpdateAckInv
  BY DEF UpdateAckInv
<1>1. PICK va \in Circle, nr \in Circle, n \in 0 .. MaxQueue :
         Start("update_ack", At(va, 0, 0, n), nr, 0)
  BY DEF Init, Start
<1>2. input \in Inputs /\ c = input /\ arg \in Circle /\ loop = "update_ack"
  <2>1. 0 \in 0 .. MaxQueue
    BY MaxQueueAssumption
  <2>2. At(va, 0, 0, n) \in Inputs
    BY <2>1, AtIs, CircleIs
  <2> QED
    BY <1>1, <2>2 DEF Start
<1> DEFINE v == input.va
           store == input.iframe_resend_queue
<1>3. v \in Circle /\ store \in Seq(Number) /\ input.modulus = Modulus
  BY <1>2 DEF Inputs
<1>4. ahead(input, v, v) = 0 /\ ahead(input, v, arg) \in Nat
  <2>1. v \in 0 .. Modulus - 1 /\ arg \in 0 .. Modulus - 1
    BY <1>2, <1>3, CircleIs
  <2>2. (v - v) % Modulus = 0 /\ (arg - v) % Modulus \in 0 .. Modulus - 1
    BY <2>1, CircleIs, SameDistance
  <2> QED
    BY <1>3, <2>2 DEF ahead
<1>5. SubSeq(store, 1, Len(store)) = store /\ Len(store) \in Nat
  BY <1>3, DropNone
<1>6. [input EXCEPT !.va = v, !.iframe_resend_queue = store] = c
  BY <1>2 DEF Inputs
<1>7. Acked(v)
  <2>1. ahead(input, input.va, v) = 0 /\ 0 <= ahead(input, input.va, arg) /\ 0 <= Len(store)
    BY <1>4, <1>5
  <2>2. c = [input EXCEPT !.va = v, !.iframe_resend_queue = SubSeq(store, 0 + 1, Len(store))]
    <3>1. 0 + 1 = 1
      OBVIOUS
    <3> QED
      BY <1>5, <1>6, <3>1, Zenon
  <2> HIDE DEF v
  <2> QED
    BY <2>1, <2>2 DEF Acked
<1> QED
  BY <1>2, <1>3, <1>7 DEF UpdateAckInv

\* Every frame popped is one number further.
LEMMA UpdateAckGoesOn == UpdateAckInv /\ [Next]_vars => UpdateAckInv'
<1> SUFFICES ASSUME UpdateAckInv, [Next]_vars, ran' = "update_ack" PROVE UpdateAckInv'
  BY DEF UpdateAckInv
<1>1. CASE UNCHANGED vars
  BY <1>1 DEF vars, UpdateAckInv, Acked
<1>2. CASE Next
  <2>1. UNCHANGED <<ran, input, arg>>
    BY <1>2 DEF Next, in_range_loop, update_ack_loop, invoke_retransmission_loop,
                dl_data_poll_loop, End, Iterate
  <2>2. update_ack_loop
    <3>1. loop \in {"update_ack", "done"}
      BY <2>1 DEF UpdateAckInv
    <3> QED
      BY <1>2, <3>1 DEF Next, in_range_loop, invoke_retransmission_loop, dl_data_poll_loop
  <2>3. loop = "update_ack" /\ input \in Inputs /\ arg \in Circle
    BY <2>1, <2>2 DEF UpdateAckInv, update_ack_loop
  <2>4. PICK v \in Circle : Acked(v)
    BY <2>1, <2>3 DEF UpdateAckInv
  <2> DEFINE m == Modulus
             a == input.va
             store == input.iframe_resend_queue
             n == ahead(input, a, v)
             d == SubSeq(store, n + 1, Len(store))
  <2>5. m \in Nat \ {0} /\ a \in 0 .. m - 1 /\ v \in 0 .. m - 1 /\ arg \in 0 .. m - 1
        /\ store \in Seq(Number) /\ Len(store) \in Nat /\ input.modulus = m
    BY <2>3, CircleIs DEF Inputs
  <2>6. n = (v - a) % m /\ ahead(input, a, arg) = (arg - a) % m
    BY <2>5 DEF ahead
  <2>7. n \in Nat /\ n <= (arg - a) % m /\ n <= Len(store)
    <3>1. (v - a) % m \in 0 .. m - 1
      BY <2>5, SameDistance
    <3> QED
      BY <2>4, <2>6, <3>1 DEF Acked
  <2>8. c = [input EXCEPT !.va = v, !.iframe_resend_queue = d]
    BY <2>4 DEF Acked
  <2>9. c.va = v /\ c.iframe_resend_queue = d
    BY <2>3, <2>8 DEF Inputs
  <2>10. /\ d = <<>> <=> n = Len(store)
         /\ n < Len(store) => Tail(d) = SubSeq(store, n + 2, Len(store))
    <3> HIDE DEF n
    <3> QED
      BY <2>5, <2>7, TailOfDrop, ZenonT(40)
  <2>11. (v - a) % m = (arg - a) % m <=> v = arg
    <3> HIDE DEF m, a
    <3> QED
      BY <2>5, SameDistance
  <2> DEFINE w == (arg - a) % m
  <2>12. w \in Nat /\ ahead(input, input.va, arg) = w
    <3>1. w \in 0 .. m - 1
      BY <2>5, SameDistance
    <3> QED
      BY <2>5, <2>6, <3>1
  <2> HIDE DEF n, w
  <2>13. CASE c.va = arg /\ End(c, TRUE)
    <3>1. n = w
      BY <2>6, <2>9, <2>11, <2>13 DEF w
    <3>2. c = update_ack(input, arg)
      <4>1. update_ack(input, arg) = [input EXCEPT !.va = arg, !.iframe_resend_queue = d]
        BY <2>7, <2>12, <3>1 DEF update_ack, w, n
      <4> QED
        BY <2>8, <2>9, <2>13, <4>1
    <3> QED
      BY <2>1, <2>3, <2>13, <3>2 DEF End, UpdateAckInv
  <2>14. CASE c.va # arg /\ c.iframe_resend_queue = <<>> /\ End(fail(input), TRUE)
    <3>1. n = Len(store) /\ n # w
      BY <2>6, <2>9, <2>10, <2>11, <2>14 DEF w
    <3>2. w > Len(store)
      BY <2>5, <2>7, <2>12, <3>1 DEF w
    <3>3. fail(input) = update_ack(input, arg)
      BY <2>12, <3>2 DEF update_ack
    <3> QED
      BY <2>1, <2>3, <2>14, <3>3 DEF End, UpdateAckInv
  <2>15. CASE /\ c.va # arg /\ c.iframe_resend_queue # <<>>
              /\ Iterate([c EXCEPT !.iframe_resend_queue = Tail(@), !.va = next(@)], i)
    <3> DEFINE x == (v + 1) % m
               e == SubSeq(store, n + 2, Len(store))
    <3>1. x \in 0 .. m - 1 /\ (x - a) % m = ((v - a) % m) + 1 /\ (x - a) % m <= (arg - a) % m
      <4>1. v # arg /\ (v - a) % m <= (arg - a) % m
        BY <2>6, <2>7, <2>9, <2>15
      <4> HIDE DEF m, a
      <4>2. m \in Nat \ {0} /\ a \in 0 .. m - 1 /\ v \in 0 .. m - 1 /\ arg \in 0 .. m - 1
        BY <2>5
      <4>3. /\ (v + 1) % m \in 0 .. m - 1
            /\ (((v + 1) % m) - a) % m = ((v - a) % m) + 1
            /\ (((v + 1) % m) - a) % m <= (arg - a) % m
        BY <4>1, <4>2, StepOn
      <4> QED
        BY <4>3
    <3> HIDE DEF x
    <3>2. Tail(d) = e /\ n < Len(store)
      <4>1. d # <<>>
        BY <2>9, <2>15
      <4>2. n # Len(store)
        BY <2>10, <4>1
      <4>3. n < Len(store)
        BY <2>5, <2>7, <4>2
      <4> QED
        BY <2>10, <4>3
    <3>3. c' = [c EXCEPT !.iframe_resend_queue = e, !.va = x] /\ UNCHANGED loop
      BY <2>9, <2>15, <3>2 DEF Iterate, next, x
    <3>4. c' = [input EXCEPT !.va = x, !.iframe_resend_queue = e]
      <4> HIDE DEF d, e
      <4> QED
        BY <2>3, <2>8, <3>3 DEF Inputs
    <3>5. ahead(input, input.va, x) = n + 1
      BY <2>5, <2>6, <3>1 DEF ahead
    <3>6. Acked(x)'
      <4>1. n + 1 <= w
        BY <2>6, <3>1 DEF w
      <4>2. n + 1 <= Len(store) /\ n + 1 + 1 = n + 2
        BY <2>5, <2>7, <3>2
      <4>3. c' = [input EXCEPT !.va = x, !.iframe_resend_queue = SubSeq(store, n + 1 + 1, Len(store))]
        BY <3>4, <4>2
      <4> QED
        BY <2>1, <2>12, <3>5, <4>1, <4>2, <4>3 DEF Acked, ahead
    <3> QED
      BY <2>1, <2>3, <3>1, <3>3, <3>6, CircleIs DEF UpdateAckInv
  <2> QED
    BY <2>2, <2>13, <2>14, <2>15 DEF update_ack_loop
<1> QED
  BY <1>1, <1>2

------------------------------------------------------------------------------
(* invoke_retransmission.                                                  *)

\* One frame has been pushed for every number from nr up to where the loop is.
Pushed(q) ==
    LET n == ahead(input, arg, i)
    IN  /\ n <= ahead(input, arg, input.vs) /\ n <= Len(input.iframe_resend_queue)
        /\ Len(q) = Len(input.iframe_queue) + n
        /\ c = [input EXCEPT !.iframe_queue = q]

RetransmissionInv ==
    ran = "invoke_retransmission" =>
        /\ input \in Inputs /\ arg \in Circle
        /\ loop \in {"invoke_retransmission", "done"}
        /\ loop = "invoke_retransmission" => i \in Circle /\ \E q \in Seq(Number) : Pushed(q)
        /\ loop = "done" => c = invoke_retransmission(input, arg)

\* The loop begins.
LEMMA RetransmissionBegins == Init => RetransmissionInv
<1> SUFFICES ASSUME Init, ran = "invoke_retransmission" PROVE RetransmissionInv
  BY DEF RetransmissionInv
<1>1. PICK vs \in Circle, nr \in Circle, n \in 0 .. MaxQueue :
         Start("invoke_retransmission", At(0, vs, 0, n), nr, nr)
  BY DEF Init, Start
<1>2. /\ input \in Inputs /\ c = input /\ arg \in Circle /\ i = arg
      /\ loop = "invoke_retransmission"
  <2>1. 0 \in 0 .. MaxQueue
    BY MaxQueueAssumption
  <2>2. At(0, vs, 0, n) \in Inputs
    BY <2>1, AtIs, CircleIs
  <2> QED
    BY <1>1, <2>2 DEF Start
<1>3. PICK q \in Seq(Number) : q = input.iframe_queue
  BY <1>2 DEF Inputs
<1>4. c = [input EXCEPT !.iframe_queue = q]
  BY <1>2, <1>3 DEF Inputs
<1>5. ahead(input, arg, i) = 0 /\ ahead(input, arg, input.vs) \in Nat
  <2>1. /\ arg \in 0 .. Modulus - 1 /\ input.vs \in 0 .. Modulus - 1 /\ input.modulus = Modulus
    BY <1>2, CircleIs DEF Inputs
  <2>2. (arg - arg) % Modulus = 0 /\ (input.vs - arg) % Modulus \in 0 .. Modulus - 1
    BY <2>1, CircleIs, SameDistance
  <2> QED
    BY <1>2, <2>1, <2>2 DEF ahead
<1>6. Len(q) \in Nat /\ Len(input.iframe_resend_queue) \in Nat
  BY <1>2 DEF Inputs
<1>7. Pushed(q)
  BY <1>3, <1>4, <1>5, <1>6 DEF Pushed
<1> QED
  BY <1>2, <1>7 DEF RetransmissionInv

\* Every frame pushed is one number further.
LEMMA RetransmissionGoesOn == RetransmissionInv /\ [Next]_vars => RetransmissionInv'
<1> SUFFICES ASSUME RetransmissionInv, [Next]_vars, ran' = "invoke_retransmission"
             PROVE  RetransmissionInv'
  BY DEF RetransmissionInv
<1>1. CASE UNCHANGED vars
  BY <1>1 DEF vars, RetransmissionInv, Pushed
<1>2. CASE Next
  <2>1. UNCHANGED <<ran, input, arg>>
    BY <1>2 DEF Next, in_range_loop, update_ack_loop, invoke_retransmission_loop,
                dl_data_poll_loop, End, Iterate
  <2>2. invoke_retransmission_loop
    <3>1. loop \in {"invoke_retransmission", "done"}
      BY <2>1 DEF RetransmissionInv
    <3> QED
      BY <1>2, <3>1 DEF Next, in_range_loop, update_ack_loop, dl_data_poll_loop
  <2>3. loop = "invoke_retransmission" /\ input \in Inputs /\ arg \in Circle /\ i \in Circle
    BY <2>1, <2>2 DEF RetransmissionInv, invoke_retransmission_loop
  <2>4. PICK q \in Seq(Number) : Pushed(q)
    BY <2>1, <2>3 DEF RetransmissionInv
  <2> DEFINE m == Modulus
             b == input.vs
             store == input.iframe_resend_queue
             n == ahead(input, arg, i)
             w == ahead(input, arg, b)
             pushed == Len(c.iframe_queue) - Len(input.iframe_queue)
  <2>5. m \in Nat \ {0} /\ b \in 0 .. m - 1 /\ i \in 0 .. m - 1 /\ arg \in 0 .. m - 1
        /\ store \in Seq(Number) /\ Len(store) \in Nat /\ input.modulus = m
        /\ Len(input.iframe_queue) \in Nat
    BY <2>3, CircleIs DEF Inputs
  <2>6. n = (i - arg) % m /\ w = (b - arg) % m
    BY <2>5 DEF ahead
  <2>7. n \in Nat /\ n <= w /\ n <= Len(store) /\ w \in Nat
    <3>1. (i - arg) % m \in 0 .. m - 1 /\ (b - arg) % m \in 0 .. m - 1
      <4> HIDE DEF m, b
      <4> QED
        BY <2>5, SameDistance
    <3> QED
      BY <2>4, <2>6, <3>1 DEF Pushed
  <2>8. c = [input EXCEPT !.iframe_queue = q] /\ Len(q) = Len(input.iframe_queue) + n
    BY <2>4 DEF Pushed
  <2>9. c.vs = b /\ c.iframe_queue = q /\ c.iframe_resend_queue = store
    BY <2>3, <2>8 DEF Inputs
  <2>10. pushed = n
    <3> HIDE DEF n
    <3>1. Len(input.iframe_queue) \in Nat /\ n \in Nat /\ Len(q) = Len(input.iframe_queue) + n
      BY <2>5, <2>7, <2>8
    <3> QED
      BY <2>9, <3>1
  <2>11. (i - arg) % m = (b - arg) % m <=> i = b
    <3>1. m \in Nat \ {0} /\ b \in 0 .. m - 1 /\ i \in 0 .. m - 1 /\ arg \in 0 .. m - 1
      BY <2>5
    <3> HIDE DEF m, b
    <3> QED
      BY <3>1, SameDistance
  <2> HIDE DEF n, w, pushed
  <2>12. CASE i = c.vs /\ End([c EXCEPT !.vs = arg, !.iframe_queue = store], TRUE)
    <3>1. w <= Len(store)
      BY <2>6, <2>7, <2>9, <2>11, <2>12
    <3>2. invoke_retransmission(input, arg) = [input EXCEPT !.vs = arg, !.iframe_queue = store]
      <4>1. ~(w > Len(store))
        BY <2>5, <2>7, <3>1
      <4> QED
        BY <4>1 DEF invoke_retransmission, w
    <3>3. [c EXCEPT !.vs = arg, !.iframe_queue = store]
            = [input EXCEPT !.vs = arg, !.iframe_queue = store]
      <4> HIDE DEF store
      <4> QED
        BY <2>3, <2>8 DEF Inputs
    <3> QED
      BY <2>1, <2>3, <2>12, <3>2, <3>3 DEF End, RetransmissionInv
  <2>13. CASE i # c.vs /\ pushed = Len(store) /\ End(fail(input), TRUE)
    <3>1. n # w
      BY <2>6, <2>9, <2>11, <2>13
    <3>2. w > Len(store)
      BY <2>5, <2>7, <2>10, <2>13, <3>1
    <3>3. fail(input) = invoke_retransmission(input, arg)
      BY <3>2 DEF invoke_retransmission, w
    <3> QED
      BY <2>1, <2>3, <2>13, <3>3 DEF End, RetransmissionInv
  <2>14. CASE /\ i # c.vs /\ pushed < Len(store)
              /\ Iterate([c EXCEPT !.iframe_queue =
                            <<store[Len(store) - pushed]>> \o @], next(i))
    <3> DEFINE x == (i + 1) % m
               o == store[Len(store) - pushed]
    <3>1. x \in 0 .. m - 1 /\ (x - arg) % m = ((i - arg) % m) + 1 /\ (x - arg) % m <= (b - arg) % m
      <4> HIDE DEF m, b
      <4>1. i # b /\ (i - arg) % m <= (b - arg) % m
        BY <2>6, <2>7, <2>9, <2>14
      <4>2. m \in Nat \ {0} /\ b \in 0 .. m - 1 /\ i \in 0 .. m - 1 /\ arg \in 0 .. m - 1
        BY <2>5
      <4>3. /\ (i + 1) % m \in 0 .. m - 1
            /\ (((i + 1) % m) - arg) % m = ((i - arg) % m) + 1
            /\ (((i + 1) % m) - arg) % m <= (b - arg) % m
        BY <4>1, <4>2, StepOn
      <4> QED
        BY <4>3
    <3> HIDE DEF x
    <3>2. o \in Number
      <4>1. Len(store) - pushed \in 1 .. Len(store)
        BY <2>5, <2>7, <2>10, <2>14, SMTT(30)
      <4> QED
        BY <2>5, <4>1, ElementOfSeq
    <3> HIDE DEF o
    <3>0. PICK p : p = <<o>> \o q
      OBVIOUS
    <3>3. p \in Seq(Number) /\ Len(p) = Len(q) + 1
      <4>1. <<o>> \in Seq(Number) /\ Len(<<o>>) = 1 /\ Len(q) \in Nat
        BY <3>2
      <4>2. <<o>> \o q \in Seq(Number) /\ Len(<<o>> \o q) = Len(<<o>>) + Len(q)
        BY <4>1, ConcatProperties
      <4> QED
        BY <3>0, <4>1, <4>2
    <3>4. c' = [c EXCEPT !.iframe_queue = p] /\ i' = x /\ UNCHANGED loop
      BY <2>9, <2>14, <3>0 DEF Iterate, next, x, o
    <3>5. c' = [input EXCEPT !.iframe_queue = p]
      BY <2>3, <2>8, <3>4 DEF Inputs
    <3>6. ahead(input, arg, x) = n + 1
      BY <2>5, <2>6, <3>1 DEF ahead
    <3>7. Pushed(p)'
      <4>1. n + 1 <= w
        BY <2>6, <3>1
      <4>2. n + 1 <= Len(store)
        BY <2>5, <2>7, <2>10, <2>14
      <4>3. Len(p) = Len(input.iframe_queue) + (n + 1)
        <5>1. PICK len : len = Len(input.iframe_queue)
          OBVIOUS
        <5>2. len \in Nat /\ n \in Nat /\ Len(q) = len + n
          BY <2>5, <2>7, <2>8, <5>1
        <5>3. Len(p) = len + (n + 1)
          BY <3>3, <5>2
        <5> QED
          BY <5>1, <5>3
      <4> QED
        BY <2>1, <3>4, <3>5, <3>6, <4>1, <4>2, <4>3 DEF Pushed, ahead, w
    <3> QED
      BY <2>1, <2>3, <3>1, <3>3, <3>4, <3>7, CircleIs DEF RetransmissionInv
  <2> QED
    BY <2>2, <2>9, <2>12, <2>13, <2>14 DEF invoke_retransmission_loop, pushed
<1> QED
  BY <1>1, <1>2

------------------------------------------------------------------------------
(* dl_data_poll.                                                           *)

\* The frames that the poll of a makes of its first n payloads.
Polled(a, n) == [k \in 1 .. n |-> queued_iframe(a, k)]

\* One frame more.
LEMMA PolledAppend ==
    ASSUME NEW a, NEW n \in Nat
    PROVE  /\ <<>> \o Polled(a, n) = Polled(a, n)
           /\ Append(Polled(a, n), queued_iframe(a, n + 1)) = Polled(a, n + 1)
<1> DEFINE T == {queued_iframe(a, k) : k \in 1 .. n + 1}
           s == Polled(a, n)
           t == Polled(a, n + 1)
           o == queued_iframe(a, n + 1)
<1>1. \A k \in 1 .. n + 1 : queued_iframe(a, k) \in T
  OBVIOUS
<1>2. n + 1 \in 1 .. n + 1
  OBVIOUS
<1>3. o \in T
  BY <1>1, <1>2
<1> HIDE DEF T
<1>4. s \in Seq(T) /\ Len(s) = n /\ \A k \in 1 .. n : s[k] = queued_iframe(a, k)
  BY <1>1 DEF Polled
<1>5. t \in Seq(T) /\ Len(t) = n + 1 /\ \A k \in 1 .. n + 1 : t[k] = queued_iframe(a, k)
  BY <1>1 DEF Polled
<1> HIDE DEF s, t
<1>6. t[n + 1] = o
  BY <1>2, <1>5
<1> HIDE DEF o
<1> DEFINE r == Append(s, o)
<1>7. r \in Seq(T) /\ Len(r) = n + 1 /\ r[n + 1] = o /\ \A k \in 1 .. n : r[k] = s[k]
  BY <1>3, <1>4, AppendProperties
<1> HIDE DEF r
<1>8. ASSUME NEW k \in 1 .. Len(r) PROVE r[k] = t[k]
  <2>1. CASE k = n + 1
    BY <1>6, <1>7, <2>1
  <2>2. CASE k # n + 1
    <3>1. k \in 1 .. n /\ k \in 1 .. n + 1
      BY <1>7, <2>2
    <3> QED
      BY <1>4, <1>5, <1>7, <3>1
  <2> QED
    BY <2>1, <2>2
<1>9. r = t
  <2>1. Len(r) = Len(t)
    BY <1>5, <1>7
  <2> QED
    BY <1>5, <1>7, <1>8, <2>1, SeqEqual
<1>10. <<>> \o s = s
  BY <1>4, ConcatEmptySeq
<1> QED
  BY <1>9, <1>10 DEF r, s, t, o

\* b is a after the poll has sent n frames; the other arguments are its fields.
Transmitted(a, n, b, q, f, v, t1, t3) ==
    /\ q = SubSeq(a.iframe_queue, n + 1, Len(a.iframe_queue))
    /\ f = Polled(a, n) /\ v = (a.vs + n) % Modulus
    /\ t1 = (a.t1 \/ n > 0) /\ t3 = (a.t3 /\ (a.t1 \/ n = 0))
    /\ b = [a EXCEPT !.iframe_queue = q, !.out = f, !.vs = v, !.t3 = t3, !.t1 = t1]

\* It is what transmit makes of a, and nothing else.
LEMMA TransmitIs ==
    ASSUME NEW a \in Inputs, NEW n \in Nat
    PROVE  /\ \E q, f, v, t1, t3 : Transmitted(a, n, transmit(a, n), q, f, v, t1, t3)
           /\ \A b, q, f, v, t1, t3 : Transmitted(a, n, b, q, f, v, t1, t3) =>
                 /\ b = transmit(a, n) /\ b.iframe_queue = q /\ b.out = f /\ b.vs = v
                 /\ b.va = a.va /\ b.vr = 0 /\ b.t1 = t1 /\ b.t3 = t3
<1>1. PICK q, f, v, t1, t3 :
        /\ q = SubSeq(a.iframe_queue, n + 1, Len(a.iframe_queue))
        /\ f = Polled(a, n) /\ v = (a.vs + n) % Modulus
        /\ t1 = (a.t1 \/ n > 0) /\ t3 = (a.t3 /\ (a.t1 \/ n = 0))
  OBVIOUS
<1>2. <<>> \o [k \in 1 .. n |-> queued_iframe(a, k)] = f
  BY <1>1, PolledAppend DEF Polled
<1>3. a.modulus = Modulus /\ a.out = <<>>
  BY DEF Inputs
<1>4. transmit(a, n) = [a EXCEPT !.iframe_queue = q, !.out = f, !.vs = v, !.t3 = t3, !.t1 = t1]
  BY <1>1, <1>2, <1>3 DEF transmit
<1>5. Transmitted(a, n, transmit(a, n), q, f, v, t1, t3)
  BY <1>1, <1>4 DEF Transmitted
<1>6. ASSUME NEW b, NEW r, NEW g, NEW w, NEW u1, NEW u3, Transmitted(a, n, b, r, g, w, u1, u3)
      PROVE  /\ b = transmit(a, n) /\ b.iframe_queue = r /\ b.out = g /\ b.vs = w
             /\ b.va = a.va /\ b.vr = 0 /\ b.t1 = u1 /\ b.t3 = u3
  <2>1. r = q /\ g = f /\ w = v /\ u1 = t1 /\ u3 = t3
    BY <1>1, <1>6, Zenon DEF Transmitted
  <2>2. b = [a EXCEPT !.iframe_queue = r, !.out = g, !.vs = w, !.t3 = u3, !.t1 = u1]
    BY <1>6 DEF Transmitted
  <2>3. b = transmit(a, n)
    BY <1>4, <2>1, <2>2, Zenon
  <2>4. /\ b.iframe_queue = r /\ b.out = g /\ b.vs = w /\ b.va = a.va /\ b.vr = 0
        /\ b.t1 = u1 /\ b.t3 = u3
    BY <2>2 DEF Inputs
  <2> QED
    BY <2>3, <2>4
<1> QED
  BY <1>5, <1>6

\* The loop has sent the first n frames of the queue.
PollInv ==
    ran = "dl_data_poll" =>
        /\ input \in Inputs
        /\ loop \in {"dl_data_poll", "done"}
        /\ loop = "dl_data_poll" =>
             \E n \in Nat : n <= sendable(input) /\ c = transmit(input, n)
        /\ loop = "done" => c = dl_data_poll(input)

\* The room in the window, and how many frames are sent.
LEMMA SendableIs ==
    ASSUME NEW a \in Inputs
    PROVE  LET q == Len(a.iframe_queue)
               room == (a.va + K - a.vs) % Modulus
           IN  /\ q \in Nat /\ room \in 0 .. Modulus - 1
               /\ sendable(a) = (IF q < room THEN q ELSE room) /\ sendable(a) \in Nat
               /\ \A n \in Nat : n <= room =>
                    ((a.vs + n) % Modulus = (a.va + K) % Modulus <=> n = room)
<1>1. /\ a.modulus = Modulus /\ a.va \in 0 .. Modulus - 1 /\ a.vs \in 0 .. Modulus - 1
      /\ Len(a.iframe_queue) \in Nat
  BY CircleIs DEF Inputs
<1> DEFINE q == Len(a.iframe_queue)
           room == (a.va + K - a.vs) % Modulus
<1>2. room \in 0 .. Modulus - 1
  <2>1. 0 \in Nat /\ a.va + K - a.vs \in Int
    BY <1>1, CircleIs
  <2> QED
    BY <1>1, <2>1, CircleIs, ModIn
<1>3. ASSUME NEW n \in Nat, n <= room
      PROVE  (a.vs + n) % Modulus = (a.va + K) % Modulus <=> n = room
  <2> DEFINE m == Modulus
             va == a.va
             x == a.vs
  <2>1. m \in Nat \ {0} /\ K \in 1 .. m - 1 /\ va \in 0 .. m - 1 /\ x \in 0 .. m - 1
        /\ n <= (va + K - x) % m
    BY <1>1, <1>3, CircleIs
  <2> HIDE DEF m, va, x
  <2>2. (x + n) % m = (va + K) % m <=> n = (va + K - x) % m
    BY <2>1, RoomIs
  <2> QED
    BY <2>2 DEF m, va, x
<1>4. sendable(a) = IF q < room THEN q ELSE room
  BY <1>1 DEF sendable
<1> QED
  BY <1>1, <1>2, <1>3, <1>4

\* What one iteration makes of b.
Iteration(b) ==
    LET last == b.vs = (b.va + K + Modulus - 1) % Modulus
        d == send(b, Iframe(b.vs, b.vr, last, Head(b.iframe_queue)))
    IN  [d EXCEPT !.iframe_queue = Tail(@), !.vs = next(@), !.t3 = @ /\ b.t1, !.t1 = TRUE]

\* It is one frame more.
LEMMA PollIteration ==
    ASSUME NEW a \in Inputs, NEW n \in Nat, n < sendable(a)
    PROVE  Iteration(transmit(a, n)) = transmit(a, n + 1)
<1>0. PICK b : b = transmit(a, n)
  OBVIOUS
<1> DEFINE q == a.iframe_queue
<1>1. /\ a.modulus = Modulus /\ a.va \in 0 .. Modulus - 1 /\ a.vs \in 0 .. Modulus - 1
      /\ q \in Seq(Number) /\ Len(q) \in Nat /\ a.vr = 0
  BY CircleIs DEF Inputs
<1>2. n < Len(q) /\ n < Modulus
  BY SendableIs, CircleIs
<1>3. PICK r, r1, v, v1, f, f1 :
        /\ r = SubSeq(q, n + 1, Len(q)) /\ r1 = SubSeq(q, n + 1 + 1, Len(q))
        /\ v = (a.vs + n) % Modulus /\ v1 = (a.vs + (n + 1)) % Modulus
        /\ f = Polled(a, n) /\ f1 = Polled(a, n + 1)
  OBVIOUS
<1>4. Head(r) = q[n + 1] /\ Tail(r) = r1
  <2>1. n + 1 + 1 = n + 2 /\ n <= Len(q)
    BY <1>1, <1>2
  <2>2. Tail(SubSeq(q, n + 1, Len(q))) = SubSeq(q, n + 2, Len(q))
        /\ Head(SubSeq(q, n + 1, Len(q))) = q[n + 1]
    BY <1>1, <1>2, <2>1, TailOfDrop
  <2> QED
    BY <1>3, <2>1, <2>2
<1>5. next(v) = v1
  <2>1. v = IF a.vs + n < Modulus THEN a.vs + n ELSE a.vs + n - Modulus
    <3>1. n \in 0 .. Modulus
      BY <1>2, CircleIs
    <3> QED
      BY <1>1, <1>3, <3>1, CircleIs, ModSum, ZenonT(40)
  <2>2. v1 = IF a.vs + (n + 1) < Modulus THEN a.vs + (n + 1) ELSE a.vs + (n + 1) - Modulus
    <3>1. n + 1 \in 0 .. Modulus
      BY <1>2, CircleIs
    <3> QED
      BY <1>1, <1>3, <3>1, CircleIs, ModSum, ZenonT(40)
  <2>3. v \in 0 .. Modulus - 1
    BY <1>1, <1>2, <2>1, CircleIs
  <2>4. (v + 1) % Modulus = IF v + 1 < Modulus THEN v + 1 ELSE v + 1 - Modulus
    <3>1. 1 \in 0 .. Modulus
      BY CircleIs
    <3> QED
      BY <2>3, <3>1, CircleIs, ModSum
  <2>5. (v + 1) % Modulus = v1
    <3> DEFINE m == Modulus
               x == a.vs
               y == (v + 1) % m
    <3>1. m \in Nat /\ x \in 0 .. m - 1 /\ n < m /\ m > 1
          /\ v = (IF x + n < m THEN x + n ELSE x + n - m)
          /\ v1 = (IF x + (n + 1) < m THEN x + (n + 1) ELSE x + (n + 1) - m)
          /\ y = (IF v + 1 < m THEN v + 1 ELSE v + 1 - m)
      BY <1>1, <1>2, <2>1, <2>2, <2>4, CircleIs
    <3> HIDE DEF m, x, y
    <3>2. y = v1
      BY <3>1
    <3> QED
      BY <3>2 DEF y, m
  <2> QED
    BY <2>5 DEF next
<1>6. Iframe(v, 0, v = (a.va + K + Modulus - 1) % Modulus, q[n + 1]) = queued_iframe(a, n + 1)
  <2>1. a.vs + (n + 1) - 1 = a.vs + n
    BY <1>1
  <2> QED
    BY <1>1, <1>3, <2>1 DEF queued_iframe
<1>7. Append(f, queued_iframe(a, n + 1)) = f1
  BY <1>3, PolledAppend
<1>8. PICK t1, t3 : Transmitted(a, n, b, r, f, v, t1, t3)
  <2>1. PICK x, g, w, u1, u3 : Transmitted(a, n, b, x, g, w, u1, u3)
    BY <1>0, TransmitIs
  <2>2. x = r /\ g = f /\ w = v
    BY <1>3, <2>1, Zenon DEF Transmitted
  <2> QED
    BY <2>1, <2>2
<1>9. /\ b = [a EXCEPT !.iframe_queue = r, !.out = f, !.vs = v, !.t3 = t3, !.t1 = t1]
      /\ b.iframe_queue = r /\ b.out = f /\ b.vs = v /\ b.va = a.va /\ b.vr = 0
      /\ b.t3 = t3 /\ b.t1 = t1
  <2>1. b = [a EXCEPT !.iframe_queue = r, !.out = f, !.vs = v, !.t3 = t3, !.t1 = t1]
    BY <1>8 DEF Transmitted
  <2>2. /\ b.iframe_queue = r /\ b.out = f /\ b.vs = v /\ b.va = a.va /\ b.vr = 0
        /\ b.t1 = t1 /\ b.t3 = t3
    BY <2>1 DEF Inputs
  <2> QED
    BY <2>1, <2>2
<1>10. PICK g : g = queued_iframe(a, n + 1)
  OBVIOUS
<1> DEFINE last == b.vs = (b.va + K + Modulus - 1) % Modulus
           d == send(b, Iframe(b.vs, b.vr, last, Head(b.iframe_queue)))
<1>11. d = [b EXCEPT !.out = f1]
  <2>1. Iframe(b.vs, b.vr, last, Head(b.iframe_queue)) = g
    BY <1>4, <1>6, <1>9, <1>10
  <2> QED
    BY <1>7, <1>9, <1>10, <2>1 DEF send
<1> HIDE DEF d
<1>12. PICK u3 : u3 = (t3 /\ t1)
  OBVIOUS
<1>13. [d EXCEPT !.iframe_queue = Tail(@), !.vs = next(@), !.t3 = @ /\ b.t1, !.t1 = TRUE]
         = [a EXCEPT !.iframe_queue = r1, !.out = f1, !.vs = v1, !.t3 = u3, !.t1 = TRUE]
  <2>1. d.iframe_queue = r /\ d.vs = v /\ d.t3 = t3
    BY <1>9, <1>11 DEF Inputs
  <2>2. [d EXCEPT !.iframe_queue = Tail(@), !.vs = next(@), !.t3 = @ /\ b.t1, !.t1 = TRUE]
          = [d EXCEPT !.iframe_queue = r1, !.vs = v1, !.t3 = u3, !.t1 = TRUE]
    BY <1>4, <1>5, <1>9, <1>12, <2>1
  <2>3. [d EXCEPT !.iframe_queue = r1, !.vs = v1, !.t3 = u3, !.t1 = TRUE]
          = [a EXCEPT !.iframe_queue = r1, !.out = f1, !.vs = v1, !.t3 = u3, !.t1 = TRUE]
    BY <1>9, <1>11 DEF Inputs
  <2> QED
    BY <2>2, <2>3
<1>14. u3 = (a.t3 /\ (a.t1 \/ n + 1 = 0)) /\ TRUE = (a.t1 \/ n + 1 > 0)
  <2>1. n + 1 # 0 /\ n + 1 > 0
    OBVIOUS
  <2>2. n = 0 => ~(n > 0)
    OBVIOUS
  <2>3. a.t1 \in BOOLEAN /\ a.t3 \in BOOLEAN
    BY DEF Inputs
  <2>4. t1 = (a.t1 \/ n > 0) /\ t3 = (a.t3 /\ (a.t1 \/ n = 0))
    BY <1>8 DEF Transmitted
  <2> QED
    BY <1>12, <2>1, <2>2, <2>3, <2>4, Zenon
<1>15. transmit(a, n + 1) = [a EXCEPT !.iframe_queue = r1, !.out = f1, !.vs = v1,
                                      !.t3 = u3, !.t1 = TRUE]
  <2> DEFINE e == [a EXCEPT !.iframe_queue = r1, !.out = f1, !.vs = v1, !.t3 = u3, !.t1 = TRUE]
  <2>1. n + 1 \in Nat
    OBVIOUS
  <2>2. Transmitted(a, n + 1, e, r1, f1, v1, TRUE, u3)
    BY <1>3, <1>14 DEF Transmitted
  <2> HIDE DEF e
  <2>3. e = transmit(a, n + 1)
    BY <2>1, <2>2, TransmitIs
  <2> QED
    BY <2>3 DEF e
<1> QED
  BY <1>0, <1>13, <1>15 DEF d, Iteration

\* The loop begins.
LEMMA PollBegins == Init => PollInv
<1> SUFFICES ASSUME Init, ran = "dl_data_poll" PROVE PollInv
  BY DEF PollInv
<1>1. PICK va \in Circle, vs \in Circle, n \in 0 .. MaxQueue, t1 \in BOOLEAN, t3 \in BOOLEAN :
         Start("dl_data_poll", [At(va, vs, n, n) EXCEPT !.t1 = t1, !.t3 = t3], 0, 0)
  BY DEF Init, Start
<1>2. input \in Inputs /\ c = input /\ loop = "dl_data_poll"
  <2>1. [At(va, vs, n, n) EXCEPT !.t1 = t1, !.t3 = t3] \in Inputs
    BY AtIs
  <2> QED
    BY <1>1, <2>1 DEF Start
<1>3. c = transmit(input, 0)
  <2> DEFINE q == input.iframe_queue
  <2>1. q \in Seq(Number) /\ input.vs \in 0 .. Modulus - 1 /\ input.t1 \in BOOLEAN
        /\ input.t3 \in BOOLEAN /\ input.out = <<>>
    BY <1>2, CircleIs DEF Inputs
  <2>2. SubSeq(q, 0 + 1, Len(q)) = q
    <3>1. 0 + 1 = 1 /\ SubSeq(q, 1, Len(q)) = q
      BY <2>1, DropNone
    <3> QED
      BY <3>1
  <2>3. (input.vs + 0) % Modulus = input.vs
    <3>1. input.vs + 0 = input.vs
      BY <2>1
    <3> QED
      BY <2>1, <3>1, CircleIs, ModPlain
  <2>4. Polled(input, 0) = <<>>
    BY DEF Polled
  <2>5. (input.t3 /\ (input.t1 \/ 0 = 0)) = input.t3 /\ (input.t1 \/ 0 > 0) = input.t1
    <3>1. 0 = 0 /\ ~(0 > 0)
      OBVIOUS
    <3> QED
      BY <2>1, <3>1, Zenon
  <2>6. [input EXCEPT !.iframe_queue = q, !.out = <<>>, !.vs = input.vs,
                      !.t3 = input.t3, !.t1 = input.t1] = input
    BY <1>2, <2>1 DEF Inputs
  <2>7. Transmitted(input, 0, input, q, <<>>, input.vs, input.t1, input.t3)
    BY <2>2, <2>3, <2>4, <2>5, <2>6 DEF Transmitted
  <2>8. 0 \in Nat
    OBVIOUS
  <2> QED
    BY <1>2, <2>7, <2>8, TransmitIs
<1>4. 0 \in Nat /\ 0 <= sendable(input)
  BY <1>2, SendableIs
<1> QED
  BY <1>2, <1>3, <1>4 DEF PollInv

\* Every frame sent is one more of the queue.
LEMMA PollGoesOn == PollInv /\ [Next]_vars => PollInv'
<1> SUFFICES ASSUME PollInv, [Next]_vars, ran' = "dl_data_poll" PROVE PollInv'
  BY DEF PollInv
<1>1. CASE UNCHANGED vars
  BY <1>1 DEF vars, PollInv
<1>2. CASE Next
  <2>1. UNCHANGED <<ran, input, arg>>
    BY <1>2 DEF Next, in_range_loop, update_ack_loop, invoke_retransmission_loop,
                dl_data_poll_loop, End, Iterate
  <2>2. dl_data_poll_loop
    <3>1. loop \in {"dl_data_poll", "done"}
      BY <2>1 DEF PollInv
    <3> QED
      BY <1>2, <3>1 DEF Next, in_range_loop, update_ack_loop, invoke_retransmission_loop
  <2>3. loop = "dl_data_poll" /\ input \in Inputs
    BY <2>1, <2>2 DEF PollInv, dl_data_poll_loop
  <2>4. PICK n \in Nat : n <= sendable(input) /\ c = transmit(input, n)
    BY <2>1, <2>3 DEF PollInv
  <2> DEFINE q == input.iframe_queue
             room == (input.va + K - input.vs) % Modulus
  <2>5. /\ Len(q) \in Nat /\ room \in 0 .. Modulus - 1 /\ q \in Seq(Number)
        /\ sendable(input) = IF Len(q) < room THEN Len(q) ELSE room
    BY <2>3, SendableIs DEF Inputs
  <2>6. n <= Len(q) /\ n <= room
    <3> HIDE DEF q, room
    <3> QED
      BY <2>4, <2>5, CircleIs
  <2>7. c.iframe_queue = SubSeq(q, n + 1, Len(q)) /\ c.vs = (input.vs + n) % Modulus
        /\ c.va = input.va
    <3>1. PICK r, f, v, t1, t3 : Transmitted(input, n, c, r, f, v, t1, t3)
      BY <2>3, <2>4, TransmitIs
    <3>2. c.iframe_queue = r /\ c.vs = v /\ c.va = input.va
      BY <2>3, <3>1, TransmitIs
    <3> QED
      BY <3>1, <3>2 DEF Transmitted
  <2>8. c.iframe_queue = <<>> <=> n = Len(q)
    <3>1. SubSeq(q, n + 1, Len(q)) = <<>> <=> n = Len(q)
      <4> HIDE DEF q
      <4> QED
        BY <2>5, <2>6, TailOfDrop
    <3> QED
      BY <2>7, <3>1
  <2>9. c.vs = (c.va + K) % Modulus <=> n = room
    BY <2>3, <2>6, <2>7, SendableIs
  <2> HIDE DEF q, room
  <2>10. CASE (c.iframe_queue = <<>> \/ c.vs = (c.va + K) % Modulus) /\ End(c, TRUE)
    <3>1. n = sendable(input)
      <4>1. n = Len(q) \/ n = room
        BY <2>8, <2>9, <2>10
      <4> QED
        BY <2>5, <2>6, <4>1, CircleIs
    <3>2. c = dl_data_poll(input)
      BY <2>3, <2>4, <3>1 DEF dl_data_poll, Inputs, ReceivingStates
    <3> QED
      BY <2>1, <2>3, <2>10, <3>2 DEF End, PollInv
  <2>11. CASE /\ c.iframe_queue # <<>> /\ c.vs # (c.va + K) % Modulus
              /\ LET last == c.vs = (c.va + K + Modulus - 1) % Modulus
                     d == send(c, Iframe(c.vs, c.vr, last, Head(c.iframe_queue)))
                 IN  Iterate([d EXCEPT !.iframe_queue = Tail(@), !.vs = next(@),
                                       !.t3 = @ /\ c.t1, !.t1 = TRUE], i)
    <3>1. n # Len(q) /\ n # room
      BY <2>8, <2>9, <2>11
    <3>2. n < sendable(input)
      BY <2>5, <2>6, <3>1, CircleIs
    <3>3. c' = transmit(input, n + 1) /\ UNCHANGED loop
      <4>1. Iteration(c) = transmit(input, n + 1)
        BY <2>3, <2>4, <3>2, PollIteration
      <4>2. Iterate(Iteration(c), i)
        BY <2>11 DEF Iteration
      <4> QED
        BY <4>1, <4>2 DEF Iterate
    <3>4. n + 1 \in Nat /\ n + 1 <= sendable(input)
      BY <2>3, <3>2, SendableIs
    <3> QED
      BY <2>1, <2>3, <3>3, <3>4 DEF PollInv
  <2> QED
    BY <2>2, <2>10, <2>11 DEF dl_data_poll_loop
<1> QED
  BY <1>1, <1>2

------------------------------------------------------------------------------
\* Property LoopsMatchClosedForms: whatever the modulus, the window and the lengths
\* of the queues, the loops of update_ack, invoke_retransmission and dl_data_poll
\* do what their closed forms do.
THEOREM LoopsExact == Spec => []LoopsMatchClosedForms
<1>1. UpdateAckInv /\ RetransmissionInv /\ PollInv => LoopsMatchClosedForms
  BY DEF UpdateAckInv, RetransmissionInv, PollInv, LoopsMatchClosedForms
<1>2. Init => UpdateAckInv /\ RetransmissionInv /\ PollInv
  BY UpdateAckBegins, RetransmissionBegins, PollBegins
<1>3. UpdateAckInv /\ RetransmissionInv /\ PollInv /\ [Next]_vars
        => (UpdateAckInv /\ RetransmissionInv /\ PollInv)'
  BY UpdateAckGoesOn, RetransmissionGoesOn, PollGoesOn
<1> QED
  BY <1>1, <1>2, <1>3, PTL DEF Spec
------------------------------------------------------------------------------
(* How long T1 runs.                                                       *)

\* A time within its clamps.
Bounded(ms, lo) == ms \in Int /\ lo <= ms /\ ms <= 10000

\* srt and T1 are within their clamps, and T1 is what select_t1_value makes of srt
\* unless it has never been called.
Clamped ==
    /\ Bounded(srt, 100) /\ Bounded(t1_ms, 200)
    /\ t1_ms = clamp(2 * srt) \/ (t1_ms = 3000 /\ srt = 3000)
    /\ trip \in Nat /\ left \in Nat

\* T1 is longer than the last round trip.
Outlasting == trip < t1_ms

\* The inductive invariant.
T1Inv == Clamped /\ (Outlasting \/ misread)

\* Whatever time T1 is told is left, the clamps hold.
LEMMA SelectClamps ==
    ASSUME Clamped, NEW remaining \in Int, select_t1_value(remaining)
    PROVE  /\ Bounded(srt', 100) /\ Bounded(t1_ms', 200)
           /\ t1_ms' = clamp(2 * srt')
<1> DEFINE x == Toward(srt, t1_ms - remaining)
           y == clamp(x)
           z == clamp(2 * y)
<1>1. x \in Int
  BY DEF Clamped, Bounded, Toward
<1>2. srt' = y /\ t1_ms' = z /\ t1_ms' = clamp(2 * srt')
  BY DEF select_t1_value
<1> HIDE DEF x
<1>3. Bounded(y, 100)
  BY <1>1 DEF clamp, Bounded
<1> HIDE DEF y
<1>4. Bounded(z, 200)
  BY <1>3 DEF clamp, Bounded
<1> HIDE DEF z
<1>5. Bounded(srt', 100) /\ Bounded(t1_ms', 200)
  BY <1>2, <1>3, <1>4
<1> QED
  BY <1>2, <1>5

\* A round trip that T1 outlasted leaves a T1 that outlasts it again.
LEMMA SelectOutlasts ==
    ASSUME Clamped, NEW r \in Nat, r < t1_ms, select_t1_value(t1_ms - r)
    PROVE  r < t1_ms'
<1> DEFINE x == Toward(srt, r)
<1>1. t1_ms - (t1_ms - r) = r
  BY DEF Clamped, Bounded
<1>2. x \in Int /\ 8 * x + 7 >= 7 * srt + r
  BY DEF Clamped, Bounded, Toward
<1>3. srt' = clamp(x) /\ t1_ms' = clamp(2 * srt')
  BY <1>1 DEF select_t1_value
<1> HIDE DEF x
<1>4. r + 1 <= 2 * srt /\ r < 10000
  BY DEF Clamped, Bounded, clamp
<1>5. srt \in Int
  BY DEF Clamped, Bounded
<1> QED
  BY <1>2, <1>3, <1>4, <1>5 DEF clamp

\* A T1 that was not running and whose deadline is past does not shrink.
LEMMA SelectGrows ==
    ASSUME Clamped, select_t1_value(0)
    PROVE  t1_ms' >= t1_ms
<1> DEFINE x == Toward(srt, t1_ms)
<1>1. t1_ms - 0 = t1_ms
  BY DEF Clamped, Bounded
<1>2. x \in Int /\ 8 * x + 7 >= 7 * srt + t1_ms
  BY DEF Clamped, Bounded, Toward
<1>3. srt' = clamp(x) /\ t1_ms' = clamp(2 * srt')
  BY <1>1 DEF select_t1_value
<1> HIDE DEF x
<1> QED
  BY <1>2, <1>3 DEF clamp, Clamped, Bounded

\* Every acknowledgement keeps the invariant.
LEMMA T1NextKeeps == T1Inv /\ [T1Next]_t1Vars => T1Inv'
<1> SUFFICES ASSUME Clamped, Outlasting \/ misread, [T1Next]_t1Vars PROVE T1Inv'
  BY DEF T1Inv
<1>1. CASE round_trip
  <2>1. PICK r \in Trips : r < t1_ms /\ trip' = r /\ left' = t1_ms - r
                           /\ select_t1_value(t1_ms - r)
    BY <1>1 DEF round_trip
  <2>2. r \in Nat /\ t1_ms - r \in Nat
    BY <2>1, TripsAssumption DEF Clamped, Bounded
  <2>3. r < t1_ms'
    BY <2>1, <2>2, SelectOutlasts
  <2>4. Bounded(srt', 100) /\ Bounded(t1_ms', 200) /\ t1_ms' = clamp(2 * srt')
    BY <2>1, <2>2, SelectClamps
  <2> QED
    BY <2>1, <2>2, <2>3, <2>4 DEF T1Inv, Clamped, Outlasting
<1>2. CASE idle_acknowledgement
  <2>1. PICK e \in Trips : left' = (IF e < left THEN left - e ELSE 0)
                           /\ misread' = (left' > 0) /\ select_t1_value(left')
    BY <1>2 DEF idle_acknowledgement
  <2>2. left' \in Nat /\ trip' = trip
    BY <1>2, <2>1, TripsAssumption DEF Clamped, Bounded, idle_acknowledgement
  <2>3. Bounded(srt', 100) /\ Bounded(t1_ms', 200) /\ t1_ms' = clamp(2 * srt')
    BY <2>1, <2>2, SelectClamps
  <2>4. Clamped'
    BY <2>2, <2>3 DEF Clamped
  <2>5. CASE left' > 0
    BY <2>1, <2>4, <2>5 DEF T1Inv
  <2>6. CASE left' = 0
    <3>1. Outlasting
      BY <1>2 DEF idle_acknowledgement
    <3>2. t1_ms' >= t1_ms
      BY <2>1, <2>6, SelectGrows
    <3>3. Outlasting'
      BY <2>2, <2>3, <3>1, <3>2 DEF Outlasting, Clamped, Bounded
    <3> QED
      BY <2>4, <3>3 DEF T1Inv
  <2> QED
    BY <2>2, <2>5, <2>6
<1>3. CASE unstarted_acknowledgement
  <2>1. trip' = trip /\ left' = left
    BY <1>3 DEF unstarted_acknowledgement
  <2>2. ASSUME NEW remaining \in Int, select_t1_value(remaining) PROVE Clamped'
    <3>1. Bounded(srt', 100) /\ Bounded(t1_ms', 200) /\ t1_ms' = clamp(2 * srt')
      BY <2>2, SelectClamps
    <3> QED
      BY <2>1, <3>1 DEF Clamped
  <2>3. CASE select_t1_value(0) /\ UNCHANGED misread
    <3>1. Clamped' /\ t1_ms' >= t1_ms
      BY <2>2, <2>3, SelectGrows
    <3>2. Outlasting => Outlasting'
      BY <2>1, <3>1 DEF Outlasting, Clamped, Bounded
    <3> QED
      BY <2>3, <3>1, <3>2 DEF T1Inv
  <2>4. CASE select_t1_value(Never) /\ misread' = TRUE
    <3>1. Never \in Int
      BY DEF Never
    <3> QED
      BY <2>2, <2>4, <3>1 DEF T1Inv
  <2> QED
    BY <1>3, <2>3, <2>4 DEF unstarted_acknowledgement
<1>4. CASE UNCHANGED t1Vars
  BY <1>4 DEF t1Vars, T1Inv, Clamped, Outlasting
<1> QED
  BY <1>1, <1>2, <1>3, <1>4 DEF T1Next

\* Property T1OutlastsRoundTrip: whatever the round trips and the times between
\* acknowledgements are, T1 stays within its clamps and longer than the round trip it
\* was set from, but for a deadline that was misread.
THEOREM OutlastsRoundTrip == T1Spec => []T1OutlastsRoundTrip
<1>1. T1Init => T1Inv
  BY DEF T1Init, T1Inv, Clamped, Bounded, Outlasting, clamp
<1>2. T1Inv => T1OutlastsRoundTrip
  BY DEF T1Inv, Clamped, Bounded, Outlasting, T1OutlastsRoundTrip
<1> QED
  BY <1>1, <1>2, T1NextKeeps, PTL DEF T1Spec
==============================================================================
