-------------------------- MODULE ConnectionLemmas --------------------------
(***************************************************************************)
(* What each handler of ConnectionState and the poll that follows it do to *)
(* the window, the queues, the timers and the retry counter of a           *)
(* connection: the lemmas on which the theorems about Connection and Link  *)
(* rest.                                                                   *)
(*                                                                         *)
(* Good is what holds between two calls, Ready what a handler leaves;      *)
(* PollGood says that the poll makes Ready Good again.  There is one lemma *)
(* "...Handled" per handler.  The next section is about the frames a call  *)
(* sends and those the resend queue loses: one lemma "...Passes" per       *)
(* handler, and PollTells about the poll.  The last sections are about one *)
(* direction of a link whose data are numbered: Holds relates the marks    *)
(* and the resend queue to those numbers, Served is what a call leaves of  *)
(* a link that stays up, and Direct what the sender, the air and the       *)
(* receiver know of each other.  The very last ones are about a link whose *)
(* T1 may expire at any moment, where Stream is that direction and Done a  *)
(* call that keeps it.                                                     *)
(***************************************************************************)
EXTENDS ConnectionState, TLAPS, SequenceTheorems

------------------------------------------------------------------------------
(* Numbers modulo m, and sequences that lose elements at the front, as the *)
(* sequence variables and the queues of a connection need them.            *)

\* A number already on the circle of m stays where it is.
LEMMA ModPlain ==
    ASSUME NEW m \in Nat \ {0}, NEW x \in 0 .. m - 1
    PROVE  x % m = x
  BY SMTT(30)

\* One turn too far is taken back.
LEMMA ModOver ==
    ASSUME NEW m \in Nat \ {0}, NEW x \in m .. 2 * m - 1
    PROVE  x % m = x - m
  BY SMTT(30)

\* One turn short is added.
LEMMA ModUnder ==
    ASSUME NEW m \in Nat \ {0}, NEW x \in -m .. -1
    PROVE  x % m = x + m
  BY SMTT(30)

\* Whatever is reduced modulo m is on the circle.
LEMMA ModIn ==
    ASSUME NEW m \in Nat \ {0}, NEW x \in Int
    PROVE  x % m \in 0 .. m - 1
  BY SMTT(30)

\* The distance from a to b around the circle.
LEMMA ModDiff ==
    ASSUME NEW m \in Nat \ {0}, NEW a \in 0 .. m - 1, NEW b \in 0 .. m - 1
    PROVE  (b - a) % m = IF a <= b THEN b - a ELSE b - a + m
<1>1. CASE a <= b
  BY <1>1, ModPlain
<1>2. CASE b < a
  BY <1>2, ModUnder
<1> QED
  BY <1>1, <1>2

\* n steps on from a, at most once around.
LEMMA ModSum ==
    ASSUME NEW m \in Nat \ {0}, NEW a \in 0 .. m - 1, NEW n \in 0 .. m
    PROVE  (a + n) % m = IF a + n < m THEN a + n ELSE a + n - m
<1>1. CASE a + n < m
  BY <1>1, ModPlain
<1>2. CASE a + n >= m
  BY <1>2, ModOver
<1> QED
  BY <1>1, <1>2

\* A sequence without its first k, then n elements lacks its first k + n.
LEMMA DropDrop ==
    ASSUME NEW S, NEW s \in Seq(S), NEW k \in Nat, NEW n \in Nat, k + n <= Len(s)
    PROVE  SubSeq(SubSeq(s, k + 1, Len(s)), n + 1, Len(s) - k) = SubSeq(s, k + n + 1, Len(s))
  BY SMTT(30)

\* What is left of a sequence without its first k elements.
LEMMA DropLen ==
    ASSUME NEW S, NEW s \in Seq(S), NEW k \in Nat, k <= Len(s)
    PROVE  /\ SubSeq(s, k + 1, Len(s)) \in Seq(S)
           /\ Len(SubSeq(s, k + 1, Len(s))) = Len(s) - k
  BY SMTT(30)

\* A sequence without its first 0 elements.
LEMMA DropNone ==
    ASSUME NEW S, NEW s \in Seq(S)
    PROVE  SubSeq(s, 1, Len(s)) = s
  BY SMTT(30)

\* Dropping from the front and appending at the back commute.
LEMMA DropAppend ==
    ASSUME NEW S, NEW s \in Seq(S), NEW k \in Nat, k <= Len(s), NEW p \in S
    PROVE  SubSeq(Append(s, p), k + 1, Len(s) + 1) = Append(SubSeq(s, k + 1, Len(s)), p)
<1> DEFINE t == Append(s, p)
           l == SubSeq(t, k + 1, Len(s) + 1)
           d == SubSeq(s, k + 1, Len(s))
           r == Append(d, p)
<1>1. t \in Seq(S) /\ Len(t) = Len(s) + 1 /\ t[Len(s) + 1] = p
      /\ \A i \in 1 .. Len(s) : t[i] = s[i]
  BY AppendProperties
<1>2. d \in Seq(S) /\ Len(d) = Len(s) - k
      /\ \A i \in 1 .. Len(s) - k : d[i] = s[k + i]
  BY SMTT(30)
<1>3. r \in Seq(S) /\ Len(r) = Len(s) - k + 1 /\ r[Len(s) - k + 1] = p
      /\ \A i \in 1 .. Len(s) - k : r[i] = s[k + i]
  <2> HIDE DEF d
  <2> QED BY <1>2, AppendProperties
<1>4. l \in Seq(S) /\ Len(l) = Len(s) + 1 - k
      /\ \A i \in 1 .. Len(s) + 1 - k : l[i] = t[k + i]
  <2> HIDE DEF t
  <2> QED BY <1>1, SMTT(30)
<1> HIDE DEF t, l, d, r
<1>5. \A i \in 1 .. Len(l) : l[i] = r[i]
  BY <1>1, <1>3, <1>4, SMTT(30)
<1>6. Len(l) = Len(r)
  BY <1>3, <1>4
<1>7. l = r
  BY <1>3, <1>4, <1>5, <1>6, SeqEqual
<1> QED
  BY <1>7 DEF t, l, d, r

\* Where the elements of two sequences lie in one put behind the other.
LEMMA ConcatParts ==
    ASSUME NEW S, NEW s \in Seq(S), NEW t \in Seq(S)
    PROVE  /\ DOMAIN (s \o t) = 1 .. Len(s) + Len(t)
           /\ \A i \in 1 .. Len(s) : (s \o t)[i] = s[i]
           /\ \A i \in 1 .. Len(t) : (s \o t)[Len(s) + i] = t[i]
  BY SMTT(30)

\* A product with a positive number moves away from zero.
LEMMA Times ==
    ASSUME NEW m \in Nat \ {0}, NEW k \in Int
    PROVE  /\ k * m \in Int
           /\ k >= 1 => k * m >= m
           /\ k <= -1 => k * m <= -m
<1>1. k * m \in Int
  OBVIOUS
<1>2. k >= 1 => (k - 1) * m >= 0
  OBVIOUS
<1>3. k <= -1 => (-1 - k) * m >= 0
  OBVIOUS
<1>4. (k - 1) * m = k * m - m /\ (-1 - k) * m = -m - k * m
  OBVIOUS
<1> QED
  BY <1>1, <1>2, <1>3, <1>4

\* What is left over by division.
LEMMA ModOf ==
    ASSUME NEW m \in Nat \ {0}, NEW x \in Int
    PROVE  /\ x % m \in 0 .. m - 1
           /\ \E k \in Int : x = k * m + (x % m)
<1>1. x \div m \in Int /\ x = m * (x \div m) + (x % m)
  BY SMTT(30)
<1>2. x = (x \div m) * m + (x % m)
  BY <1>1, SMTT(30)
<1> QED
  BY <1>1, <1>2, ModIn, Zenon

\* Two numbers less than a turn apart that have the same place are equal.
LEMMA SamePlace ==
    ASSUME NEW m \in Nat \ {0}, NEW x \in Int, NEW y \in Int, x % m = y % m,
           x - y < m, y - x < m
    PROVE  x = y
<1>1. PICK j \in Int : x = j * m + (x % m)
  BY ModOf
<1>2. PICK k \in Int : y = k * m + (y % m)
  BY ModOf
<1>3. x - y = (j - k) * m
  BY <1>1, <1>2, ModOf
<1>4. j - k \in Int
  OBVIOUS
<1> QED
  BY <1>3, <1>4, Times

\* Whole turns do not change the place of a number.
LEMMA WholeTurns ==
    ASSUME NEW m \in Nat \ {0}, NEW x \in Int, NEW y \in Int, NEW k \in Int,
           x = k * m + y
    PROVE  x % m = y % m
<1>1. PICK j \in Int : x = j * m + (x % m)
  BY ModOf
<1>2. PICK i \in Int : y = i * m + (y % m)
  BY ModOf
<1>3. PICK a \in 0 .. m - 1 : a = x % m
  BY ModOf
<1>4. PICK b \in 0 .. m - 1 : b = y % m
  BY ModOf
<1>5. b - a = (j - k - i) * m
  BY <1>1, <1>2, <1>3, <1>4
<1>6. j - k - i \in Int
  OBVIOUS
<1>7. b - a = 0
  BY <1>5, <1>6, Times
<1> QED
  BY <1>3, <1>4, <1>7

\* Places may be taken before or after adding and subtracting.
LEMMA PlaceSum ==
    ASSUME NEW m \in Nat \ {0}, NEW x \in Int, NEW y \in Int
    PROVE  /\ ((x % m) + y) % m = (x + y) % m
           /\ (x - (y % m)) % m = (x - y) % m
<1>1. PICK j \in Int : x = j * m + (x % m)
  BY ModOf
<1>2. PICK k \in Int : y = k * m + (y % m)
  BY ModOf
<1>3. PICK a \in 0 .. m - 1 : a = x % m
  BY ModOf
<1>4. PICK b \in 0 .. m - 1 : b = y % m
  BY ModOf
<1>5. x = j * m + a /\ y = k * m + b /\ j * m \in Int /\ k * m \in Int
  BY <1>1, <1>2, <1>3, <1>4, Times, Zenon
<1>6. (x + y) % m = (a + y) % m
  <2>1. x + y = j * m + (a + y) /\ x + y \in Int /\ a + y \in Int
    BY <1>5
  <2> QED
    BY <2>1, WholeTurns, Zenon
<1>7. (x - b) % m = (x - y) % m
  <2>1. x - b = k * m + (x - y) /\ x - b \in Int /\ x - y \in Int
    BY <1>5
  <2> QED
    BY <2>1, WholeTurns, Zenon
<1> QED
  BY <1>3, <1>4, <1>6, <1>7

\* A number x read as the first one at or after a that has its place.
LEMMA Unwrapped ==
    ASSUME NEW m \in Nat \ {0}, NEW a \in Int, NEW x \in 0 .. m - 1
    PROVE  LET y == a + ((x - a) % m)
           IN  y \in Int /\ a <= y /\ y < a + m /\ y % m = x
<1> DEFINE d == (x - a) % m
<1>1. d \in 0 .. m - 1
  BY ModOf
<1>2. (d + a) % m = ((x - a) + a) % m
  <2>1. x - a \in Int
    OBVIOUS
  <2> QED
    BY <2>1, PlaceSum, Zenon
<1>3. (x - a) + a = x
  OBVIOUS
<1>4. x % m = x
  BY ModPlain
<1> HIDE DEF d
<1>5. d + a = a + d
  BY <1>1
<1>6. (a + d) % m = x
  BY <1>2, <1>3, <1>4, <1>5, Zenon
<1> QED
  BY <1>1, <1>6 DEF d

\* Only one number within a turn of a has a given place.
LEMMA UnwrappedIs ==
    ASSUME NEW m \in Nat \ {0}, NEW a \in Int, NEW y \in Int, a <= y, y < a + m
    PROVE  ((y % m) - a) % m = y - a
<1>1. y % m \in 0 .. m - 1
  BY ModOf
<1> DEFINE z == a + (((y % m) - a) % m)
<1>2. z \in Int /\ a <= z /\ z < a + m /\ z % m = y % m
  BY <1>1, Unwrapped
<1> HIDE DEF z
<1>3. z = y
  <2>1. z - y < m /\ y - z < m /\ z \in Int /\ z % m = y % m
    BY <1>2
  <2> QED
    BY <2>1, SamePlace, Zenon
<1>4. ((y % m) - a) % m \in Int
  BY <1>1, ModOf
<1> QED
  BY <1>3, <1>4 DEF z

------------------------------------------------------------------------------
(* What is true of a connection c between two calls.                       *)

\* A link in any state but Disconnected has one of the two moduli.
Versioned(c) == c.st # "Disconnected" => c.modulus \in {Modulus, ExtModulus}

\* V(S), V(A) and V(R) of a link that is up lie on its circle, and no more
\* than k frames are outstanding.
Window(c) ==
    can_receive_data(c) => /\ c.vs \in 0 .. c.modulus - 1
                           /\ c.va \in 0 .. c.modulus - 1
                           /\ c.vr \in 0 .. c.modulus - 1
                           /\ Outstanding(c) <= K

\* The transmit queue is the resend queue without its first n frames.
TailOf(c, n) ==
    /\ n <= Len(c.iframe_resend_queue)
    /\ c.iframe_queue = SubSeq(c.iframe_resend_queue, n + 1,
                               Len(c.iframe_resend_queue))

\* The queues of a link that is up fit its window; those of a link that is
\* being set up are the same, unless the UA that ends the set-up clears them.
Stored(c) ==
    /\ can_receive_data(c) => TailOf(c, Outstanding(c))
    /\ c.st = "AwaitingConnection" =>
          \/ ~c.layer3_initiated /\ c.vs # c.va
          \/ TailOf(c, 0)

\* A connection that was never up holds nothing and waits for nothing.
Fresh(c) ==
    c.iframe_queue = <<>> /\ c.iframe_resend_queue = <<>> /\ ~c.t1

\* T1 runs while the connection waits for its peer, and T3 only when it does not.
Timed(c) ==
    /\ AwaitsPeer(c) => c.t1
    /\ ~(c.t1 /\ c.t3)

\* A connection between two calls.
Good(c) ==
    /\ c \in ConnectionType
    /\ Versioned(c) /\ Window(c) /\ Stored(c) /\ Timed(c)
    /\ c.rc <= c.n2
    /\ ~c.aborted

\* What a handler leaves to maybe_change_state: as Good, but the timer of a
\* retransmission is started by the poll.
Ready(c) ==
    /\ c \in ConnectionType
    /\ Versioned(c) /\ Window(c) /\ Stored(c)
    /\ AwaitsPeer(c) => \/ c.t1
                        \/ c.st = "TimerRecovery" /\ c.vs = c.va
                           /\ c.iframe_queue # <<>>
    /\ ~(c.t1 /\ c.t3)
    /\ c.rc <= c.n2
    /\ ~c.aborted

USE ModulusAssumption, WindowAssumption, RetryAssumption

------------------------------------------------------------------------------
\* send_packet is handed frames only.
LEMMA SendType ==
    ASSUME NEW c \in ConnectionType, NEW f \in Frame
    PROVE  send(c, f) \in ConnectionType
<1>1. Append(c.out, f) \in Seq(Frame)
  BY AppendProperties DEF ConnectionType
<1> QED
  BY <1>1 DEF send, ConnectionType

\* The distance between two sequence variables.
LEMMA OutstandingIs ==
    ASSUME NEW c \in ConnectionType, NEW a \in 0 .. c.modulus - 1, NEW b \in 0 .. c.modulus - 1
    PROVE  ahead(c, a, b) = IF a <= b THEN b - a ELSE b - a + c.modulus
<1>1. c.modulus \in Nat \ {0}
  BY DEF ConnectionType
<1> QED
  BY <1>1, ModDiff DEF ahead

\* What the poll makes of a queued payload is a frame.
LEMMA QueuedIsFrame ==
    ASSUME NEW c \in ConnectionType, c.modulus # 0, NEW i \in 1 .. Len(c.iframe_queue)
    PROVE  queued_iframe(c, i) \in Frame
<1>1. c.iframe_queue[i] \in Payload
  BY DEF ConnectionType
<1>2. c.modulus \in Nat \ {0} /\ c.vs + i - 1 \in Int
  BY SMTT(30) DEF ConnectionType
<1>3. (c.vs + i - 1) % c.modulus \in 0 .. c.modulus - 1
  BY <1>2, ModIn
<1>4. (c.vs + i - 1) % c.modulus \in Nat
  BY <1>2, <1>3
<1> QED
  BY <1>1, <1>4 DEF queued_iframe, Iframe, Frame, ConnectionType

\* Sending n queued frames keeps the fields' types.
LEMMA TransmitType ==
    ASSUME NEW c \in ConnectionType, c.modulus # 0, NEW n \in Nat,
           n <= Len(c.iframe_queue)
    PROVE  transmit(c, n) \in ConnectionType
<1>0. c.modulus \in Nat \ {0} /\ c.vs \in Nat
  BY DEF ConnectionType
<1>1. SubSeq(c.iframe_queue, n + 1, Len(c.iframe_queue)) \in Seq(Payload)
  BY DropLen DEF ConnectionType
<1>2. [i \in 1 .. n |-> queued_iframe(c, i)] \in Seq(Frame)
  <2>1. ASSUME NEW i \in 1 .. n PROVE queued_iframe(c, i) \in Frame
    BY QueuedIsFrame
  <2> QED
    BY <2>1
<1>3. c.out \o [i \in 1 .. n |-> queued_iframe(c, i)] \in Seq(Frame)
  BY <1>2, ConcatProperties DEF ConnectionType
<1>4. (c.vs + n) % c.modulus \in Nat
  <2>1. (c.vs + n) % c.modulus \in 0 .. c.modulus - 1
    <3>1. c.vs + n \in Int
      BY <1>0
    <3> QED
      BY <1>0, <3>1, ModIn
  <2> QED
    BY <1>0, <2>1
<1> QED
  BY <1>1, <1>3, <1>4, ZenonT(40) DEF transmit, ConnectionType

\* The poll sends what is queued as far as the window of k frames has room.
LEMMA SendableFits ==
    ASSUME NEW c, Ready(c), can_receive_data(c)
    PROVE  LET m == c.modulus
               n == sendable(c)
           IN  /\ m \in Nat \ {0} /\ m > K /\ c \in ConnectionType
               /\ c.vs \in 0 .. m - 1 /\ c.va \in 0 .. m - 1
               /\ Outstanding(c) = IF c.va <= c.vs THEN c.vs - c.va
                                                   ELSE c.vs - c.va + m
               /\ Outstanding(c) \in 0 .. K
               /\ n \in Nat /\ n <= Len(c.iframe_queue) /\ n <= K - Outstanding(c)
               /\ (c.iframe_queue # <<>> /\ Outstanding(c) = 0) => n # 0
               /\ n \in {Len(c.iframe_queue), K - Outstanding(c)}
<1> DEFINE n == sendable(c)
           m == c.modulus
<1>1. m \in Nat \ {0} /\ m > K /\ c \in ConnectionType
  BY DEF Ready, Versioned, can_receive_data, ReceivingStates
<1>2. c.vs \in 0 .. m - 1 /\ c.va \in 0 .. m - 1
      /\ Outstanding(c) = (c.vs - c.va) % m /\ Outstanding(c) <= K
  BY DEF Ready, Window, Outstanding, ahead
<1>3. Outstanding(c) = IF c.va <= c.vs THEN c.vs - c.va ELSE c.vs - c.va + m
  BY <1>1, <1>2, ModDiff
<1>4. (c.va + K - c.vs) % m = K - Outstanding(c) /\ Outstanding(c) \in 0 .. K
  <2>1. CASE c.va <= c.vs
    <3>1. c.va + K - c.vs = K - Outstanding(c) /\ K - Outstanding(c) \in 0 .. m - 1
      BY <2>1, <1>1, <1>2, <1>3
    <3> QED
      BY <2>1, <3>1, <1>1, <1>2, <1>3, ModPlain
  <2>2. CASE c.vs < c.va
    <3> DEFINE x == c.va + K - c.vs
    <3>1. x = K - Outstanding(c) + m /\ x \in m .. 2 * m - 1
      BY <2>2, <1>1, <1>2, <1>3
    <3>2. Outstanding(c) \in 0 .. K
      BY <2>2, <1>1, <1>2, <1>3
    <3>3. x % m = x - m
      <4> HIDE DEF x, m
      <4> QED
        BY <3>1, <1>1, ModOver
    <3>4. x - m = K - Outstanding(c)
      BY <3>1, <3>2, <1>1
    <3> QED
      BY <3>2, <3>3, <3>4
  <2>3. c.va <= c.vs \/ c.vs < c.va
    BY <1>1, <1>2
  <2> QED
    BY <2>1, <2>2, <2>3
<1>5. n \in Nat /\ n <= Len(c.iframe_queue) /\ n <= K - Outstanding(c)
  <2>1. Len(c.iframe_queue) \in Nat
    BY <1>1 DEF ConnectionType
  <2> QED
    BY <1>1, <1>4, <2>1 DEF sendable
<1>6. (c.iframe_queue # <<>> /\ Outstanding(c) = 0) => n # 0
  <2>1. c.iframe_queue # <<>> => Len(c.iframe_queue) # 0
    BY <1>1 DEF ConnectionType
  <2> QED
    BY <2>1, <1>1, <1>4 DEF sendable
<1>8. n \in {Len(c.iframe_queue), K - Outstanding(c)}
  BY <1>4 DEF sendable
<1> HIDE DEF n, m
<1>7. /\ m \in Nat \ {0} /\ m > K /\ c \in ConnectionType
      /\ c.vs \in 0 .. m - 1 /\ c.va \in 0 .. m - 1
  BY <1>1, <1>2
<1> QED
  BY <1>4, <1>5, <1>6, <1>7, <1>8, <1>3 DEF n, m

\* The poll of maybe_change_state (dl_data_poll): it never opens the window past
\* k, takes what it sends off the head of the transmit queue only, and has T1
\* running when anything was sent.
LEMMA PollGood ==
    ASSUME NEW c, Ready(c)
    PROVE  /\ Good(dl_data_poll(c))
           /\ dl_data_poll(c).st = c.st
           /\ c.st = "Disconnected" => dl_data_poll(c) = c
<1>1. CASE ~can_receive_data(c)
  BY <1>1 DEF dl_data_poll, can_receive_data, Ready, Good, Timed, AwaitsPeer, ReceivingStates
<1>2. CASE can_receive_data(c)
  <2> DEFINE n == sendable(c)
             d == transmit(c, n)
             m == c.modulus
  <2>1. m \in Nat \ {0} /\ m > K /\ c \in ConnectionType
        /\ c.vs \in 0 .. m - 1 /\ c.va \in 0 .. m - 1
        /\ Outstanding(c) = IF c.va <= c.vs THEN c.vs - c.va ELSE c.vs - c.va + m
    BY <1>2, SendableFits
  <2>2. Outstanding(c) \in 0 .. K
    BY <1>2, SendableFits
  <2>3. n \in Nat /\ n <= Len(c.iframe_queue) /\ n <= K - Outstanding(c)
    BY <1>2, SendableFits
  <2>11. (c.iframe_queue # <<>> /\ Outstanding(c) = 0) => n # 0
    BY <1>2, SendableFits
  <2>4. d \in ConnectionType
    BY <2>1, <2>3, TransmitType
  <2>5. d.vs = (c.vs + n) % m /\ d.va = c.va /\ d.modulus = m /\ d.vr = c.vr /\ d.st = c.st
        /\ d.rc = c.rc /\ d.n2 = c.n2 /\ d.aborted = c.aborted
        /\ d.iframe_resend_queue = c.iframe_resend_queue
        /\ d.t1 = (c.t1 \/ n > 0) /\ d.t3 = (c.t3 /\ (c.t1 \/ n = 0))
        /\ d.iframe_queue = SubSeq(c.iframe_queue, n + 1, Len(c.iframe_queue))
    BY <2>1 DEF transmit, ConnectionType
  <2> HIDE DEF n, d
  <2>6. d.vs \in 0 .. m - 1 /\ Outstanding(d) = Outstanding(c) + n
    <3>0. n \in 0 .. m
      BY <2>1, <2>2, <2>3
    <3>1. d.vs = IF c.vs + n < m THEN c.vs + n ELSE c.vs + n - m
      BY <2>1, <3>0, <2>5, <2>1, ModSum
    <3>2. d.vs \in 0 .. m - 1
      BY <3>0, <3>1, <2>1
    <3>3. Outstanding(d) = (d.vs - d.va) % m
      BY <2>5 DEF Outstanding, ahead
    <3>4. Outstanding(d) = IF d.va <= d.vs THEN d.vs - d.va ELSE d.vs - d.va + m
      BY <3>2, <3>3, <2>1, <2>5, <2>1, ModDiff
    <3> QED
      <4>1. Outstanding(c) + n < m /\ d.va = c.va /\ n \in Nat
        BY <2>1, <2>2, <2>3, <2>5
      <4>2. CASE c.va <= c.vs
        <5>1. Outstanding(c) = c.vs - c.va
          BY <4>2, <2>1
        <5> QED
          BY <3>1, <3>2, <3>4, <4>1, <4>2, <5>1, <2>1
      <4>3. CASE c.vs < c.va
        <5>1. Outstanding(c) = c.vs - c.va + m
          BY <4>3, <2>1
        <5> QED
          BY <3>1, <3>2, <3>4, <4>1, <4>3, <5>1, <2>1
      <4> QED
        BY <4>2, <4>3, <2>1
  <2>7. Window(d) /\ Versioned(d)
    BY <1>2, <2>2, <2>3, <2>5, <2>6 DEF Ready, Window, Versioned, can_receive_data
  <2>8. Stored(d)
    <3> DEFINE q == c.iframe_queue
               s == c.iframe_resend_queue
               o == Outstanding(c)
    <3>1. s \in Seq(Payload) /\ o \in Nat /\ o <= Len(s) /\ q = SubSeq(s, o + 1, Len(s))
      BY <1>2, <2>1, <2>2 DEF Ready, Stored, TailOf, ConnectionType
    <3>2. Len(q) = Len(s) - o
      BY <3>1, DropLen
    <3>3. SubSeq(q, n + 1, Len(q)) = SubSeq(s, o + n + 1, Len(s)) /\ o + n <= Len(s)
      <4>1. Len(s) \in Nat /\ n \in Nat /\ o + n <= Len(s)
        BY <3>1, <3>2, <2>3
      <4> HIDE DEF o, s, q
      <4> QED
        BY <3>1, <3>2, <4>1, DropDrop
    <3> QED
      BY <1>2, <3>3, <2>5, <2>6 DEF Stored, TailOf, can_receive_data, ReceivingStates
  <2>9. Timed(d)
    <3>1. CASE n > 0
      <4>1. n > 0 /\ ~(n = 0) /\ ~(c.t1 /\ c.t3)
        BY <3>1, <2>3 DEF Ready
      <4>2. d.t1 /\ ~d.t3
        BY <4>1, <2>5, Zenon
      <4> QED
        BY <4>2 DEF Timed
    <3>2. CASE n = 0
      <4>1. d.vs = c.vs /\ d.t1 = c.t1 /\ d.t3 = c.t3
        <5>1. c.vs + n = c.vs /\ c.t1 \in BOOLEAN /\ c.t3 \in BOOLEAN
          BY <3>2, <2>1 DEF ConnectionType
        <5> QED
          <6>1. d.vs = c.vs
            BY <5>1, <2>1, <2>5, <2>1, ModPlain
          <6>2. ~(n > 0)
            BY <3>2
          <6>3. d.t1 = c.t1 /\ d.t3 = c.t3
            BY <3>2, <5>1, <6>2, <2>5, Zenon
          <6> QED
            BY <6>1, <6>3
      <4>2. c.vs = c.va => Outstanding(c) = 0
        BY <2>1, <2>1
      <4>3. c.vs = c.va /\ c.iframe_queue # <<>> => n # 0
        BY <2>11, <4>2
      <4> QED
        BY <3>2, <4>1, <4>3, <2>5 DEF Timed, Ready, AwaitsPeer
    <3> QED
      BY <2>3, <3>1, <3>2
  <2>10. dl_data_poll(c) = d
    BY <1>2 DEF dl_data_poll, can_receive_data, n, d
  <2> QED
    BY <1>2, <2>4, <2>5, <2>7, <2>8, <2>9, <2>10 DEF Good, Ready, can_receive_data, ReceivingStates
<1> QED
  BY <1>1, <1>2

\* A call starts with nothing handed out yet.
LEMMA StartGood ==
    ASSUME NEW c, Good(c)
    PROVE  /\ Good(start(c)) /\ Ready(start(c))
           /\ start(c).st = c.st
           /\ Fresh(c) => Fresh(start(c))
<1>1. <<>> \in Seq(Frame) /\ <<>> \in Seq(Payload)
  OBVIOUS
<1>2. start(c) \in ConnectionType
  BY <1>1 DEF start, Good, ConnectionType
<1> QED
  BY <1>2 DEF start, Good, Ready, ConnectionType, Versioned, Window, Stored,
              TailOf, Timed, AwaitsPeer, Outstanding, ahead, can_receive_data, Fresh

\* Sending a frame that is not counted touches nothing else.
LEMMA SendReady ==
    ASSUME NEW c, Ready(c), NEW f \in Frame
    PROVE  Ready(send(c, f))
<1>1. send(c, f) \in ConnectionType
  BY SendType DEF Ready
<1> QED
  BY <1>1 DEF send, Ready, ConnectionType, Versioned, Window, Stored,
              TailOf, AwaitsPeer, Outstanding, ahead, can_receive_data

\* The frames the state machine makes are frames.
LEMMA FramesAre ==
    ASSUME NEW pf \in BOOLEAN, NEW cr \in BOOLEAN, NEW n \in Nat
    PROVE  /\ Ua(pf) \in Frame /\ Dm(pf) \in Frame /\ Sabm(pf) \in Frame
           /\ Disc(pf) \in Frame /\ Rr(pf, n, cr) \in Frame
           /\ Rej(pf, n) \in Frame
<1>1. Ua(pf) \in Frame /\ Dm(pf) \in Frame /\ Sabm(pf) \in Frame
      /\ Disc(pf) \in Frame
  BY DEF Ua, Dm, Sabm, Disc, Frame
<1>2. Rr(pf, n, cr) \in Frame
  BY DEF Rr, Frame
<1>3. Rej(pf, n) \in Frame
  BY DEF Rej, Frame
<1> QED
  BY <1>1, <1>2, <1>3

\* establish_data_link: the queues are left alone, which is sound because the UA
\* that ends it clears them unless they are equal.
LEMMA ReestablishReady ==
    ASSUME NEW c \in ConnectionType, NEW by_user \in BOOLEAN,
           c.modulus \in {Modulus, ExtModulus}, ~c.aborted,
           by_user \/ c.vs = c.va => TailOf(c, 0)
    PROVE  Ready(reestablish(c, by_user))
<1> DEFINE d == clear_exception_conditions(c)
           e == send(d, Sabm(TRUE))
<1>1. d \in ConnectionType
  BY DEF clear_exception_conditions, ConnectionType
<1>2. e \in ConnectionType
  BY <1>1, SendType, FramesAre
<1>3. reestablish(c, by_user) \in ConnectionType
  BY <1>2 DEF reestablish, establish_data_link, ConnectionType, States
<1> QED
  <2> DEFINE r == reestablish(c, by_user)
  <2>1. /\ r.st = "AwaitingConnection" /\ r.modulus = c.modulus
        /\ r.layer3_initiated = by_user /\ r.vs = c.vs /\ r.va = c.va
        /\ r.rc = 0 /\ r.t1 /\ ~r.t3 /\ ~r.aborted
        /\ r.iframe_queue = c.iframe_queue
        /\ r.iframe_resend_queue = c.iframe_resend_queue
    BY DEF reestablish, establish_data_link, send, clear_exception_conditions,
           ConnectionType
  <2>2. r \in ConnectionType /\ 0 <= r.n2
    BY <1>3, SMTT(30) DEF ConnectionType
  <2> HIDE DEF r
  <2>3. TailOf(c, 0) => TailOf(r, 0)
    BY <2>1 DEF TailOf
  <2> QED
    <3>1. Versioned(r) /\ Window(r)
      BY <2>1 DEF Versioned, Window, can_receive_data, ReceivingStates
    <3>2. (~r.layer3_initiated /\ r.vs # r.va) \/ TailOf(r, 0)
      BY <2>1, <2>3, Zenon
    <3>3. Stored(r)
      BY <2>1, <3>2 DEF Stored, can_receive_data, ReceivingStates
    <3>4. ~(r.t1 /\ r.t3) /\ r.rc <= r.n2 /\ ~r.aborted
      BY <2>1, <2>2
    <3>5. Ready(r)
      BY <2>1, <2>2, <3>1, <3>3, <3>4 DEF Ready
    <3> QED
      BY <3>5 DEF r

\* A link that is up may be set up anew, whatever it holds.
LEMMA RecoveryReady ==
    ASSUME NEW c, c \in ConnectionType, Versioned(c), Window(c), Stored(c),
           ~c.aborted, can_receive_data(c)
    PROVE  Ready(reestablish(c, FALSE))
<1>1. c.vs = c.va => Outstanding(c) = 0
  <2>1. c.modulus \in Nat \ {0} /\ c.vs \in 0 .. c.modulus - 1 /\ c.va \in 0 .. c.modulus - 1
    BY SMTT(30) DEF Window, Versioned, can_receive_data, ReceivingStates, ConnectionType
  <2> QED
    BY <2>1, ModDiff DEF Outstanding, ahead
<1> QED
  BY <1>1, ReestablishReady DEF Stored, Versioned, can_receive_data, ReceivingStates

\* update_ack of a number in range: the assert holds, the window shrinks by as
\* many frames as the resend queue, and the transmit queue stays its tail.
LEMMA AckKeeps ==
    ASSUME NEW c \in ConnectionType, Versioned(c), Window(c), Stored(c),
           ~c.aborted, can_receive_data(c), NEW nr, in_range(c, nr)
    PROVE  LET d == update_ack(c, nr)
           IN  /\ d \in ConnectionType
               /\ d = [c EXCEPT !.va = nr,
                                !.iframe_resend_queue = d.iframe_resend_queue]
               /\ Window(d) /\ Stored(d) /\ Versioned(d)
               /\ Outstanding(d) = Outstanding(c) - ahead(c, c.va, nr)
<1> DEFINE m == c.modulus
           s == c.iframe_resend_queue
           k == ahead(c, c.va, nr)
           o == Outstanding(c)
           d == [c EXCEPT !.va = nr, !.iframe_resend_queue = SubSeq(s, k + 1, Len(s))]
<1>1. /\ m \in Nat \ {0} /\ m > K
      /\ c.vs \in 0 .. m - 1 /\ c.va \in 0 .. m - 1 /\ nr \in 0 .. m - 1
  BY DEF Window, Versioned, can_receive_data, ReceivingStates, in_range
<1>2. /\ k = IF c.va <= nr THEN nr - c.va ELSE nr - c.va + m
      /\ o = IF c.va <= c.vs THEN c.vs - c.va ELSE c.vs - c.va + m
  BY <1>1, ModDiff DEF ahead, Outstanding
<1>3. k \in Nat /\ o \in Nat /\ k <= o /\ o <= K
  BY <1>1, <1>2 DEF in_range, Window
<1>4. s \in Seq(Payload) /\ Len(s) \in Nat /\ o <= Len(s)
      /\ c.iframe_queue = SubSeq(s, o + 1, Len(s))
  BY DEF Stored, TailOf, ConnectionType
<1>5. update_ack(c, nr) = d
  <2>1. ~(k > Len(s))
    BY <1>3, <1>4
  <2> QED
    BY <2>1 DEF update_ack
<1>6. SubSeq(s, k + 1, Len(s)) \in Seq(Payload)
      /\ Len(SubSeq(s, k + 1, Len(s))) = Len(s) - k
  <2> HIDE DEF k, s
  <2> QED
    BY <1>3, <1>4, DropLen
<1>7. nr \in Nat
  BY <1>1
<1>8. d \in ConnectionType /\ d.va = nr /\ d.vs = c.vs /\ d.modulus = m /\ d.vr = c.vr
      /\ d.st = c.st /\ d.iframe_queue = c.iframe_queue
      /\ d.iframe_resend_queue = SubSeq(s, k + 1, Len(s))
  <2> HIDE DEF k, s
  <2> QED
    BY <1>6, <1>7 DEF ConnectionType
<1>9. Outstanding(d) = o - k
  <2> HIDE DEF k, o
  <2>1. Outstanding(d) = (c.vs - nr) % m
    BY <1>8 DEF Outstanding, ahead
  <2>2. Outstanding(d) = IF nr <= c.vs THEN c.vs - nr ELSE c.vs - nr + m
    BY <2>1, <1>1, ModDiff
  <2> QED
    BY <2>2, <1>1, <1>2, <1>3
<1>10. o - k \in Nat /\ o - k <= K /\ (o - k) + k = o /\ o - k <= Len(s) - k
  <2> HIDE DEF k, o, s
  <2> QED
    BY <1>1, <1>3, <1>4
<1>11. Window(d) /\ Versioned(d)
  <2> HIDE DEF k, o, s, d
  <2> QED
    BY <1>1, <1>8, <1>9, <1>10 DEF Window, Versioned, can_receive_data, ReceivingStates
<1>12. Stored(d)
  <2> HIDE DEF k, o, s, d
  <2>1. SubSeq(SubSeq(s, k + 1, Len(s)), (o - k) + 1, Len(s) - k) = SubSeq(s, o + 1, Len(s))
    <3>1. k + (o - k) + 1 = o + 1 /\ k + (o - k) <= Len(s)
      BY <1>3, <1>4, <1>10
    <3> QED
      BY <3>1, <1>3, <1>4, <1>10, DropDrop
  <2> QED
    BY <2>1, <1>4, <1>6, <1>8, <1>9, <1>10 DEF Stored, TailOf, can_receive_data, ReceivingStates
<1> QED
  BY <1>5, <1>8, <1>9, <1>11, <1>12

\* A connection between two calls is as good as one a handler left.
LEMMA GoodReady ==
    ASSUME NEW c, Good(c)
    PROVE  Ready(c)
  BY DEF Good, Ready, Timed

\* enquiry_response only sends.
LEMMA EnquiryReady ==
    ASSUME NEW c, Ready(c), NEW f \in BOOLEAN
    PROVE  /\ Ready(enquiry_response(c, f))
           /\ enquiry_response(c, f) =
                 [send(c, Rr(f, c.vr, FALSE)) EXCEPT !.acknowledge_pending = FALSE]
<1>1. c.vr \in Nat
  BY DEF Ready, ConnectionType
<1>2. Ready(send(c, Rr(f, c.vr, FALSE)))
  BY <1>1, FramesAre, SendReady
<1> DEFINE e == send(c, Rr(f, c.vr, FALSE))
           d == [e EXCEPT !.acknowledge_pending = FALSE]
<1> HIDE DEF e
<1>3. d \in ConnectionType
  BY <1>2 DEF Ready, ConnectionType, e
<1>4. Ready(d)
  BY <1>2, <1>3 DEF Ready, ConnectionType, Versioned, Window, Stored, TailOf,
                    AwaitsPeer, Outstanding, ahead, can_receive_data, e
<1> QED
  BY <1>4 DEF enquiry_response, e

\* An idle window: nothing outstanding.
LEMMA ZeroOutstanding ==
    ASSUME NEW c \in ConnectionType, c.modulus # 0,
           c.vs = c.va, c.va \in 0 .. c.modulus - 1
    PROVE  Outstanding(c) = 0
<1>1. c.modulus \in Nat \ {0}
  BY DEF ConnectionType
<1> QED
  BY <1>1, ModDiff DEF Outstanding, ahead

\* A link starts with all its sequence variables zero.
LEMMA LinkUpReady ==
    ASSUME NEW c \in ConnectionType, c.st = "Connected",
           c.modulus \in {Modulus, ExtModulus},
           c.vs = 0, c.va = 0, c.vr = 0, TailOf(c, 0),
           ~c.aborted, c.rc <= c.n2, ~(c.t1 /\ c.t3)
    PROVE  Ready(c)
<1>1. Outstanding(c) = 0
  BY ZeroOutstanding
<1> QED
  BY <1>1 DEF Ready, Versioned, Window, Stored, AwaitsPeer, can_receive_data, ReceivingStates

\* A link that is not up.
LEMMA LinkDownReady ==
    ASSUME NEW c \in ConnectionType,
           c.st \in {"Disconnected", "AwaitingRelease"}, Versioned(c),
           ~c.aborted, c.rc <= c.n2, ~(c.t1 /\ c.t3)
    PROVE  Ready(c)
  BY DEF Ready, Window, Stored, AwaitsPeer, can_receive_data, ReceivingStates

\* A handler leaves d where it found c.
Handled(c, d) ==
    /\ Ready(d)
    /\ c.st = "Disconnected" /\ d.st = "Disconnected" /\ Fresh(c) => Fresh(d)

\* Disconnected::sabm and sabme.
LEMMA SabmHandled ==
    ASSUME NEW c, Good(c), NEW pf \in BOOLEAN, NEW m \in {Modulus, ExtModulus},
           Fresh(c), c.st = "Disconnected"
    PROVE  Handled(c, Disconnected_sabm(c, pf, m))
<1> DEFINE v == set_version(c, m)
           s == send(v, Ua(pf))
           d == Disconnected_sabm(c, pf, m)
<1>1. v \in ConnectionType
  BY DEF set_version, Good, ConnectionType
<1>2. s \in ConnectionType
  BY <1>1, FramesAre, SendType
<1>3. d \in ConnectionType
  BY <1>2 DEF Disconnected_sabm, clear_exception_conditions, ConnectionType, States
<1>4. /\ d.st = "Connected" /\ d.modulus = m /\ d.n2 = Version2N2
      /\ d.vs = 0 /\ d.va = 0 /\ d.vr = 0 /\ d.rc = c.rc /\ d.t1 = c.t1
      /\ d.iframe_queue = c.iframe_queue /\ ~d.aborted
      /\ d.iframe_resend_queue = c.iframe_resend_queue
  BY DEF Disconnected_sabm, clear_exception_conditions, set_version, send,
         Good, ConnectionType
<1>5. d.rc <= d.n2
  BY <1>4 DEF Good, ConnectionType
<1>6. TailOf(d, 0)
  BY <1>4 DEF TailOf, Fresh
<1>7. ~d.t1
  BY <1>4 DEF Fresh
<1> HIDE DEF d
<1>8. Ready(d)
  BY <1>3, <1>4, <1>5, <1>6, <1>7, LinkUpReady
<1>9. Handled(c, d)
  BY <1>4, <1>8 DEF Handled
<1> QED
  BY <1>9 DEF d

\* Connected::sabm: the link is set up anew under its application.
LEMMA ConnectedSabmHandled ==
    ASSUME NEW c, Good(c), NEW pf \in BOOLEAN, c.st = "Connected"
    PROVE  Handled(c, Connected_sabm(c, pf))
<1> DEFINE s == send(c, Ua(pf))
           q == IF c.vs # c.va THEN <<>> ELSE c.iframe_queue
           r == IF c.vs # c.va THEN <<>> ELSE c.iframe_resend_queue
           d == [s EXCEPT !.reject_exception = FALSE, !.acknowledge_pending = FALSE,
                          !.iframe_queue = q, !.iframe_resend_queue = r,
                          !.t1 = FALSE, !.t3 = TRUE, !.vs = 0, !.va = 0, !.vr = 0]
<1>1. s \in ConnectionType
  BY FramesAre, SendType DEF Good
<1>2. s.iframe_queue = c.iframe_queue /\ s.vs = c.vs /\ s.va = c.va
      /\ s.iframe_resend_queue = c.iframe_resend_queue
      /\ s.modulus = c.modulus /\ s.rc = c.rc /\ s.n2 = c.n2 /\ s.st = c.st
      /\ ~s.aborted
  BY DEF send, Good, ConnectionType
<1>3. Connected_sabm(c, pf) = d
  <2> HIDE DEF s
  <2> QED
    BY <1>1, <1>2, ZenonT(40) DEF Connected_sabm, clear_exception_conditions, clear_iframe_queue,
                      ConnectionType, s
<1>4. q \in Seq(Payload) /\ r \in Seq(Payload)
  BY DEF Good, ConnectionType
<1> HIDE DEF s
<1>5. q = SubSeq(r, 1, Len(r)) /\ 0 <= Len(r)
  <2>1. CASE c.vs # c.va
    BY <2>1
  <2>2. CASE c.vs = c.va
    <3>1. Outstanding(c) = 0 /\ TailOf(c, Outstanding(c))
      BY <2>2, ZeroOutstanding DEF Good, Stored, Window, Versioned, can_receive_data, ReceivingStates
    <3> QED
      BY <2>2, <3>1, <1>4 DEF TailOf
  <2> QED
    BY <2>1, <2>2
<1> HIDE DEF q, r
<1>6. d \in ConnectionType
  BY <1>1, <1>4 DEF ConnectionType
<1>7. /\ d.st = "Connected" /\ d.modulus = c.modulus /\ d.rc = c.rc /\ d.n2 = c.n2
      /\ d.vs = 0 /\ d.va = 0 /\ d.vr = 0 /\ ~d.t1 /\ ~d.aborted
      /\ d.iframe_queue = q /\ d.iframe_resend_queue = r
  BY <1>1, <1>2 DEF ConnectionType
<1> HIDE DEF d
<1>8. Ready(d)
  BY <1>5, <1>6, <1>7, LinkUpReady DEF TailOf, Good, Versioned
<1>9. Handled(c, d)
  BY <1>8 DEF Handled
<1> QED
  BY <1>3, <1>9

\* clear_iframe_queue empties both queues.
LEMMA ClearType ==
    ASSUME NEW c \in ConnectionType
    PROVE  LET d == clear_iframe_queue(c)
           IN  /\ d \in ConnectionType
               /\ d = [c EXCEPT !.iframe_queue = <<>>, !.iframe_resend_queue = <<>>]
<1>1. <<>> \in Seq(Payload)
  OBVIOUS
<1> QED
  BY <1>1 DEF clear_iframe_queue, ConnectionType

\* ua, in every state.
LEMMA UaHandled ==
    ASSUME NEW c, Good(c), NEW pf \in BOOLEAN
    PROVE  Handled(c, dispatch_ua(c, pf))
<1>1. CASE c.st = "AwaitingConnection" /\ pf
  <2> DEFINE b == ~c.layer3_initiated /\ c.vs # c.va
             q == IF b THEN <<>> ELSE c.iframe_queue
             r == IF b THEN <<>> ELSE c.iframe_resend_queue
             d == [c EXCEPT !.iframe_queue = q, !.iframe_resend_queue = r,
                            !.t1 = FALSE, !.t3 = FALSE,
                            !.vs = 0, !.va = 0, !.vr = 0, !.st = "Connected"]
  <2>1. dispatch_ua(c, pf) = d
    <3>1. dispatch_ua(c, pf) = AwaitingConnection_ua(c, pf)
      BY <1>1 DEF dispatch_ua, ReceivingStates
    <3>2. CASE b
      BY <1>1, <3>1, <3>2 DEF AwaitingConnection_ua, clear_iframe_queue,
                              Good, ConnectionType
    <3>3. CASE ~b
      <4>1. q = c.iframe_queue /\ r = c.iframe_resend_queue
        BY <3>3
      <4>2. AwaitingConnection_ua(c, pf) =
               [c EXCEPT !.t1 = FALSE, !.t3 = FALSE,
                         !.vs = 0, !.va = 0, !.vr = 0, !.st = "Connected"]
        BY <1>1, <3>3 DEF AwaitingConnection_ua
      <4> HIDE DEF q, r, b
      <4>3. d = [c EXCEPT !.t1 = FALSE, !.t3 = FALSE,
                         !.vs = 0, !.va = 0, !.vr = 0, !.st = "Connected"]
        BY <4>1 DEF Good, ConnectionType
      <4> QED
        BY <3>1, <4>2, <4>3
    <3> QED
      BY <3>2, <3>3
  <2>2. q \in Seq(Payload) /\ r \in Seq(Payload)
    BY DEF Good, ConnectionType
  <2>3. q = SubSeq(r, 1, Len(r)) /\ 0 <= Len(r)
    <3>1. CASE b
      BY <3>1
    <3>2. CASE ~b
      BY <1>1, <3>2, <2>2 DEF Good, Stored, TailOf
    <3> QED
      BY <3>1, <3>2
  <2> HIDE DEF q, r
  <2>4. d \in ConnectionType
    BY <2>2 DEF Good, ConnectionType, States
  <2>5. /\ d.st = "Connected" /\ d.modulus = c.modulus /\ d.rc = c.rc /\ d.n2 = c.n2
        /\ d.vs = 0 /\ d.va = 0 /\ d.vr = 0 /\ ~d.t1 /\ ~d.aborted
        /\ d.iframe_queue = q /\ d.iframe_resend_queue = r
    BY DEF Good, ConnectionType
  <2> HIDE DEF d
  <2>6. Ready(d)
    BY <1>1, <2>3, <2>4, <2>5, LinkUpReady DEF TailOf, Good, Versioned
  <2> QED
    BY <1>1, <2>1, <2>6 DEF Handled
<1>2. CASE c.st = "AwaitingConnection" /\ ~pf
  <2>1. dispatch_ua(c, pf) = AwaitingConnection_ua(c, pf)
    BY <1>2 DEF dispatch_ua, ReceivingStates
  <2>2. AwaitingConnection_ua(c, pf) = c
    BY <1>2 DEF AwaitingConnection_ua
  <2> QED
    BY <1>2, <2>1, <2>2, GoodReady DEF Handled
<1>3. CASE c.st \in ReceivingStates
  <2>1. dispatch_ua(c, pf) = reestablish(c, FALSE)
    BY <1>3 DEF dispatch_ua, ReceivingStates
  <2>2. Ready(reestablish(c, FALSE))
    BY <1>3, RecoveryReady DEF Good, can_receive_data
  <2> QED
    BY <1>3, <2>1, <2>2 DEF Handled, ReceivingStates
<1>4. CASE c.st # "AwaitingConnection" /\ c.st \notin ReceivingStates
  BY <1>4, GoodReady DEF dispatch_ua, Handled
<1> QED
  BY <1>1, <1>2, <1>3, <1>4

\* ui, in every state.
LEMMA UiHandled ==
    ASSUME NEW c, Good(c), NEW pf \in BOOLEAN
    PROVE  Handled(c, dispatch_ui(c, pf))
<1>1. Handled(c, c)
  BY GoodReady DEF Handled
<1>2. Handled(c, Disconnected_ui(c, pf))
  <2>1. Ready(send(c, Dm(TRUE)))
    BY FramesAre, GoodReady, SendReady
  <2>2. Fresh(c) => Fresh(send(c, Dm(TRUE)))
    BY DEF Fresh, send, Good, ConnectionType
  <2> QED
    BY <1>1, <2>1, <2>2 DEF Handled, Disconnected_ui
<1>3. CASE c.st = "Connected"
  BY <1>1, <1>3, GoodReady, EnquiryReady DEF Handled, Connected_ui, dispatch_ui
<1> QED
  BY <1>1, <1>2, <1>3 DEF dispatch_ui

\* dm, in every state.
LEMMA DmHandled ==
    ASSUME NEW c, Good(c)
    PROVE  Handled(c, dispatch_dm(c))
<1>1. CASE c.st \in ReceivingStates
  <2> DEFINE d == ConnectedTimerRecovery_dm(c)
  <2> DEFINE q == clear_iframe_queue(c)
  <2>0. q \in ConnectionType
    BY ClearType DEF Good
  <2>1. /\ d \in ConnectionType /\ d.st = "Disconnected"
        /\ ~d.aborted /\ d.rc <= d.n2 /\ ~d.t1
    <3>1. d \in ConnectionType
      <4> HIDE DEF q
      <4> QED
        BY <2>0 DEF ConnectedTimerRecovery_dm, ConnectionType, States, q
    <3>2. d.st = "Disconnected" /\ ~d.aborted /\ d.rc <= d.n2 /\ ~d.t1
      BY DEF ConnectedTimerRecovery_dm, clear_iframe_queue, Good, ConnectionType
    <3> QED
      BY <3>1, <3>2
  <2> HIDE DEF d
  <2>2. Ready(d)
    BY <2>1, LinkDownReady DEF Versioned
  <2> QED
    BY <1>1, <2>2 DEF Handled, dispatch_dm, ReceivingStates, d
<1>2. CASE c.st \notin ReceivingStates
  BY <1>2, GoodReady DEF Handled, dispatch_dm
<1> QED
  BY <1>1, <1>2

\* disc, in every state.
LEMMA DiscHandled ==
    ASSUME NEW c, Good(c), NEW pf \in BOOLEAN
    PROVE  Handled(c, dispatch_disc(c, pf))
<1>1. CASE c.st = "Disconnected"
  <2>1. Ready(send(c, Dm(pf)))
    BY FramesAre, GoodReady, SendReady
  <2>2. Fresh(c) => Fresh(send(c, Dm(pf)))
    BY DEF Fresh, send, Good, ConnectionType
  <2> QED
    <3>1. dispatch_disc(c, pf) = send(c, Dm(pf))
      BY <1>1 DEF dispatch_disc, Disconnected_disc, ReceivingStates
    <3> QED
      BY <3>1, <2>1, <2>2 DEF Handled
<1>2. CASE c.st \in ReceivingStates
  <2> DEFINE q == clear_iframe_queue(c)
             s == send(q, Ua(pf))
             d == ConnectedTimerRecovery_disc(c, pf)
  <2>1. q \in ConnectionType
    BY ClearType DEF Good
  <2>2. s \in ConnectionType
    BY <2>1, FramesAre, SendType
  <2>3. d \in ConnectionType
    BY <2>2 DEF ConnectedTimerRecovery_disc, ConnectionType, States
  <2>4. d.st = "Disconnected" /\ ~d.aborted /\ d.rc <= d.n2 /\ ~d.t1
    BY DEF ConnectedTimerRecovery_disc, clear_iframe_queue, send, Good, ConnectionType
  <2> HIDE DEF d
  <2>5. Ready(d)
    BY <2>3, <2>4, LinkDownReady DEF Versioned
  <2> QED
    BY <1>2, <2>5 DEF Handled, dispatch_disc, ReceivingStates, d
<1>3. CASE c.st # "Disconnected" /\ c.st \notin ReceivingStates
  BY <1>3, GoodReady DEF Handled, dispatch_disc
<1> QED
  BY <1>1, <1>2, <1>3

\* dl_connect, in every state.
LEMMA DlConnectHandled ==
    ASSUME NEW c, Good(c), c.st = "Disconnected" => Fresh(c)
    PROVE  Handled(c, dispatch_dl_connect(c))
<1>1. CASE c.st = "Disconnected"
  <2> DEFINE d == [c EXCEPT !.modulus = Modulus]
  <2>1. d \in ConnectionType /\ d.modulus = Modulus /\ ~d.aborted
    BY DEF Good, ConnectionType
  <2>2. TailOf(d, 0)
    BY <1>1 DEF TailOf, Fresh, Good, ConnectionType
  <2> HIDE DEF d
  <2>3. Ready(reestablish(d, TRUE))
    BY <2>1, <2>2, ReestablishReady
  <2>4. reestablish(d, TRUE).st = "AwaitingConnection"
    BY <2>1 DEF reestablish, establish_data_link, send, clear_exception_conditions,
                ConnectionType
  <2> QED
    BY <1>1, <2>3, <2>4 DEF Handled, dispatch_dl_connect, Disconnected_dl_connect, d
<1>2. CASE c.st = "Connected"
  <2> DEFINE d == clear_iframe_queue(c)
  <2>1. d \in ConnectionType /\ d.modulus = c.modulus /\ ~d.aborted /\ TailOf(d, 0)
    <3>1. d \in ConnectionType
      BY ClearType DEF Good
    <3>2. d.modulus = c.modulus /\ ~d.aborted /\ TailOf(d, 0)
      BY DEF clear_iframe_queue, Good, ConnectionType, TailOf
    <3> QED
      BY <3>1, <3>2
  <2> HIDE DEF d
  <2>2. Ready(reestablish(d, TRUE))
    BY <1>2, <2>1, ReestablishReady DEF Good, Versioned
  <2> QED
    BY <1>2, <2>2 DEF Handled, dispatch_dl_connect, Connected_dl_connect, d
<1>3. CASE c.st \notin {"Disconnected", "Connected"}
  BY <1>3, GoodReady DEF Handled, dispatch_dl_connect
<1> QED
  BY <1>1, <1>2, <1>3

\* dl_data, in every state: one frame more at the end of both queues.
LEMMA DlDataHandled ==
    ASSUME NEW c, Good(c), NEW p \in Payload
    PROVE  Handled(c, dispatch_dl_data(c, p))
<1>1. CASE c.st \in ReceivingStates
  <2> DEFINE q == c.iframe_queue
             s == c.iframe_resend_queue
             d == ConnectedTimerRecovery_dl_data(c, p)
  <2>1. q \in Seq(Payload) /\ s \in Seq(Payload)
    BY DEF Good, ConnectionType
  <2>2. Append(q, p) \in Seq(Payload) /\ Append(s, p) \in Seq(Payload)
        /\ Len(Append(s, p)) = Len(s) + 1
    BY <2>1, AppendProperties
  <2>3. d = [c EXCEPT !.iframe_resend_queue = Append(s, p),
                      !.iframe_queue = Append(q, p)]
    BY DEF ConnectedTimerRecovery_dl_data, Good, ConnectionType
  <2> HIDE DEF d
  <2>4. d \in ConnectionType
    BY <2>2, <2>3 DEF Good, ConnectionType
  <2>5. Outstanding(d) = Outstanding(c)
    BY <2>3 DEF Outstanding, ahead, Good, ConnectionType
  <2>6. Outstanding(c) \in Nat
    <3>1. c.modulus \in Nat \ {0} /\ c.vs - c.va \in Int
      BY <1>1, SMTT(30) DEF Good, ConnectionType, Versioned, ReceivingStates
    <3>2. (c.vs - c.va) % c.modulus \in 0 .. c.modulus - 1
      BY <3>1, ModIn
    <3> QED
      BY <3>1, <3>2 DEF Outstanding, ahead
  <2>7. TailOf(d, Outstanding(d))
    <3> DEFINE o == Outstanding(c)
    <3>1. o <= Len(s) /\ q = SubSeq(s, o + 1, Len(s)) /\ Len(s) \in Nat
      BY <1>1, <2>1 DEF Good, Stored, can_receive_data, TailOf
    <3> HIDE DEF o
    <3>2. SubSeq(Append(s, p), o + 1, Len(s) + 1) = Append(q, p)
      <4> HIDE DEF q, s
      <4>1. o \in Nat
        BY <2>6 DEF o
      <4>2. s \in Seq(Payload) /\ o <= Len(s)
        BY <2>1, <3>1
      <4>3. SubSeq(Append(s, p), o + 1, Len(s) + 1) =
               Append(SubSeq(s, o + 1, Len(s)), p)
        BY <4>1, <4>2, DropAppend, ZenonT(40)
      <4> QED
        BY <3>1, <4>3
    <3>3. d.iframe_resend_queue = Append(s, p) /\ d.iframe_queue = Append(q, p)
      BY <2>3 DEF Good, ConnectionType
    <3>4. o <= Len(s) + 1
      BY <2>6, <3>1 DEF o
    <3> QED
      BY <2>2, <2>5, <3>2, <3>3, <3>4 DEF TailOf, o
  <2>8. /\ d.st = c.st /\ d.modulus = c.modulus /\ d.vs = c.vs /\ d.va = c.va
        /\ d.vr = c.vr /\ d.t1 = c.t1 /\ d.t3 = c.t3 /\ d.rc = c.rc /\ d.n2 = c.n2
        /\ ~d.aborted
    BY <2>3 DEF Good, ConnectionType
  <2>9. Stored(d) /\ Window(d) /\ Versioned(d)
    BY <1>1, <2>5, <2>7, <2>8 DEF Stored, Window, Versioned, Good, can_receive_data, ReceivingStates
  <2>10. (AwaitsPeer(d) => d.t1) /\ ~(d.t1 /\ d.t3)
    BY <2>8 DEF AwaitsPeer, Good, Timed
  <2>11. d.rc <= d.n2
    BY <2>8 DEF Good
  <2>12. Ready(d)
    BY <2>4, <2>8, <2>9, <2>10, <2>11 DEF Ready
  <2> QED
    BY <1>1, <2>12 DEF Handled, dispatch_dl_data, ReceivingStates, d
<1>2. CASE c.st \notin ReceivingStates
  BY <1>2, GoodReady DEF Handled, dispatch_dl_data
<1> QED
  BY <1>1, <1>2

\* dl_disconnect, in every state.
LEMMA DlDisconnectHandled ==
    ASSUME NEW c, Good(c)
    PROVE  Handled(c, dispatch_dl_disconnect(c))
<1>1. CASE c.st \in ReceivingStates
  <2> DEFINE q == clear_iframe_queue(c)
             s == send(q, Disc(TRUE))
             d == ConnectedTimerRecovery_dl_disconnect(c)
  <2>1. q \in ConnectionType
    BY ClearType DEF Good
  <2>2. s \in ConnectionType
    BY <2>1, FramesAre, SendType
  <2>3. d \in ConnectionType
    BY <2>2 DEF ConnectedTimerRecovery_dl_disconnect, ConnectionType, States
  <2>4. d.st = "AwaitingRelease" /\ ~d.aborted /\ d.rc = 0 /\ ~d.t3
        /\ d.modulus = c.modulus
    BY DEF ConnectedTimerRecovery_dl_disconnect, clear_iframe_queue, send,
           Good, ConnectionType
  <2>5. d.rc <= d.n2
    BY <2>3, <2>4 DEF ConnectionType
  <2> HIDE DEF d
  <2>6. Ready(d)
    BY <1>1, <2>3, <2>4, <2>5, LinkDownReady DEF Versioned, Good, ReceivingStates
  <2> QED
    BY <1>1, <2>6 DEF Handled, dispatch_dl_disconnect, ReceivingStates, d
<1>2. CASE c.st \notin ReceivingStates
  BY <1>2, GoodReady DEF Handled, dispatch_dl_disconnect
<1> QED
  BY <1>1, <1>2

\* What two connections agree on when no handler touched the link itself.
SameLink(c, d) ==
    /\ d.st = c.st /\ d.modulus = c.modulus /\ d.layer3_initiated = c.layer3_initiated
    /\ d.n2 = c.n2 /\ d.rc = c.rc /\ d.vs = c.vs /\ d.va = c.va
    /\ d.t1 = c.t1 /\ d.t3 = c.t3 /\ d.aborted = c.aborted
    /\ d.iframe_queue = c.iframe_queue
    /\ d.iframe_resend_queue = c.iframe_resend_queue

\* The invariant depends on the link's own fields and on V(R).
LEMMA SameLinkGood ==
    ASSUME NEW c, NEW d \in ConnectionType, Good(c), SameLink(c, d),
           can_receive_data(c) => d.vr \in 0 .. c.modulus - 1
    PROVE  Good(d)
<1>1. Outstanding(d) = Outstanding(c)
  BY DEF Outstanding, ahead, SameLink
<1>2. Versioned(d) /\ Window(d)
  BY <1>1 DEF Versioned, Window, can_receive_data, Good, SameLink
<1>3. Stored(d)
  BY <1>1 DEF Stored, TailOf, can_receive_data, Good, SameLink
<1>4. Timed(d)
  BY DEF Timed, AwaitsPeer, Good, SameLink
<1>5. d.rc <= d.n2 /\ ~d.aborted
  BY DEF Good, SameLink
<1> QED
  BY <1>2, <1>3, <1>4, <1>5 DEF Good

\* enquiry_response leaves the link as it was.
LEMMA EnquiryGood ==
    ASSUME NEW c, Good(c), NEW f \in BOOLEAN
    PROVE  Good(enquiry_response(c, f)) /\ SameLink(c, enquiry_response(c, f))
<1> DEFINE d == enquiry_response(c, f)
<1>1. d \in ConnectionType
  BY GoodReady, EnquiryReady DEF Ready
<1>2. SameLink(c, d) /\ d.vr = c.vr
  BY DEF enquiry_response, send, SameLink, Good, ConnectionType
<1> HIDE DEF d
<1>3. Good(d)
  BY <1>1, <1>2, SameLinkGood DEF Good, Window
<1> QED
  BY <1>2, <1>3 DEF d

\* check_need_for_response leaves the link as it was.
LEMMA ResponseGood ==
    ASSUME NEW c, Good(c), NEW command \in BOOLEAN, NEW pf \in BOOLEAN
    PROVE  /\ Good(check_need_for_response(c, command, pf))
           /\ SameLink(c, check_need_for_response(c, command, pf))
<1>1. SameLink(c, c)
  BY DEF SameLink
<1> QED
  BY <1>1, EnquiryGood DEF check_need_for_response

\* An acknowledgement that covers something acknowledges an outstanding frame.
LEMMA AckCovers ==
    ASSUME NEW c, Good(c), can_receive_data(c), NEW nr, in_range(c, nr), nr # c.va
    PROVE  c.vs # c.va
<1>1. /\ c.modulus \in Nat \ {0} /\ nr \in 0 .. c.modulus - 1
      /\ c.vs \in 0 .. c.modulus - 1 /\ c.va \in 0 .. c.modulus - 1
  BY DEF Good, Window, Versioned, can_receive_data, ReceivingStates, in_range
<1>2. SUFFICES ASSUME c.vs = c.va PROVE FALSE
  OBVIOUS
<1>3. ahead(c, c.va, nr) <= 0
  BY <1>1, <1>2, ModDiff DEF in_range, Outstanding, ahead
<1> QED
  BY <1>1, <1>3, ModDiff DEF ahead

\* update_ack on a connection between two handlers.
LEMMA AckGood ==
    ASSUME NEW c, Good(c), can_receive_data(c), NEW nr, in_range(c, nr)
    PROVE  LET d == update_ack(c, nr)
           IN  /\ d \in ConnectionType /\ Window(d) /\ Stored(d) /\ Versioned(d)
               /\ d.va = nr /\ d.vs = c.vs /\ d.vr = c.vr /\ d.st = c.st
               /\ d.modulus = c.modulus /\ d.rc = c.rc /\ d.n2 = c.n2
               /\ d.t1 = c.t1 /\ d.t3 = c.t3 /\ ~d.aborted
<1> DEFINE d == update_ack(c, nr)
<1>1. /\ d \in ConnectionType
      /\ d = [c EXCEPT !.va = nr, !.iframe_resend_queue = d.iframe_resend_queue]
      /\ Window(d) /\ Stored(d) /\ Versioned(d)
  BY AckKeeps DEF Good
<1> HIDE DEF d
<1>2. /\ d.va = nr /\ d.vs = c.vs /\ d.vr = c.vr /\ d.st = c.st
      /\ d.modulus = c.modulus /\ d.rc = c.rc /\ d.n2 = c.n2
      /\ d.t1 = c.t1 /\ d.t3 = c.t3 /\ ~d.aborted
  BY <1>1 DEF Good, ConnectionType
<1> QED
  BY <1>1, <1>2 DEF d

\* The two timers of a link do not take part in its window and its queues.
LEMMA TimersApart ==
    ASSUME NEW c \in ConnectionType, NEW x \in BOOLEAN, NEW y \in BOOLEAN
    PROVE  LET d == [c EXCEPT !.t1 = x, !.t3 = y]
           IN  /\ d \in ConnectionType
               /\ Window(c) => Window(d)
               /\ Stored(c) => Stored(d)
               /\ Versioned(c) => Versioned(d)
               /\ d.va = c.va /\ d.vs = c.vs /\ d.vr = c.vr /\ d.st = c.st
               /\ d.modulus = c.modulus /\ d.rc = c.rc /\ d.n2 = c.n2
               /\ d.aborted = c.aborted /\ d.t1 = x /\ d.t3 = y
  BY DEF ConnectionType, Window, Stored, Versioned, can_receive_data, Outstanding, ahead, TailOf

\* check_iframe_acked: T1 is stopped only when nothing is outstanding.
LEMMA AckedGood ==
    ASSUME NEW c, Good(c), c.st = "Connected", NEW nr, in_range(c, nr)
    PROVE  /\ Good(check_iframe_acked(c, nr))
           /\ check_iframe_acked(c, nr).st = c.st
           /\ check_iframe_acked(c, nr).vr = c.vr
           /\ check_iframe_acked(c, nr).modulus = c.modulus
<1> DEFINE a == update_ack(c, nr)
<1>1. can_receive_data(c)
  BY DEF can_receive_data, ReceivingStates
<1>2. /\ a \in ConnectionType /\ Window(a) /\ Stored(a) /\ Versioned(a)
      /\ a.va = nr /\ a.vs = c.vs /\ a.vr = c.vr /\ a.st = c.st
      /\ a.modulus = c.modulus /\ a.rc = c.rc /\ a.n2 = c.n2
      /\ a.t1 = c.t1 /\ a.t3 = c.t3 /\ ~a.aborted
  BY <1>1, AckGood
<1>3. CASE nr = c.vs
  <2> DEFINE d == [a EXCEPT !.t1 = FALSE, !.t3 = TRUE]
  <2>1. check_iframe_acked(c, nr) = d
    BY <1>3 DEF check_iframe_acked
  <2> HIDE DEF a
  <2>2. /\ d \in ConnectionType /\ Window(d) /\ Stored(d) /\ Versioned(d)
        /\ d.va = c.vs /\ d.vs = c.vs /\ d.vr = c.vr /\ d.st = c.st
        /\ d.modulus = c.modulus /\ d.rc = c.rc /\ d.n2 = c.n2
        /\ ~d.aborted /\ ~d.t1
    BY <1>2, <1>3, TimersApart
  <2> HIDE DEF d
  <2>3. Good(d)
    BY <2>2 DEF Good, Timed, AwaitsPeer
  <2> QED
    BY <2>1, <2>2, <2>3
<1>4. CASE nr # c.vs /\ nr # c.va
  <2> DEFINE d == [a EXCEPT !.t1 = TRUE]
  <2>1. check_iframe_acked(c, nr) = d
    BY <1>4 DEF check_iframe_acked
  <2>2. c.t1 /\ ~c.t3
    BY <1>1, <1>4, AckCovers DEF Good, Timed, AwaitsPeer
  <2> HIDE DEF a
  <2>3. d = [a EXCEPT !.t1 = TRUE, !.t3 = FALSE]
    BY <1>2, <2>2 DEF ConnectionType
  <2>4. /\ d \in ConnectionType /\ Window(d) /\ Stored(d) /\ Versioned(d)
        /\ d.vr = c.vr /\ d.st = c.st
        /\ d.modulus = c.modulus /\ d.rc = c.rc /\ d.n2 = c.n2
        /\ ~d.aborted /\ d.t1 /\ ~d.t3
    <3> HIDE DEF d
    <3> QED
      BY <1>2, <2>3, TimersApart
  <2> HIDE DEF d
  <2>5. Good(d)
    BY <2>4 DEF Good, Timed
  <2> QED
    BY <2>1, <2>4, <2>5
<1>5. CASE nr # c.vs /\ nr = c.va
  BY <1>5 DEF check_iframe_acked
<1> QED
  BY <1>3, <1>4, <1>5

\* rr, in every state; in TimerRecovery it may retransmit.
LEMMA RrHandled ==
    ASSUME NEW c, Good(c), NEW f, f.poll \in BOOLEAN,
           f.command_response \in BOOLEAN
    PROVE  Handled(c, dispatch_rr(c, f))
<1> DEFINE b == check_need_for_response(c, f.command_response, f.poll)
<1>1. Good(b) /\ SameLink(c, b)
  BY ResponseGood
<1>2. in_range(b, f.nr) <=> in_range(c, f.nr)
  BY <1>1 DEF in_range, ahead, Outstanding, SameLink
<1>3. CASE c.st = "Connected"
  <2> HIDE DEF b
  <2>1. b.st = "Connected"
    BY <1>1, <1>3 DEF SameLink
  <2>2. in_range(b, f.nr) => Ready(check_iframe_acked(b, f.nr))
    BY <1>1, <2>1, AckedGood, GoodReady
  <2>3. Ready(reestablish(b, FALSE))
    BY <1>1, <2>1, RecoveryReady DEF Good, can_receive_data, ReceivingStates
  <2>4. Ready(Connected_rr(c, f))
    BY <2>2, <2>3 DEF Connected_rr, b
  <2> QED
    BY <1>3, <2>4 DEF Handled, dispatch_rr
<1>4. CASE c.st = "TimerRecovery" /\ ~(f.poll /\ ~f.command_response)
  <2> HIDE DEF b
  <2>1. b.st = "TimerRecovery" /\ can_receive_data(b) /\ b.t1 /\ ~b.t3
    BY <1>1, <1>4 DEF SameLink, can_receive_data, ReceivingStates, Good, Timed, AwaitsPeer
  <2>2. ASSUME in_range(b, f.nr) PROVE Ready(update_ack(b, f.nr))
    <3> DEFINE d == update_ack(b, f.nr)
    <3>1. /\ d \in ConnectionType /\ Window(d) /\ Stored(d) /\ Versioned(d)
          /\ d.rc = b.rc /\ d.n2 = b.n2 /\ d.t1 = b.t1 /\ d.t3 = b.t3 /\ ~d.aborted
      BY <1>1, <2>1, <2>2, AckGood
    <3> HIDE DEF d
    <3>2. d.t1 /\ ~d.t3 /\ d.rc <= d.n2
      BY <1>1, <2>1, <3>1 DEF Good
    <3>3. Ready(d)
      BY <3>1, <3>2 DEF Ready
    <3> QED
      BY <3>3 DEF d
  <2>3. Ready(reestablish(b, FALSE))
    BY <1>1, <2>1, RecoveryReady DEF Good
  <2>4. Ready(TimerRecovery_rr(c, f))
    BY <1>4, <2>2, <2>3 DEF TimerRecovery_rr, b
  <2> QED
    BY <1>4, <2>4 DEF Handled, dispatch_rr
<1>5. CASE c.st = "TimerRecovery" /\ f.poll /\ ~f.command_response
  <2> DEFINE d == [c EXCEPT !.t1 = FALSE]
             e == update_ack(d, f.nr)
  <2>1. ~c.t3 /\ can_receive_data(c) /\ c \in ConnectionType
    BY <1>5 DEF Good, Timed, AwaitsPeer, can_receive_data, ReceivingStates
  <2>2. d = [c EXCEPT !.t1 = FALSE, !.t3 = FALSE]
    BY <2>1 DEF ConnectionType
  <2>3. /\ d \in ConnectionType /\ Window(d) /\ Stored(d) /\ Versioned(d)
        /\ d.st = c.st /\ ~d.aborted /\ ~d.t1 /\ ~d.t3 /\ d.rc <= d.n2
    <3> HIDE DEF d
    <3>1. d.aborted = c.aborted /\ d.t1 = FALSE /\ d.t3 = FALSE
          /\ d.rc = c.rc /\ d.n2 = c.n2
      BY <2>1, <2>2, TimersApart
    <3>2. d \in ConnectionType /\ Window(d) /\ Stored(d) /\ Versioned(d) /\ d.st = c.st
      BY <2>1, <2>2, TimersApart DEF Good
    <3> QED
      BY <3>1, <3>2 DEF Good
  <2>4. can_receive_data(d)
    BY <2>1, <2>3 DEF can_receive_data
  <2>5. Ready(reestablish(d, FALSE))
    <3> HIDE DEF d
    <3> QED
      BY <2>3, <2>4, RecoveryReady
  <2>6. ASSUME in_range(d, f.nr)
        PROVE  Ready(IF e.vs # e.va THEN invoke_retransmission(e, f.nr)
                     ELSE [e EXCEPT !.t3 = TRUE, !.st = "Connected"])
    <3> HIDE DEF d
    <3>1. /\ e \in ConnectionType /\ Window(e) /\ Stored(e) /\ Versioned(e)
          /\ e = [d EXCEPT !.va = f.nr, !.iframe_resend_queue = e.iframe_resend_queue]
      BY <2>3, <2>4, <2>6, AckKeeps
    <3> HIDE DEF e
    <3>2. /\ e.va = f.nr /\ e.st = "TimerRecovery"
          /\ ~e.aborted /\ ~e.t1 /\ ~e.t3 /\ e.rc <= e.n2
      <4> f.nr \in Nat
        BY <2>3, <2>6 DEF in_range, ConnectionType
      <4> QED
        BY <1>5, <2>3, <3>1 DEF ConnectionType
    <3>3. /\ e.modulus \in Nat \ {0} /\ e.vs \in 0 .. e.modulus - 1
          /\ e.va \in 0 .. e.modulus - 1 /\ e.vr \in 0 .. e.modulus - 1
          /\ Outstanding(e) <= K /\ TailOf(e, Outstanding(e))
          /\ e.iframe_resend_queue \in Seq(Payload)
      BY <3>1, <3>2, SMTT(30) DEF Window, Stored, Versioned, can_receive_data, ReceivingStates, ConnectionType
    <3>4. CASE e.vs # e.va
      <4> DEFINE s == e.iframe_resend_queue
                 g == [e EXCEPT !.vs = f.nr, !.iframe_queue = s]
      <4>1. Outstanding(e) > 0 /\ Outstanding(e) <= Len(s) /\ Len(s) \in Nat
        <5>1. Outstanding(e) = IF e.va <= e.vs THEN e.vs - e.va
                                               ELSE e.vs - e.va + e.modulus
          BY <3>3, ModDiff DEF Outstanding, ahead
        <5>2. Outstanding(e) > 0
          BY <3>3, <3>4, <5>1
        <5> QED
          BY <3>3, <5>2 DEF TailOf
      <4>2. invoke_retransmission(e, f.nr) = g
        <5>1. Outstanding(e) = ahead(e, f.nr, e.vs)
          BY <3>2 DEF Outstanding
        <5>2. ~(ahead(e, f.nr, e.vs) > Len(s)) /\ s = e.iframe_resend_queue
          <6>1. Outstanding(e) \in Int
            BY <3>3 DEF Outstanding, ahead
          <6> QED
            BY <4>1, <5>1, <6>1
        <5> HIDE DEF s
        <5> QED
          BY <5>2 DEF invoke_retransmission
      <4>3. g \in ConnectionType
        BY <3>1, <3>2, <3>3 DEF ConnectionType
      <4>4. /\ g.vs = g.va /\ g.va \in 0 .. g.modulus - 1 /\ g.vr \in 0 .. g.modulus - 1
            /\ g.st = "TimerRecovery" /\ g.modulus = e.modulus
            /\ g.iframe_queue = s /\ g.iframe_resend_queue = s
            /\ ~g.aborted /\ ~g.t1 /\ ~g.t3 /\ g.rc <= g.n2
        BY <3>1, <3>2, <3>3 DEF ConnectionType
      <4>5. s # <<>> /\ s = SubSeq(s, 1, Len(s))
        <5>1. s \in Seq(Payload)
          BY <3>3
        <5>2. Len(s) # 0
          <6>1. Outstanding(e) \in Int
            BY <3>3 DEF Outstanding, ahead
          <6> QED
            BY <4>1, <6>1
        <5> HIDE DEF s
        <5> QED
          BY <5>1, <5>2, DropNone
      <4> HIDE DEF g, s
      <4>6. Outstanding(g) = 0
        BY <3>3, <4>3, <4>4, ZeroOutstanding
      <4>7. TailOf(g, 0)
        BY <4>1, <4>4, <4>5 DEF TailOf
      <4>8. Versioned(g) /\ Window(g) /\ Stored(g)
        BY <3>1, <3>2, <4>4, <4>6, <4>7 DEF Versioned, Window, Stored
      <4>9. Ready(g)
        BY <4>3, <4>4, <4>5, <4>8 DEF Ready
      <4> QED
        BY <3>4, <4>2, <4>9
    <3>5. CASE e.vs = e.va
      <4> DEFINE g == [e EXCEPT !.t3 = TRUE, !.st = "Connected"]
      <4>1. g \in ConnectionType
        BY <3>1 DEF ConnectionType, States
      <4>2. /\ g.vs = e.vs /\ g.va = e.va /\ g.vr = e.vr /\ g.st = "Connected"
            /\ g.modulus = e.modulus /\ g.iframe_queue = e.iframe_queue
            /\ g.iframe_resend_queue = e.iframe_resend_queue
            /\ ~g.aborted /\ ~g.t1 /\ g.rc <= g.n2
        BY <3>1, <3>2 DEF ConnectionType
      <4> HIDE DEF g
      <4>3. Outstanding(g) = Outstanding(e)
        BY <4>2 DEF Outstanding, ahead
      <4>4. Versioned(g) /\ Window(g) /\ Stored(g)
        BY <3>1, <3>2, <3>3, <4>2, <4>3 DEF Versioned, Window, Stored, TailOf
      <4>5. Ready(g)
        BY <3>5, <4>1, <4>2, <4>4 DEF Ready, AwaitsPeer
      <4> QED
        BY <3>5, <4>5 DEF g
    <3> QED
      BY <3>4, <3>5
  <2>7. Ready(TimerRecovery_rr(c, f))
    BY <1>5, <2>5, <2>6 DEF TimerRecovery_rr
  <2> QED
    BY <1>5, <2>7 DEF Handled, dispatch_rr
<1>6. CASE c.st \notin ReceivingStates
  BY <1>6, GoodReady DEF Handled, dispatch_rr, ReceivingStates
<1> QED
  BY <1>3, <1>4, <1>5, <1>6 DEF ReceivingStates

\* The receiving half of iframe.
LEMMA ReceiveGood ==
    ASSUME NEW c, Good(c), can_receive_data(c), NEW f, f.poll \in BOOLEAN, f.payload \in Payload
    PROVE  Good(receive_iframe(c, f))
<1>1. c \in ConnectionType /\ c.vr \in 0 .. c.modulus - 1 /\ c.modulus \in Nat \ {0}
  BY DEF Good, Window, Versioned, can_receive_data, ReceivingStates
<1>2. CASE f.ns = c.vr
  <2> DEFINE d == [c EXCEPT !.vr = (@ + 1) % c.modulus, !.up = Append(@, f.payload)]
             e == [d EXCEPT !.acknowledge_pending = TRUE]
  <2>1. (c.vr + 1) % c.modulus \in 0 .. c.modulus - 1
    <3>1. c.vr + 1 \in Int
      BY <1>1
    <3> QED
      BY <1>1, <3>1, ModIn
  <2>2. Append(c.up, f.payload) \in Seq(Payload)
    BY <1>1, AppendProperties DEF ConnectionType
  <2>3. d \in ConnectionType /\ e \in ConnectionType
    <3>1. (c.vr + 1) % c.modulus \in Nat
      BY <1>1, <2>1
    <3>2. d \in ConnectionType
      BY <1>1, <3>1, <2>2 DEF ConnectionType
    <3> HIDE DEF d
    <3> QED
      BY <3>2 DEF ConnectionType
  <2>4. SameLink(c, d) /\ SameLink(c, e)
        /\ d.vr \in 0 .. c.modulus - 1 /\ e.vr \in 0 .. c.modulus - 1
    BY <1>1, <2>1 DEF SameLink, ConnectionType
  <2>5. receive_iframe(c, f) = IF f.poll THEN enquiry_response(d, TRUE) ELSE e
    BY <1>2 DEF receive_iframe
  <2> HIDE DEF d, e
  <2>6. Good(d) /\ Good(e)
    BY <2>3, <2>4, SameLinkGood
  <2> QED
    BY <2>5, <2>6, EnquiryGood
<1>3. CASE f.ns # c.vr /\ c.reject_exception
  BY <1>3, EnquiryGood DEF receive_iframe
<1>4. CASE f.ns # c.vr /\ ~c.reject_exception
  <2> DEFINE s == send(c, Rej(f.poll, c.vr))
             d == [s EXCEPT !.reject_exception = TRUE, !.acknowledge_pending = FALSE]
  <2>1. receive_iframe(c, f) = d
    BY <1>4 DEF receive_iframe
  <2>2. s \in ConnectionType
    BY <1>1, FramesAre, SendType
  <2>3. SameLink(c, s) /\ s.vr = c.vr
    BY <1>1 DEF send, SameLink, ConnectionType
  <2> HIDE DEF s
  <2>4. d \in ConnectionType /\ SameLink(s, d) /\ d.vr = s.vr
    BY <2>2 DEF SameLink, ConnectionType
  <2> HIDE DEF d
  <2>5. SameLink(c, d) /\ d.vr \in 0 .. c.modulus - 1
    BY <1>1, <2>3, <2>4 DEF SameLink
  <2>6. Good(d)
    BY <2>4, <2>5, SameLinkGood
  <2> QED
    BY <2>1, <2>6
<1> QED
  BY <1>2, <1>3, <1>4

\* The acknowledgement in an I frame, in either state that receives.
LEMMA AckedKeepsUp ==
    ASSUME NEW c, Good(c), can_receive_data(c), NEW f, in_range(c, f.nr)
    PROVE  LET d == IF c.st = "Connected" THEN check_iframe_acked(c, f.nr)
                                          ELSE update_ack(c, f.nr)
           IN  Good(d) /\ can_receive_data(d)
<1> DEFINE d == IF c.st = "Connected" THEN check_iframe_acked(c, f.nr)
                                      ELSE update_ack(c, f.nr)
<1> SUFFICES Good(d) /\ can_receive_data(d)
  OBVIOUS
<1>1. CASE c.st = "Connected"
  BY <1>1, AckedGood DEF can_receive_data, ReceivingStates
<1>2. CASE c.st = "TimerRecovery"
  <2> DEFINE a == update_ack(c, f.nr)
  <2>1. /\ a \in ConnectionType /\ Window(a) /\ Stored(a) /\ Versioned(a)
        /\ a.st = c.st /\ a.rc = c.rc /\ a.n2 = c.n2
        /\ a.t1 = c.t1 /\ a.t3 = c.t3 /\ ~a.aborted
    BY AckGood
  <2>2. c.t1 /\ ~c.t3 /\ c.rc <= c.n2
    BY <1>2 DEF Good, Timed, AwaitsPeer
  <2> HIDE DEF a
  <2>3. Good(a) /\ can_receive_data(a)
    BY <1>2, <2>1, <2>2 DEF Good, Timed, can_receive_data, ReceivingStates
  <2> QED
    BY <1>2, <2>3 DEF a
<1> QED
  BY <1>1, <1>2 DEF can_receive_data, ReceivingStates

\* iframe, in every state.
LEMMA IframeHandled ==
    ASSUME NEW c, Good(c), NEW f, f.poll \in BOOLEAN,
           f.command_response \in BOOLEAN, f.payload \in Payload
    PROVE  Handled(c, dispatch_iframe(c, f))
<1>1. CASE ~can_receive_data(c) \/ ~f.command_response
  BY <1>1, GoodReady DEF Handled, dispatch_iframe, can_receive_data, ConnectedTimerRecovery_iframe
<1>2. CASE can_receive_data(c) /\ f.command_response
  <2>1. CASE f.payload \in Oversized \/ ~in_range(c, f.nr)
    <3>1. Ready(reestablish(c, FALSE))
      BY <1>2, RecoveryReady DEF Good
    <3> QED
      BY <1>2, <2>1, <3>1 DEF Handled, dispatch_iframe, can_receive_data, ReceivingStates,
                              ConnectedTimerRecovery_iframe
  <2>2. CASE f.payload \notin Oversized /\ in_range(c, f.nr)
    <3> DEFINE d == IF c.st = "Connected" THEN check_iframe_acked(c, f.nr)
                                          ELSE update_ack(c, f.nr)
    <3>1. Good(d) /\ can_receive_data(d)
      BY <1>2, <2>2, AckedKeepsUp
    <3> HIDE DEF d
    <3>2. Ready(receive_iframe(d, f))
      BY <3>1, ReceiveGood, GoodReady
    <3>3. dispatch_iframe(c, f) = receive_iframe(d, f)
      BY <1>2, <2>2 DEF dispatch_iframe, can_receive_data, ConnectedTimerRecovery_iframe, d
    <3> QED
      BY <1>2, <3>2, <3>3 DEF Handled, can_receive_data, ReceivingStates
  <2> QED
    BY <2>1, <2>2
<1> QED
  BY <1>1, <1>2

\* transmit_enquiry sends and starts T1.
LEMMA EnquirySent ==
    ASSUME NEW c \in ConnectionType
    PROVE  LET d == transmit_enquiry(c)
           IN  /\ d \in ConnectionType
               /\ d = [c EXCEPT !.out = d.out, !.acknowledge_pending = FALSE, !.t1 = TRUE]
<1> DEFINE s == send(c, Rr(TRUE, c.vr, TRUE))
           d == transmit_enquiry(c)
<1>1. s \in ConnectionType
  BY FramesAre, SendType DEF ConnectionType
<1>2. d \in ConnectionType
  <2> HIDE DEF s
  <2> QED
    BY <1>1 DEF transmit_enquiry, ConnectionType, s
<1>3. d = [c EXCEPT !.out = d.out, !.acknowledge_pending = FALSE, !.t1 = TRUE]
  BY DEF transmit_enquiry, send, ConnectionType
<1> QED
  BY <1>2, <1>3

\* T1 expires, in every state: rc never passes n2.
LEMMA Timer1Handled ==
    ASSUME NEW b, Good(b), b.t1
    PROVE  LET c == [b EXCEPT !.t1 = FALSE]
           IN  Handled(c, dispatch_timer1_tick(c))
<1> DEFINE c == [b EXCEPT !.t1 = FALSE]
           d == dispatch_timer1_tick(c)
           e == transmit_enquiry(c)
<1>0. b \in ConnectionType /\ ~b.t3
  BY DEF Good, Timed
<1>1. /\ c \in ConnectionType /\ c.st = b.st /\ c.modulus = b.modulus
      /\ c.vs = b.vs /\ c.va = b.va /\ c.vr = b.vr /\ c.rc = b.rc /\ c.n2 = b.n2
      /\ ~c.t1 /\ ~c.t3 /\ ~c.aborted
      /\ c.layer3_initiated = b.layer3_initiated
      /\ c.iframe_queue = b.iframe_queue
      /\ c.iframe_resend_queue = b.iframe_resend_queue
  BY <1>0 DEF Good, ConnectionType
<1>2. Versioned(c) /\ Window(c) /\ Stored(c) /\ c.rc <= c.n2
  <2> HIDE DEF c
  <2>1. Outstanding(c) = Outstanding(b)
    BY <1>1 DEF Outstanding, ahead
  <2> QED
    BY <1>1, <2>1 DEF Good, Versioned, Window, Stored, TailOf, can_receive_data
<1> HIDE DEF c
<1> SUFFICES Handled(c, d)
  BY DEF c
<1>3. /\ e \in ConnectionType
      /\ e = [c EXCEPT !.out = e.out, !.acknowledge_pending = FALSE, !.t1 = TRUE]
  BY <1>1, EnquirySent
<1>4. c.rc \in Nat /\ c.n2 \in Nat /\ 1 <= c.n2
  BY <1>1 DEF ConnectionType
<1>5. CASE c.st = "AwaitingConnection" /\ c.rc = c.n2
  <2> DEFINE g == [clear_iframe_queue(c) EXCEPT !.st = "Disconnected"]
  <2>1. d = g
    BY <1>5 DEF dispatch_timer1_tick, AwaitingConnection_timer1_tick
  <2>2. g \in ConnectionType /\ g.st = "Disconnected" /\ ~g.aborted /\ g.rc <= g.n2
        /\ ~g.t1
    <3> DEFINE q == clear_iframe_queue(c)
    <3>1. q \in ConnectionType
      BY <1>1, ClearType
    <3>2. ~q.aborted /\ q.rc <= q.n2 /\ ~q.t1
      BY <1>1, <1>2 DEF clear_iframe_queue, ConnectionType
    <3> HIDE DEF q
    <3>3. g = [q EXCEPT !.st = "Disconnected"]
      BY DEF q
    <3> HIDE DEF g
    <3> QED
      BY <3>1, <3>2, <3>3 DEF ConnectionType, States
  <2> HIDE DEF g, d
  <2>3. Ready(g)
    BY <2>2, LinkDownReady DEF Versioned
  <2> QED
    BY <1>5, <2>1, <2>3 DEF Handled, d
<1>6. CASE c.st = "AwaitingConnection" /\ c.rc # c.n2
  <2> DEFINE s == send(c, Sabm(TRUE))
             g == [s EXCEPT !.rc = @ + 1, !.t1 = TRUE]
  <2>1. d = g
    BY <1>6 DEF dispatch_timer1_tick, AwaitingConnection_timer1_tick
  <2>2. s \in ConnectionType
    BY <1>1, FramesAre, SendType
  <2>3. /\ s.st = c.st /\ s.modulus = c.modulus /\ s.layer3_initiated = c.layer3_initiated
        /\ s.vs = c.vs /\ s.va = c.va /\ s.rc = c.rc /\ s.n2 = c.n2
        /\ ~s.t3 /\ ~s.aborted
        /\ s.iframe_queue = c.iframe_queue
        /\ s.iframe_resend_queue = c.iframe_resend_queue
    BY <1>1 DEF send, ConnectionType
  <2> HIDE DEF s
  <2>4. /\ g \in ConnectionType
        /\ g.st = c.st /\ g.modulus = c.modulus /\ g.layer3_initiated = c.layer3_initiated
        /\ g.vs = c.vs /\ g.va = c.va /\ g.rc = c.rc + 1 /\ g.n2 = c.n2
        /\ g.t1 /\ ~g.t3 /\ ~g.aborted
        /\ g.iframe_queue = c.iframe_queue
        /\ g.iframe_resend_queue = c.iframe_resend_queue
    <3>1. s.rc + 1 \in Nat
      BY <2>2 DEF ConnectionType
    <3>2. g \in ConnectionType
      BY <2>2, <3>1 DEF ConnectionType
    <3>3. g.st = s.st /\ g.modulus = s.modulus /\ g.layer3_initiated = s.layer3_initiated
          /\ g.vs = s.vs /\ g.va = s.va /\ g.rc = s.rc + 1 /\ g.n2 = s.n2
          /\ g.t1 /\ g.t3 = s.t3 /\ g.aborted = s.aborted
          /\ g.iframe_queue = s.iframe_queue
          /\ g.iframe_resend_queue = s.iframe_resend_queue
      BY <2>2 DEF ConnectionType
    <3> HIDE DEF g
    <3> QED
      BY <2>3, <3>2, <3>3
  <2> HIDE DEF g, d
  <2>5. g.rc <= g.n2
    BY <1>2, <1>4, <1>6, <2>4
  <2>6. Versioned(g) /\ Window(g) /\ Stored(g)
    BY <1>2, <1>6, <2>4 DEF Versioned, Window, Stored, TailOf, can_receive_data, ReceivingStates
  <2>7. Ready(g)
    BY <2>4, <2>5, <2>6 DEF Ready
  <2> QED
    BY <1>6, <2>1, <2>7 DEF Handled, d
<1>7. CASE c.st = "Connected" \/ (c.st = "TimerRecovery" /\ c.rc # c.n2)
  <2> DEFINE r == IF c.st = "Connected" THEN 1 ELSE c.rc + 1
             g == [e EXCEPT !.rc = r, !.st = "TimerRecovery"]
  <2>0. /\ e.st = c.st /\ e.rc = c.rc /\ e.vs = c.vs /\ e.va = c.va /\ e.vr = c.vr
        /\ e.modulus = c.modulus /\ e.n2 = c.n2 /\ e.t1 /\ ~e.t3 /\ ~e.aborted
        /\ e.iframe_queue = c.iframe_queue
        /\ e.iframe_resend_queue = c.iframe_resend_queue
    <3> HIDE DEF e
    <3> QED
      BY <1>1, <1>3, ZenonT(40) DEF ConnectionType
  <2>1. d = g
    <3>1. CASE c.st = "Connected"
      BY <3>1 DEF dispatch_timer1_tick, Connected_timer1_tick
    <3>2. CASE c.st = "TimerRecovery" /\ c.rc # c.n2
      <4>1. d = [e EXCEPT !.rc = @ + 1]
        BY <3>2 DEF dispatch_timer1_tick, TimerRecovery_timer1_tick
      <4> HIDE DEF d, e
      <4> QED
        BY <1>3, <2>0, <3>2, <4>1, ZenonT(40) DEF ConnectionType
    <3> QED
      BY <1>7, <3>1, <3>2
  <2>2. r \in Nat /\ r <= c.n2
    BY <1>2, <1>4, <1>7
  <2> HIDE DEF e, r, d
  <2>3. /\ g \in ConnectionType
        /\ g.st = "TimerRecovery" /\ g.modulus = c.modulus
        /\ g.vs = c.vs /\ g.va = c.va /\ g.vr = c.vr /\ g.rc = r /\ g.n2 = c.n2
        /\ g.t1 /\ ~g.t3 /\ ~g.aborted
        /\ g.iframe_queue = c.iframe_queue
        /\ g.iframe_resend_queue = c.iframe_resend_queue
    BY <1>3, <2>0, <2>2 DEF ConnectionType, States
  <2> HIDE DEF g
  <2>4. Outstanding(g) = Outstanding(c)
    BY <2>3 DEF Outstanding, ahead
  <2>5. Versioned(g) /\ Window(g) /\ Stored(g)
    BY <1>2, <1>7, <2>3, <2>4 DEF Versioned, Window, Stored, TailOf, can_receive_data, ReceivingStates
  <2>6. Ready(g)
    BY <2>2, <2>3, <2>5 DEF Ready
  <2> QED
    BY <1>7, <2>1, <2>6 DEF Handled, d
<1>8. CASE c.st = "TimerRecovery" /\ c.rc = c.n2
  <2> DEFINE g == [c EXCEPT !.st = "Disconnected"]
  <2>1. d = g
    BY <1>8 DEF dispatch_timer1_tick, TimerRecovery_timer1_tick
  <2>2. g \in ConnectionType /\ g.st = "Disconnected" /\ ~g.aborted /\ g.rc <= g.n2
        /\ ~g.t1
    BY <1>1, <1>2 DEF ConnectionType, States
  <2> HIDE DEF g, d
  <2>3. Ready(g)
    BY <2>2, LinkDownReady DEF Versioned
  <2> QED
    BY <1>8, <2>1, <2>3 DEF Handled, d
<1>9. CASE c.st \in {"Disconnected", "AwaitingRelease"}
  <2>1. d = c
    BY <1>9 DEF dispatch_timer1_tick
  <2>2. Ready(c)
    BY <1>1, <1>2, <1>9, LinkDownReady
  <2> QED
    BY <2>1, <2>2 DEF Handled
<1>10. c.st \in States
  BY <1>1 DEF ConnectionType
<1>11. CASE c.st = "AwaitingConnection"
  BY <1>5, <1>6, <1>11
<1>12. CASE c.st = "TimerRecovery"
  BY <1>7, <1>8, <1>12
<1>13. CASE c.st = "Connected"
  BY <1>7, <1>13
<1> QED
  BY <1>9, <1>10, <1>11, <1>12, <1>13 DEF States

\* T3 expires: nothing happens.
LEMMA Timer3Handled ==
    ASSUME NEW b, Good(b)
    PROVE  LET c == [b EXCEPT !.t3 = FALSE] IN Handled(c, c)
<1> DEFINE c == [b EXCEPT !.t3 = FALSE]
<1>1. /\ c \in ConnectionType /\ c.st = b.st /\ c.modulus = b.modulus
      /\ c.vs = b.vs /\ c.va = b.va /\ c.vr = b.vr /\ c.rc = b.rc /\ c.n2 = b.n2
      /\ c.t1 = b.t1 /\ ~c.t3 /\ ~c.aborted
      /\ c.layer3_initiated = b.layer3_initiated
      /\ c.iframe_queue = b.iframe_queue
      /\ c.iframe_resend_queue = b.iframe_resend_queue
  BY DEF Good, ConnectionType
<1> HIDE DEF c
<1>2. Outstanding(c) = Outstanding(b)
  BY <1>1 DEF Outstanding, ahead
<1>3. Versioned(c) /\ Window(c) /\ Stored(c) /\ c.rc <= c.n2
  BY <1>1, <1>2 DEF Good, Versioned, Window, Stored, TailOf, can_receive_data
<1>4. AwaitsPeer(c) => c.t1
  BY <1>1 DEF Good, Timed, AwaitsPeer
<1>5. Ready(c)
  BY <1>1, <1>3, <1>4 DEF Ready
<1> QED
  BY <1>5 DEF Handled, c

------------------------------------------------------------------------------
(* What a call sends, and what it takes from the resend queue.             *)

\* None of the frames a call has sent so far is an I frame.
Silent(c) == \A i \in DOMAIN c.out : c.out[i].type # "iframe"

\* One of them is a UA.
SaysUa(c) == \E i \in DOMAIN c.out : c.out[i].type = "ua"

\* The resend queue of d is that of c without what V(A) has moved over, which
\* was all outstanding, and with what was appended.
AcksOnly(c, d) ==
    LET n == ahead(c, c.va, d.va)
        old == c.iframe_resend_queue
        new == d.iframe_resend_queue
    IN  /\ n <= Outstanding(c)
        /\ Len(old) - n <= Len(new)
        /\ SubSeq(old, n + 1, Len(old)) = SubSeq(new, 1, Len(old) - n)

\* A handler that found c and left d sent no I frame and lost no frame of a link
\* that stays up.
Passes(c, d) ==
    /\ Silent(d)
    /\ can_receive_data(c) /\ can_receive_data(d) => AcksOnly(c, d) \/ SaysUa(d)

\* d has sent what c has, or one frame more that is not an I frame.
SendsAtMost(c, d) ==
    d.out = c.out \/ \E f \in Frame : f.type # "iframe" /\ d.out = Append(c.out, f)

\* V(A) and the resend queue are the same.
SameStore(c, d) == d.va = c.va /\ d.iframe_resend_queue = c.iframe_resend_queue

\* A handler that sends no I frame leaves a silent connection silent.
LEMMA StaysSilent ==
    ASSUME NEW c \in ConnectionType, NEW d, Silent(c), SendsAtMost(c, d)
    PROVE  Silent(d)
<1>1. c.out \in Seq(Frame)
  BY DEF ConnectionType
<1>2. CASE d.out = c.out
  BY <1>2 DEF Silent
<1>3. ASSUME NEW f \in Frame, f.type # "iframe", d.out = Append(c.out, f)
      PROVE  Silent(d)
  <2>1. DOMAIN d.out = 1 .. Len(c.out) + 1 /\ DOMAIN c.out = 1 .. Len(c.out)
        /\ Len(c.out) \in Nat
    BY <1>1, <1>3, AppendProperties
  <2>2. d.out[Len(c.out) + 1] = f /\ \A i \in 1 .. Len(c.out) : d.out[i] = c.out[i]
    BY <1>1, <1>3, AppendProperties
  <2> QED
    BY <1>3, <2>1, <2>2 DEF Silent
<1> QED
  BY <1>2, <1>3 DEF SendsAtMost

\* V(A) stays and nothing leaves the store.
LEMMA SameStoreAcks ==
    ASSUME NEW c, Good(c), can_receive_data(c), NEW d, SameStore(c, d)
    PROVE  AcksOnly(c, d)
<1>1. /\ c.modulus \in Nat \ {0} /\ c.va \in 0 .. c.modulus - 1
      /\ c.vs \in 0 .. c.modulus - 1 /\ c.iframe_resend_queue \in Seq(Payload)
  BY SMTT(60) DEF Good, Window, Versioned, can_receive_data, ReceivingStates, ConnectionType
<1>2. ahead(c, c.va, d.va) = 0 /\ 0 <= Outstanding(c)
  BY <1>1, ModDiff DEF ahead, Outstanding, SameStore
<1>3. Len(c.iframe_resend_queue) - 0 = Len(c.iframe_resend_queue) /\ 0 + 1 = 1
  BY <1>1
<1> QED
  BY <1>2, <1>3, <1>1 DEF AcksOnly, SameStore

\* update_ack takes from the store what it moves V(A) over.
LEMMA UpdateAcks ==
    ASSUME NEW c, Good(c), can_receive_data(c), NEW nr, in_range(c, nr)
    PROVE  AcksOnly(c, update_ack(c, nr)) /\ update_ack(c, nr).out = c.out
<1> DEFINE s == c.iframe_resend_queue
           n == ahead(c, c.va, nr)
           d == update_ack(c, nr)
<1>1. /\ c.modulus \in Nat \ {0} /\ c.va \in 0 .. c.modulus - 1
      /\ nr \in 0 .. c.modulus - 1 /\ c.vs \in 0 .. c.modulus - 1
      /\ s \in Seq(Payload) /\ Outstanding(c) <= Len(s)
  BY SMTT(60) DEF Good, Window, Versioned, Stored, TailOf, can_receive_data, ReceivingStates,
         ConnectionType, in_range
<1>2. n \in Nat /\ n <= Outstanding(c) /\ Outstanding(c) \in Nat
  BY <1>1, ModDiff, SMTT(60) DEF in_range, ahead, Outstanding
<1>3. n <= Len(s) /\ ~(n > Len(s)) /\ Len(s) \in Nat
  BY <1>1, <1>2
<1>4. d = [c EXCEPT !.va = nr, !.iframe_resend_queue = SubSeq(s, n + 1, Len(s))]
  BY <1>3 DEF update_ack
<1>5. d.va = nr /\ d.iframe_resend_queue = SubSeq(s, n + 1, Len(s)) /\ d.out = c.out
  BY <1>4 DEF Good, ConnectionType
<1> HIDE DEF d
<1> DEFINE r == SubSeq(s, n + 1, Len(s))
<1>6. r \in Seq(Payload) /\ Len(r) = Len(s) - n
  <2> HIDE DEF s, n
  <2> QED
    BY <1>1, <1>2, <1>3, DropLen
<1>7. SubSeq(r, 1, Len(s) - n) = r
  <2> HIDE DEF r
  <2> QED
    BY <1>6, DropNone
<1>8. AcksOnly(c, d)
  <2>1. Len(s) - n <= Len(r)
    BY <1>6, <1>2, <1>3
  <2> QED
    BY <1>2, <1>5, <1>7, <2>1 DEF AcksOnly
<1> QED
  BY <1>5, <1>8 DEF d

\* A call starts with nothing sent.
LEMMA StartSilent ==
    ASSUME NEW c, Good(c)
    PROVE  Silent(start(c))
  BY SMTT(30) DEF start, Silent, Good, ConnectionType

\* What AcksOnly says of d holds of every connection with the same store.
LEMMA AcksOnlySame ==
    ASSUME NEW c, NEW d, NEW e, AcksOnly(c, d), SameStore(d, e)
    PROVE  AcksOnly(c, e)
  BY DEF AcksOnly, SameStore

\* It compares the store with that of any connection with the window of c.
LEMMA AcksOnlyFrom ==
    ASSUME NEW b, NEW c, NEW d, AcksOnly(c, d), SameStore(b, c),
           c.vs = b.vs, c.modulus = b.modulus
    PROVE  AcksOnly(b, d)
  BY DEF AcksOnly, SameStore, ahead, Outstanding

\* A handler that leaves V(A) and the store alone.
LEMMA StillPasses ==
    ASSUME NEW c, Good(c), NEW d, Silent(d), SameStore(c, d)
    PROVE  Passes(c, d)
  BY SameStoreAcks DEF Passes

\* establish_data_link sends a SABM and ends the link.
LEMMA ReestablishPasses ==
    ASSUME NEW c, NEW b \in ConnectionType, Silent(b), NEW by_user \in BOOLEAN
    PROVE  Passes(c, reestablish(b, by_user))
<1> DEFINE d == reestablish(b, by_user)
<1>1. d.st = "AwaitingConnection" /\ d.out = Append(b.out, Sabm(TRUE))
  BY DEF reestablish, establish_data_link, send, clear_exception_conditions,
         ConnectionType
<1>2. Sabm(TRUE) \in Frame /\ Sabm(TRUE).type # "iframe"
  BY FramesAre DEF Sabm
<1> HIDE DEF d
<1>3. SendsAtMost(b, d)
  BY <1>1, <1>2 DEF SendsAtMost
<1>4. Silent(d)
  BY <1>3, StaysSilent
<1>5. Passes(c, d)
  BY <1>1, <1>4 DEF Passes, can_receive_data, ReceivingStates
<1> QED
  BY <1>5 DEF d

\* enquiry_response sends an RR.
LEMMA EnquirySilent ==
    ASSUME NEW c, Good(c), Silent(c), NEW f \in BOOLEAN
    PROVE  Silent(enquiry_response(c, f)) /\ SameStore(c, enquiry_response(c, f))
<1> DEFINE d == enquiry_response(c, f)
           r == Rr(f, c.vr, FALSE)
<1>1. r \in Frame /\ r.type # "iframe"
  <2>1. c.vr \in Nat
    BY DEF Good, ConnectionType
  <2> QED
    BY <2>1, FramesAre DEF Rr
<1>2. d.out = Append(c.out, r) /\ SameStore(c, d)
  BY DEF enquiry_response, send, SameStore, Good, ConnectionType
<1> HIDE DEF d, r
<1>3. SendsAtMost(c, d) /\ c \in ConnectionType
  BY <1>1, <1>2 DEF SendsAtMost, Good
<1>4. Silent(d)
  BY <1>3, StaysSilent
<1> QED
  BY <1>2, <1>4 DEF d

\* check_need_for_response sends an RR or nothing.
LEMMA ResponseSilent ==
    ASSUME NEW c, Good(c), Silent(c), NEW command \in BOOLEAN, NEW pf \in BOOLEAN
    PROVE  Silent(check_need_for_response(c, command, pf))
  BY EnquirySilent DEF check_need_for_response

\* check_iframe_acked acknowledges; the timers do not matter to it.
LEMMA AckedAcks ==
    ASSUME NEW c, Good(c), c.st = "Connected", NEW nr, in_range(c, nr)
    PROVE  LET d == check_iframe_acked(c, nr)
           IN  AcksOnly(c, d) /\ d.out = c.out
<1> DEFINE a == update_ack(c, nr)
           d == check_iframe_acked(c, nr)
<1>1. can_receive_data(c)
  BY DEF can_receive_data, ReceivingStates
<1>2. AcksOnly(c, a) /\ a.out = c.out /\ a \in ConnectionType
  BY <1>1, UpdateAcks, AckGood
<1>3. CASE nr = c.vs
  <2>1. d = [a EXCEPT !.t1 = FALSE, !.t3 = TRUE]
    BY <1>3 DEF check_iframe_acked
  <2> HIDE DEF a, d
  <2>2. SameStore(a, d) /\ d.out = a.out
    BY <1>2, <2>1 DEF SameStore, ConnectionType
  <2> QED
    BY <1>2, <2>2, AcksOnlySame DEF d
<1>4. CASE nr # c.vs /\ nr # c.va
  <2>1. d = [a EXCEPT !.t1 = TRUE]
    BY <1>4 DEF check_iframe_acked
  <2> HIDE DEF a, d
  <2>2. SameStore(a, d) /\ d.out = a.out
    BY <1>2, <2>1 DEF SameStore, ConnectionType
  <2> QED
    BY <1>2, <2>2, AcksOnlySame DEF d
<1>5. CASE nr # c.vs /\ nr = c.va
  <2>1. d = c
    BY <1>5 DEF check_iframe_acked
  <2> QED
    BY <1>1, <2>1, SameStoreAcks DEF SameStore
<1> QED
  BY <1>3, <1>4, <1>5

\* A frame sent by a handler that sends one frame.
LEMMA SendSilent ==
    ASSUME NEW c \in ConnectionType, Silent(c), NEW f \in Frame, f.type # "iframe"
    PROVE  Silent(send(c, f)) /\ SameStore(c, send(c, f))
           /\ send(c, f).out = Append(c.out, f)
<1> DEFINE d == send(c, f)
<1>1. d.out = Append(c.out, f) /\ SameStore(c, d)
  BY DEF send, SameStore, ConnectionType
<1> HIDE DEF d
<1>2. Silent(d)
  BY <1>1, StaysSilent DEF SendsAtMost
<1> QED
  BY <1>1, <1>2 DEF d

\* sabm and sabme are answered by a UA.
LEMMA SabmPasses ==
    ASSUME NEW c, Good(c), Silent(c), NEW pf \in BOOLEAN
    PROVE  Passes(c, dispatch_sabm(c, pf)) /\ Passes(c, dispatch_sabme(c, pf))
<1>0. Ua(pf) \in Frame /\ Ua(pf).type = "ua"
  BY FramesAre DEF Ua
<1>1. Passes(c, c)
  BY StillPasses DEF SameStore
<1>2. ASSUME NEW m, c.st = "Disconnected" PROVE Passes(c, Disconnected_sabm(c, pf, m))
  <2> DEFINE d == Disconnected_sabm(c, pf, m)
  <2>1. d.out = Append(c.out, Ua(pf))
    BY DEF Disconnected_sabm, clear_exception_conditions, send, set_version,
           Good, ConnectionType
  <2> HIDE DEF d
  <2>2. Silent(d)
    BY <1>0, <2>1, StaysSilent DEF SendsAtMost, Good
  <2>3. Passes(c, d)
    BY <1>2, <2>2 DEF Passes, can_receive_data, ReceivingStates
  <2> QED
    BY <2>3 DEF d
<1>3. CASE c.st = "Connected"
  <2> DEFINE d == Connected_sabm(c, pf)
  <2>1. d.out = Append(c.out, Ua(pf))
    BY DEF Connected_sabm, clear_exception_conditions, clear_iframe_queue, send,
           Good, ConnectionType
  <2>2. Silent(d)
    <3> HIDE DEF d
    <3> QED
      BY <1>0, <2>1, StaysSilent DEF SendsAtMost, Good
  <2>3. SaysUa(d)
    <3>1. c.out \in Seq(Frame) /\ Len(c.out) \in Nat
      BY DEF Good, ConnectionType
    <3>2. Len(c.out) + 1 \in DOMAIN Append(c.out, Ua(pf))
          /\ Append(c.out, Ua(pf))[Len(c.out) + 1] = Ua(pf)
      BY <3>1, <1>0, AppendProperties
    <3> HIDE DEF d
    <3> QED
      BY <1>0, <2>1, <3>2 DEF SaysUa
  <2> HIDE DEF d
  <2>4. Passes(c, d)
    BY <2>2, <2>3 DEF Passes
  <2> QED
    BY <1>1, <1>3, <2>4 DEF dispatch_sabm, dispatch_sabme, d
<1>4. CASE c.st = "Disconnected"
  BY <1>2, <1>4 DEF dispatch_sabm, dispatch_sabme
<1>5. CASE c.st \notin {"Disconnected", "Connected"}
  BY <1>1, <1>5 DEF dispatch_sabm, dispatch_sabme
<1> QED
  BY <1>3, <1>4, <1>5

\* ua: a link that comes up was not up, one that was up is set up anew.
LEMMA UaPasses ==
    ASSUME NEW c, Good(c), Silent(c), NEW pf \in BOOLEAN
    PROVE  Passes(c, dispatch_ua(c, pf))
<1>1. CASE c.st = "AwaitingConnection"
  <2> DEFINE d == dispatch_ua(c, pf)
  <2>1. d.out = c.out
    BY <1>1 DEF dispatch_ua, AwaitingConnection_ua, clear_iframe_queue, ReceivingStates,
                Good, ConnectionType
  <2> HIDE DEF d
  <2>2. Passes(c, d)
    BY <1>1, <2>1 DEF Passes, Silent, can_receive_data, ReceivingStates
  <2> QED
    BY <2>2 DEF d
<1>2. CASE c.st \in ReceivingStates
  BY <1>2, ReestablishPasses DEF dispatch_ua, Good, ReceivingStates
<1>3. CASE c.st # "AwaitingConnection" /\ c.st \notin ReceivingStates
  BY <1>3, StillPasses DEF dispatch_ua, SameStore
<1> QED
  BY <1>1, <1>2, <1>3

\* ui is answered by a DM or an RR.
LEMMA UiPasses ==
    ASSUME NEW c, Good(c), Silent(c), NEW pf \in BOOLEAN
    PROVE  Passes(c, dispatch_ui(c, pf))
<1>1. Passes(c, c)
  BY StillPasses DEF SameStore
<1>2. Passes(c, send(c, Dm(TRUE)))
  <2>1. Dm(TRUE) \in Frame /\ Dm(TRUE).type # "iframe"
    BY FramesAre DEF Dm
  <2> QED
    BY <2>1, SendSilent, StillPasses DEF Good
<1>3. Passes(c, enquiry_response(c, TRUE))
  BY EnquirySilent, StillPasses
<1> QED
  BY <1>1, <1>2, <1>3 DEF dispatch_ui, Disconnected_ui, Connected_ui

\* A handler that ends the link by one frame or none.
LEMMA DownPasses ==
    ASSUME NEW c, Good(c), Silent(c), NEW d, SendsAtMost(c, d), ~can_receive_data(d)
    PROVE  Passes(c, d)
  BY StaysSilent DEF Passes, Good

\* dm ends the link.
LEMMA DmPasses ==
    ASSUME NEW c, Good(c), Silent(c)
    PROVE  Passes(c, dispatch_dm(c))
<1>1. CASE c.st \in ReceivingStates
  <2> DEFINE d == dispatch_dm(c)
  <2>1. d.out = c.out /\ d.st = "Disconnected"
    BY <1>1 DEF dispatch_dm, ConnectedTimerRecovery_dm, clear_iframe_queue,
                Good, ConnectionType
  <2> HIDE DEF d
  <2>2. Passes(c, d)
    BY <2>1, DownPasses DEF SendsAtMost, can_receive_data, ReceivingStates
  <2> QED
    BY <2>2 DEF d
<1>2. CASE c.st \notin ReceivingStates
  BY <1>2, StillPasses DEF dispatch_dm, SameStore
<1> QED
  BY <1>1, <1>2

\* disc is answered by a DM, or ends the link with a UA.
LEMMA DiscPasses ==
    ASSUME NEW c, Good(c), Silent(c), NEW pf \in BOOLEAN
    PROVE  Passes(c, dispatch_disc(c, pf))
<1>1. CASE c.st = "Disconnected"
  <2>1. Dm(pf) \in Frame /\ Dm(pf).type # "iframe"
    BY FramesAre DEF Dm
  <2>2. Passes(c, send(c, Dm(pf)))
    BY <2>1, SendSilent, StillPasses DEF Good
  <2> QED
    BY <1>1, <2>2 DEF dispatch_disc, Disconnected_disc, ReceivingStates
<1>2. CASE c.st \in ReceivingStates
  <2> DEFINE d == ConnectedTimerRecovery_disc(c, pf)
  <2>1. d.out = Append(c.out, Ua(pf)) /\ d.st = "Disconnected"
    BY DEF ConnectedTimerRecovery_disc, clear_iframe_queue, send, Good, ConnectionType
  <2>2. Ua(pf) \in Frame /\ Ua(pf).type # "iframe"
    BY FramesAre DEF Ua
  <2> HIDE DEF d
  <2>3. Passes(c, d)
    BY <2>1, <2>2, DownPasses DEF SendsAtMost, can_receive_data, ReceivingStates
  <2> QED
    BY <1>2, <2>3 DEF dispatch_disc, ReceivingStates, d
<1>3. CASE c.st # "Disconnected" /\ c.st \notin ReceivingStates
  BY <1>3, StillPasses DEF dispatch_disc, SameStore
<1> QED
  BY <1>1, <1>2, <1>3

\* dl_connect sets the link up anew.
LEMMA DlConnectPasses ==
    ASSUME NEW c, Good(c), Silent(c)
    PROVE  Passes(c, dispatch_dl_connect(c))
<1>1. CASE c.st = "Disconnected"
  <2> DEFINE b == [c EXCEPT !.modulus = Modulus]
  <2>1. b \in ConnectionType /\ b.out = c.out
    BY DEF Good, ConnectionType
  <2> HIDE DEF b
  <2>2. Passes(c, reestablish(b, TRUE))
    BY <2>1, ReestablishPasses DEF Silent
  <2> QED
    BY <1>1, <2>2 DEF dispatch_dl_connect, Disconnected_dl_connect, b
<1>2. CASE c.st = "Connected"
  <2> DEFINE b == clear_iframe_queue(c)
  <2>1. b \in ConnectionType
    BY ClearType DEF Good
  <2>2. b.out = c.out
    BY DEF clear_iframe_queue, Good, ConnectionType
  <2> HIDE DEF b
  <2>3. Passes(c, reestablish(b, TRUE))
    BY <2>1, <2>2, ReestablishPasses DEF Silent
  <2> QED
    BY <1>2, <2>3 DEF dispatch_dl_connect, Connected_dl_connect, b
<1>3. CASE c.st \notin {"Disconnected", "Connected"}
  BY <1>3, StillPasses DEF dispatch_dl_connect, SameStore
<1> QED
  BY <1>1, <1>2, <1>3

\* dl_data appends to the store.
LEMMA DlDataPasses ==
    ASSUME NEW c, Good(c), Silent(c), NEW p \in Payload
    PROVE  Passes(c, dispatch_dl_data(c, p))
<1>1. CASE c.st \in ReceivingStates
  <2> DEFINE d == dispatch_dl_data(c, p)
             s == c.iframe_resend_queue
  <2>1. d.out = c.out /\ d.va = c.va /\ d.iframe_resend_queue = Append(s, p)
    BY <1>1 DEF dispatch_dl_data, ConnectedTimerRecovery_dl_data, Good, ConnectionType
  <2>2. /\ c.modulus \in Nat \ {0} /\ c.va \in 0 .. c.modulus - 1
        /\ c.vs \in 0 .. c.modulus - 1 /\ s \in Seq(Payload)
    BY <1>1, SMTT(30) DEF Good, Window, Versioned, can_receive_data, ReceivingStates, ConnectionType
  <2>3. ahead(c, c.va, d.va) = 0 /\ 0 <= Outstanding(c)
    BY <2>1, <2>2, ModDiff DEF ahead, Outstanding
  <2> HIDE DEF d
  <2>4. Len(Append(s, p)) = Len(s) + 1 /\ SubSeq(Append(s, p), 1, Len(s)) = s
        /\ SubSeq(s, 1, Len(s)) = s /\ Len(s) \in Nat
    <3> HIDE DEF s
    <3>1. Len(Append(s, p)) = Len(s) + 1 /\ Append(s, p) \in Seq(Payload)
          /\ \A i \in 1 .. Len(s) : Append(s, p)[i] = s[i]
      BY <2>2, AppendProperties
    <3>2. SubSeq(s, 1, Len(s)) = s
      BY <2>2, DropNone
    <3>3. SubSeq(Append(s, p), 1, Len(s)) = s
      BY <2>2, <3>1, SMTT(30)
    <3> QED
      BY <2>2, <3>1, <3>2, <3>3
  <2>5. AcksOnly(c, d)
    <3> HIDE DEF s
    <3>1. c.iframe_resend_queue = s
      BY DEF s
    <3> QED
      BY <2>1, <2>3, <2>4, <3>1 DEF AcksOnly
  <2>6. Passes(c, d)
    BY <2>1, <2>5 DEF Passes, Silent
  <2> QED
    BY <2>6 DEF d
<1>2. CASE c.st \notin ReceivingStates
  BY <1>2, StillPasses DEF dispatch_dl_data, SameStore
<1> QED
  BY <1>1, <1>2

\* dl_disconnect ends the link by a DISC.
LEMMA DlDisconnectPasses ==
    ASSUME NEW c, Good(c), Silent(c)
    PROVE  Passes(c, dispatch_dl_disconnect(c))
<1>1. CASE c.st \in ReceivingStates
  <2> DEFINE d == dispatch_dl_disconnect(c)
  <2>1. d.out = Append(c.out, Disc(TRUE)) /\ d.st = "AwaitingRelease"
    BY <1>1 DEF dispatch_dl_disconnect, ConnectedTimerRecovery_dl_disconnect,
                clear_iframe_queue, send, Good, ConnectionType
  <2>2. Disc(TRUE) \in Frame /\ Disc(TRUE).type # "iframe"
    BY FramesAre DEF Disc
  <2> HIDE DEF d
  <2>3. Passes(c, d)
    BY <2>1, <2>2, DownPasses DEF SendsAtMost, can_receive_data, ReceivingStates
  <2> QED
    BY <2>3 DEF d
<1>2. CASE c.st \notin ReceivingStates
  BY <1>2, StillPasses DEF dispatch_dl_disconnect, SameStore
<1> QED
  BY <1>1, <1>2

\* Timer T1: a SABM or an RR, and nothing leaves the store.
LEMMA Timer1Passes ==
    ASSUME NEW b, Good(b), Silent(b)
    PROVE  LET c == [b EXCEPT !.t1 = FALSE]
           IN  Passes(b, dispatch_timer1_tick(c))
<1> DEFINE c == [b EXCEPT !.t1 = FALSE]
           d == dispatch_timer1_tick(c)
<1>1. /\ c \in ConnectionType /\ c.st = b.st /\ c.out = b.out
      /\ SameStore(b, c)
  BY DEF Good, ConnectionType, SameStore
<1>2. Silent(c)
  BY <1>1 DEF Silent
<1> HIDE DEF c
<1>3. Sabm(TRUE) \in Frame /\ Sabm(TRUE).type # "iframe"
      /\ Rr(TRUE, c.vr, TRUE) \in Frame /\ Rr(TRUE, c.vr, TRUE).type # "iframe"
  <2>1. c.vr \in Nat
    BY <1>1 DEF ConnectionType
  <2> QED
    BY <2>1, FramesAre DEF Sabm, Rr
<1>4. SendsAtMost(c, d)
  <2>1. d.out \in {c.out, Append(c.out, Sabm(TRUE)), Append(c.out, Rr(TRUE, c.vr, TRUE))}
    <3>1. CASE c.st = "AwaitingConnection"
      BY <1>1, <3>1 DEF dispatch_timer1_tick, AwaitingConnection_timer1_tick,
         clear_iframe_queue, send, ConnectionType
    <3>2. CASE c.st = "Connected"
      BY <1>1, <3>2 DEF dispatch_timer1_tick, Connected_timer1_tick, transmit_enquiry,
         send, ConnectionType
    <3>3. CASE c.st = "TimerRecovery"
      BY <1>1, <3>3 DEF dispatch_timer1_tick, TimerRecovery_timer1_tick, transmit_enquiry,
         send, ConnectionType
    <3>4. CASE c.st \notin {"AwaitingConnection", "Connected", "TimerRecovery"}
      BY <3>4 DEF dispatch_timer1_tick
    <3> QED
      BY <3>1, <3>2, <3>3, <3>4
  <2> HIDE DEF d
  <2> QED
    BY <1>3, <2>1 DEF SendsAtMost
<1>5. can_receive_data(c) => SameStore(c, d)
  BY <1>1 DEF can_receive_data, ReceivingStates, dispatch_timer1_tick, Connected_timer1_tick,
     TimerRecovery_timer1_tick, transmit_enquiry, send, SameStore, ConnectionType
<1> HIDE DEF d
<1>6. Silent(d)
  BY <1>1, <1>2, <1>4, StaysSilent
<1>7. can_receive_data(b) => AcksOnly(b, d)
  <2>1. can_receive_data(b) => SameStore(b, d)
    BY <1>1, <1>5 DEF SameStore, can_receive_data
  <2> QED
    BY <2>1, SameStoreAcks
<1>8. Passes(b, d)
  BY <1>6, <1>7 DEF Passes
<1> QED
  BY <1>8 DEF c, d

\* Timer T3: nothing at all.
LEMMA Timer3Passes ==
    ASSUME NEW b, Good(b), Silent(b)
    PROVE  Passes(b, [b EXCEPT !.t3 = FALSE])
<1> DEFINE d == [b EXCEPT !.t3 = FALSE]
<1>1. d.out = b.out /\ SameStore(b, d)
  BY DEF Good, ConnectionType, SameStore
<1> HIDE DEF d
<1>2. Silent(d)
  BY <1>1 DEF Silent
<1> QED
  BY <1>1, <1>2, StillPasses DEF d

\* rr: an answer, if one is due, then an acknowledgement or a new set-up.
LEMMA RrPasses ==
    ASSUME NEW c, Good(c), Silent(c), NEW f, f.poll \in BOOLEAN,
           f.command_response \in BOOLEAN
    PROVE  Passes(c, dispatch_rr(c, f))
<1> DEFINE b == check_need_for_response(c, f.command_response, f.poll)
<1>1. Good(b) /\ SameLink(c, b) /\ Silent(b)
  BY ResponseGood, ResponseSilent
<1>2. SameStore(c, b) /\ b.vs = c.vs /\ b.modulus = c.modulus /\ b.st = c.st
  BY <1>1 DEF SameLink, SameStore
<1>3. \A d : AcksOnly(b, d) => AcksOnly(c, d)
  BY <1>2, AcksOnlyFrom
<1>4. Passes(c, reestablish(b, FALSE))
  BY <1>1, ReestablishPasses DEF Good
<1>5. CASE c.st = "Connected"
  <2> HIDE DEF b
  <2>1. in_range(b, f.nr) => Passes(c, check_iframe_acked(b, f.nr))
    BY <1>1, <1>2, <1>3, <1>5, AckedAcks DEF Passes, Silent
  <2> QED
    BY <1>4, <1>5, <2>1 DEF dispatch_rr, Connected_rr, b
<1>6. CASE c.st = "TimerRecovery" /\ ~(f.poll /\ ~f.command_response)
  <2> HIDE DEF b
  <2>1. in_range(b, f.nr) => Passes(c, update_ack(b, f.nr))
    BY <1>1, <1>2, <1>3, <1>6, UpdateAcks DEF Passes, Silent, can_receive_data, ReceivingStates
  <2> QED
    BY <1>4, <1>6, <2>1 DEF dispatch_rr, TimerRecovery_rr, b
<1>7. CASE c.st = "TimerRecovery" /\ f.poll /\ ~f.command_response
  <2> DEFINE d == [c EXCEPT !.t1 = FALSE]
             e == update_ack(d, f.nr)
             g == IF e.vs # e.va THEN invoke_retransmission(e, f.nr)
                  ELSE [e EXCEPT !.t3 = TRUE, !.st = "Connected"]
  <2>1. /\ d \in ConnectionType /\ d.out = c.out /\ d.st = c.st
        /\ SameStore(c, d) /\ d.vs = c.vs /\ d.modulus = c.modulus
    BY DEF Good, ConnectionType, SameStore
  <2>2. Silent(d) /\ (in_range(d, f.nr) <=> in_range(c, f.nr))
    BY <2>1 DEF Silent, in_range, ahead, Outstanding, SameStore
  <2>3. Passes(c, reestablish(d, FALSE))
    <3> HIDE DEF d
    <3> QED
      BY <2>1, <2>2, ReestablishPasses
  <2>4. ASSUME in_range(d, f.nr) PROVE Passes(c, g)
    <3> DEFINE a == update_ack(c, f.nr)
    <3>1. can_receive_data(c) /\ in_range(c, f.nr)
      BY <1>7, <2>2, <2>4 DEF can_receive_data, ReceivingStates
    <3>2. AcksOnly(c, a) /\ a.out = c.out /\ a \in ConnectionType /\ ~a.aborted
      BY <3>1, UpdateAcks, AckGood
    <3>3. e.va = a.va /\ e.iframe_resend_queue = a.iframe_resend_queue /\ e.out = c.out
          /\ e \in ConnectionType
      <4>1. d.modulus = c.modulus /\ d.va = c.va
            /\ d.iframe_resend_queue = c.iframe_resend_queue
        BY <2>1 DEF SameStore
      <4>2. ahead(d, d.va, f.nr) = ahead(c, c.va, f.nr)
        BY <4>1 DEF ahead
      <4>3. Good(c) /\ f.nr \in Nat
        <5>1. c.modulus \in Nat
          BY DEF Good, ConnectionType
        <5> QED
          BY <3>1, <5>1 DEF in_range
      <4>4. ~(ahead(c, c.va, f.nr) > Len(c.iframe_resend_queue))
        <5>1. a.aborted = TRUE \/ ~(ahead(c, c.va, f.nr) > Len(c.iframe_resend_queue))
          BY DEF update_ack, fail, Good, ConnectionType
        <5> QED
          BY <3>2, <5>1
      <4> DEFINE t == SubSeq(c.iframe_resend_queue, ahead(c, c.va, f.nr) + 1,
                             Len(c.iframe_resend_queue))
      <4>5. a = [c EXCEPT !.va = f.nr, !.iframe_resend_queue = t]
        BY <4>4 DEF update_ack
      <4>6. e = [d EXCEPT !.va = f.nr, !.iframe_resend_queue = t]
        <5> HIDE DEF d
        <5> QED
          BY <4>1, <4>2, <4>4 DEF update_ack
      <4> HIDE DEF t, a, e, d
      <4>7. e.va = f.nr /\ e.iframe_resend_queue = t /\ e.out = d.out
        BY <2>1, <4>6 DEF ConnectionType
      <4>8. a.va = f.nr /\ a.iframe_resend_queue = t
        BY <4>5 DEF Good, ConnectionType
      <4>9. t \in Seq(Payload)
        BY <3>2, <4>8 DEF ConnectionType
      <4>10. e \in ConnectionType
        BY <2>1, <4>3, <4>6, <4>9 DEF ConnectionType
      <4> QED
        BY <2>1, <4>7, <4>8, <4>10
    <3> HIDE DEF a, e
    <3>4. SameStore(e, g) /\ g.out = e.out
      <4>1. CASE e.vs # e.va
        BY <3>3, <4>1 DEF invoke_retransmission, fail, SameStore, ConnectionType
      <4>2. CASE e.vs = e.va
        BY <3>3, <4>2 DEF SameStore, ConnectionType
      <4> QED
        BY <4>1, <4>2
    <3> HIDE DEF g
    <3>5. SameStore(a, g) /\ g.out = c.out
      BY <3>3, <3>4 DEF SameStore
    <3>6. AcksOnly(c, g)
      BY <3>2, <3>5, AcksOnlySame
    <3> QED
      BY <3>5, <3>6 DEF Passes, Silent
  <2>5. Passes(c, TimerRecovery_rr(c, f))
    <3> HIDE DEF d
    <3>1. TimerRecovery_rr(c, f) = IF in_range(d, f.nr) THEN g ELSE reestablish(d, FALSE)
      BY <1>7 DEF TimerRecovery_rr, d
    <3> HIDE DEF g
    <3> QED
      BY <2>3, <2>4, <3>1
  <2> QED
    BY <1>7, <2>5 DEF dispatch_rr
<1>8. CASE c.st \notin ReceivingStates
  BY <1>8, StillPasses DEF dispatch_rr, ReceivingStates, SameStore
<1> QED
  BY <1>5, <1>6, <1>7, <1>8 DEF ReceivingStates

\* The receiving half of iframe answers, or rejects, or waits.
LEMMA ReceiveSilent ==
    ASSUME NEW c, Good(c), Silent(c), can_receive_data(c), NEW f,
           f.poll \in BOOLEAN, f.payload \in Payload
    PROVE  Silent(receive_iframe(c, f)) /\ SameStore(c, receive_iframe(c, f))
<1>0. c \in ConnectionType /\ c.vr \in Nat
  BY DEF Good, ConnectionType
<1>1. CASE f.ns = c.vr
  <2> DEFINE d == [c EXCEPT !.vr = (@ + 1) % c.modulus, !.up = Append(@, f.payload)]
             e == [d EXCEPT !.acknowledge_pending = TRUE]
             r == Rr(TRUE, d.vr, FALSE)
             g == enquiry_response(d, TRUE)
  <2>1. d.out = c.out /\ e.out = c.out /\ SameStore(c, d) /\ SameStore(c, e)
        /\ d.vr = (c.vr + 1) % c.modulus
    BY <1>0 DEF SameStore, ConnectionType
  <2>2. g.out = Append(c.out, r) /\ SameStore(c, g)
    BY <1>0 DEF enquiry_response, send, SameStore, ConnectionType
  <2>3. r \in Frame /\ r.type # "iframe"
    <3>1. c.modulus \in Nat \ {0} /\ c.vr + 1 \in Int
      BY <1>0, SMTT(30) DEF Good, Versioned, can_receive_data, ReceivingStates, ConnectionType
    <3>2. d.vr \in Nat
      BY <2>1, <3>1, ModIn
    <3> HIDE DEF d
    <3> QED
      BY <3>2, FramesAre DEF Rr
  <2>4. receive_iframe(c, f) = IF f.poll THEN g ELSE e
    BY <1>1 DEF receive_iframe
  <2> HIDE DEF d, e, g, r
  <2>5. Silent(g) /\ Silent(e)
    BY <1>0, <2>1, <2>2, <2>3, StaysSilent DEF SendsAtMost
  <2> QED
    BY <2>1, <2>2, <2>4, <2>5
<1>2. CASE f.ns # c.vr /\ c.reject_exception
  BY <1>2, EnquirySilent DEF receive_iframe, SameStore
<1>3. CASE f.ns # c.vr /\ ~c.reject_exception
  <2> DEFINE d == receive_iframe(c, f)
             r == Rej(f.poll, c.vr)
  <2>1. d.out = Append(c.out, r) /\ SameStore(c, d)
    BY <1>0, <1>3 DEF receive_iframe, send, SameStore, ConnectionType
  <2>2. r \in Frame /\ r.type # "iframe"
    BY <1>0, FramesAre DEF Rej
  <2> HIDE DEF d, r
  <2>3. Silent(d)
    BY <1>0, <2>1, <2>2, StaysSilent DEF SendsAtMost
  <2> QED
    BY <2>1, <2>3 DEF d
<1> QED
  BY <1>1, <1>2, <1>3

\* iframe, in every state.
LEMMA IframePasses ==
    ASSUME NEW c, Good(c), Silent(c), NEW f, f.poll \in BOOLEAN,
           f.command_response \in BOOLEAN, f.payload \in Payload
    PROVE  Passes(c, dispatch_iframe(c, f))
<1>1. CASE ~can_receive_data(c) \/ ~f.command_response
  BY <1>1, StillPasses DEF dispatch_iframe, can_receive_data,
     ConnectedTimerRecovery_iframe, SameStore
<1>2. CASE can_receive_data(c) /\ f.command_response
  <2>1. CASE f.payload \in Oversized \/ ~in_range(c, f.nr)
    <3>1. Passes(c, reestablish(c, FALSE))
      BY ReestablishPasses DEF Good
    <3> QED
      BY <1>2, <2>1, <3>1 DEF dispatch_iframe, can_receive_data,
                              ConnectedTimerRecovery_iframe
  <2>2. CASE f.payload \notin Oversized /\ in_range(c, f.nr)
    <3> DEFINE d == IF c.st = "Connected" THEN check_iframe_acked(c, f.nr)
                                          ELSE update_ack(c, f.nr)
    <3>1. AcksOnly(c, d) /\ d.out = c.out
      BY <1>2, <2>2, AckedAcks, UpdateAcks
    <3>2. Good(d) /\ can_receive_data(d)
      BY <1>2, <2>2, AckedKeepsUp
    <3> HIDE DEF d
    <3>3. Silent(d)
      BY <3>1 DEF Silent
    <3> DEFINE g == receive_iframe(d, f)
    <3>4. Silent(g) /\ SameStore(d, g)
      BY <3>2, <3>3, ReceiveSilent
    <3> HIDE DEF g
    <3>5. Passes(c, g)
      BY <3>1, <3>4, AcksOnlySame DEF Passes
    <3> QED
      BY <1>2, <2>2, <3>5 DEF dispatch_iframe, can_receive_data,
                              ConnectedTimerRecovery_iframe, d, g
  <2> QED
    BY <2>1, <2>2
<1> QED
  BY <1>1, <1>2

\* Every I frame sent carries what the store holds under its number.
Matches(c) ==
    \A i \in DOMAIN c.out :
        LET f == c.out[i]
        IN  f.type = "iframe" =>
               /\ ahead(c, c.va, f.ns) < Len(c.iframe_resend_queue)
               /\ f.payload = c.iframe_resend_queue[ahead(c, c.va, f.ns) + 1]

\* dl_data_poll adds I frames to what a silent handler has sent, each with the
\* payload the store holds under its number, and leaves V(A) and the store alone.
LEMMA PollTells ==
    ASSUME NEW c, Ready(c), Silent(c)
    PROVE  LET d == dl_data_poll(c)
           IN  Matches(d) /\ SameStore(c, d) /\ (SaysUa(c) => SaysUa(d))
<1>1. CASE ~can_receive_data(c)
  BY <1>1 DEF dl_data_poll, can_receive_data, Silent, Matches, SameStore
<1>2. CASE can_receive_data(c)
  <2> DEFINE n == sendable(c)
             d == transmit(c, n)
             m == c.modulus
             s == c.iframe_resend_queue
             q == c.iframe_queue
             o == Outstanding(c)
             x == [i \in 1 .. n |-> queued_iframe(c, i)]
  <2>1. m \in Nat \ {0} /\ m > K /\ c \in ConnectionType
        /\ c.vs \in 0 .. m - 1 /\ c.va \in 0 .. m - 1
        /\ o = IF c.va <= c.vs THEN c.vs - c.va ELSE c.vs - c.va + m
    BY <1>2, SendableFits
  <2>2. o \in 0 .. K
    BY <1>2, SendableFits
  <2>3. n \in Nat /\ n <= Len(q) /\ n <= K - o
    BY <1>2, SendableFits
  <2>4. s \in Seq(Payload) /\ o <= Len(s) /\ q = SubSeq(s, o + 1, Len(s)) /\ c.out \in Seq(Frame)
    BY <1>2, <2>1 DEF Ready, Stored, TailOf, ConnectionType
  <2>5. d.va = c.va /\ d.modulus = m /\ d.iframe_resend_queue = s /\ d.out = c.out \o x
    BY <2>1 DEF transmit, ConnectionType
  <2>6. dl_data_poll(c) = d
    BY <1>2 DEF dl_data_poll, can_receive_data
  <2>7. \A i \in 1 .. n : x[i] = queued_iframe(c, i)
    OBVIOUS
  <2>8. Len(x) = n /\ x \in Seq(Frame)
    <3>1. ASSUME NEW i \in 1 .. n PROVE queued_iframe(c, i) \in Frame
      BY <2>1, <2>3, QueuedIsFrame
    <3> QED
      BY <2>3, <3>1
  <2> HIDE DEF x, n, d
  <2>9. /\ DOMAIN d.out = 1 .. Len(c.out) + n /\ DOMAIN c.out = 1 .. Len(c.out)
        /\ Len(c.out) \in Nat
        /\ \A i \in 1 .. Len(c.out) : d.out[i] = c.out[i]
        /\ \A i \in 1 .. n : d.out[Len(c.out) + i] = x[i]
    <3> DEFINE u == c.out
    <3>1. u \in Seq(Frame) /\ x \in Seq(Frame) /\ d.out = u \o x
      BY <2>4, <2>5, <2>8
    <3> HIDE DEF u
    <3>2. /\ DOMAIN (u \o x) = 1 .. Len(u) + Len(x)
          /\ \A i \in 1 .. Len(u) : (u \o x)[i] = u[i]
          /\ \A i \in 1 .. Len(x) : (u \o x)[Len(u) + i] = x[i]
      BY <3>1, ConcatParts
    <3>3. Len(u) \in Nat /\ DOMAIN u = 1 .. Len(u)
      BY <3>1
    <3> QED
      BY <2>8, <3>1, <3>2, <3>3 DEF u
  <2>10. ASSUME NEW i \in 1 .. n
         PROVE  LET f == queued_iframe(c, i)
                IN  ahead(c, c.va, f.ns) = o + i - 1 /\ f.payload = q[i]
    <3> DEFINE z == (c.vs + i - 1) % m
               k == i - 1
    <3>1. k \in 0 .. m /\ o + k < m /\ c.vs + i - 1 = c.vs + k
      BY <2>1, <2>2, <2>3
    <3>2. z = (c.vs + k) % m
      BY <3>1
    <3>3. (c.vs + k) % m = IF c.vs + k < m THEN c.vs + k ELSE c.vs + k - m
      <4> HIDE DEF k, m
      <4> QED
        BY <2>1, <3>1, ModSum
    <3>4. queued_iframe(c, i).ns = z /\ queued_iframe(c, i).payload = q[i]
      BY DEF queued_iframe, Iframe
    <3> HIDE DEF z, k, m, o
    <3>5. z \in 0 .. m - 1
      BY <2>1, <3>1, <3>2, <3>3
    <3>6. (z - c.va) % m = IF c.va <= z THEN z - c.va ELSE z - c.va + m
      BY <2>1, <3>5, ModDiff
    <3>7. (z - c.va) % m = o + k
      <4>1. CASE c.va <= c.vs
        BY <2>1, <2>2, <3>1, <3>2, <3>3, <3>5, <3>6, <4>1
      <4>2. CASE c.vs < c.va
        BY <2>1, <2>2, <3>1, <3>2, <3>3, <3>5, <3>6, <4>2
      <4> QED
        BY <2>1, <4>1, <4>2
    <3>8. ahead(c, c.va, z) = o + i - 1
      BY <2>2, <3>7 DEF ahead, m, k, o
    <3> QED
      BY <3>4, <3>8
  <2>11. ASSUME NEW i \in 1 .. n
         PROVE  o + i - 1 < Len(s) /\ q[i] = s[o + i]
    <3> HIDE DEF o, s, q
    <3>1. i \in 1 .. Len(q) /\ Len(q) = Len(s) - o /\ o \in Nat /\ Len(s) \in Nat
      BY <2>2, <2>3, <2>4, DropLen
    <3>2. q[i] = s[o + i]
      BY <2>4, <3>1, SMTT(30)
    <3> QED
      BY <3>1, <3>2
  <2>12. Matches(d)
    <3>1. SUFFICES ASSUME NEW i \in DOMAIN d.out, d.out[i].type = "iframe"
                   PROVE  /\ ahead(d, d.va, d.out[i].ns) < Len(s)
                          /\ d.out[i].payload = s[ahead(d, d.va, d.out[i].ns) + 1]
      BY <2>5 DEF Matches
    <3>2. i \notin 1 .. Len(c.out)
      BY <2>9, <3>1 DEF Silent
    <3> DEFINE j == i - Len(c.out)
    <3>3. j \in 1 .. n /\ i = Len(c.out) + j
      BY <2>3, <2>9, <3>2
    <3> HIDE DEF j
    <3>4. d.out[i] = queued_iframe(c, j)
      BY <2>7, <2>9, <3>3
    <3>5. ahead(d, d.va, d.out[i].ns) = o + j - 1 /\ d.out[i].payload = q[j]
      BY <2>5, <2>10, <3>3, <3>4 DEF ahead
    <3>6. (o + j - 1) + 1 = o + j
      BY <2>2, <3>3
    <3> QED
      BY <2>11, <3>3, <3>5, <3>6
  <2>13. SaysUa(c) => SaysUa(d)
    <3>1. SUFFICES ASSUME NEW i \in DOMAIN c.out, c.out[i].type = "ua" PROVE SaysUa(d)
      BY DEF SaysUa
    <3>2. i \in DOMAIN d.out /\ d.out[i] = c.out[i]
      BY <2>3, <2>9
    <3> QED
      BY <3>1, <3>2 DEF SaysUa
  <2> QED
    BY <2>5, <2>6, <2>12, <2>13 DEF SameStore
<1> QED
  BY <1>1, <1>2

------------------------------------------------------------------------------
(* Connections whose payloads are the numbers of the data, and which have  *)
(* modulus Modulus: what a call makes of what the application submitted.   *)

\* Of the data 1 .. n that were submitted, those up to b have been acknowledged,
\* and those up to x have been sent and not been taken back.
Holds(c, b, n, x) ==
    /\ b \in Nat /\ n \in Nat /\ x \in Nat /\ b <= x /\ x <= n /\ x <= b + K
    /\ Len(c.iframe_resend_queue) = n - b
    /\ \A i \in 1 .. n - b : c.iframe_resend_queue[i] = b + i
    /\ c.va = b % Modulus /\ c.vs = x % Modulus

\* What is sent when the poll is through.
Full(b, n) == IF n <= b + K THEN n ELSE b + K

\* A link that is up.
Up(c) == can_receive_data(c) /\ c.modulus = Modulus

\* The distance on the circle is the distance of the numbers, if that is less than
\* a turn.
LEMMA Apart ==
    ASSUME NEW b \in Nat, NEW q \in Nat, b <= q, q <= b + K
    PROVE  /\ ((q % Modulus) - (b % Modulus)) % Modulus = q - b
           /\ q % Modulus \in 0 .. Modulus - 1
           /\ ((q % Modulus) - b) % Modulus = q - b
<1>0. Modulus \in Nat \ {0} /\ q < b + Modulus /\ K \in Nat /\ b \in Int /\ q \in Int
  OBVIOUS
<1>1. ((q % Modulus) - b) % Modulus = q - b
  BY <1>0, UnwrappedIs, Zenon
<1>2. q % Modulus \in 0 .. Modulus - 1
  BY <1>0, ModIn, Zenon
<1>3. q % Modulus \in Int
  BY <1>2
<1>4. ((q % Modulus) - (b % Modulus)) % Modulus = ((q % Modulus) - b) % Modulus
  BY <1>0, <1>3, PlaceSum, Zenon
<1> QED
  BY <1>1, <1>2, <1>4, Zenon

\* The numbers that acknowledge are in range.
LEMMA HeldDistances ==
    ASSUME NEW c, c.modulus = Modulus, NEW b, NEW n, NEW x, Holds(c, b, n, x),
           NEW q \in b .. x
    PROVE  /\ ahead(c, c.va, q % Modulus) = q - b
           /\ ahead(c, q % Modulus, c.vs) = x - q
           /\ Outstanding(c) = x - b
           /\ in_range(c, q % Modulus)
           /\ q % Modulus = c.vs <=> q = x
           /\ q % Modulus = c.va <=> q = b
<1>1. b \in Nat /\ x \in Nat /\ q \in Nat /\ b <= q /\ q <= x /\ x <= b + K /\ q <= b + K
      /\ x <= q + K
  BY DEF Holds
<1>2. ((q % Modulus) - (b % Modulus)) % Modulus = q - b /\ q % Modulus \in 0 .. Modulus - 1
  BY <1>1, Apart
<1>3. ((x % Modulus) - (b % Modulus)) % Modulus = x - b
  BY <1>1, Apart
<1>4. ((x % Modulus) - (q % Modulus)) % Modulus = x - q
  BY <1>1, Apart
<1>5. c.va = b % Modulus /\ c.vs = x % Modulus
  BY DEF Holds
<1>6. ahead(c, c.va, q % Modulus) = q - b /\ ahead(c, q % Modulus, c.vs) = x - q
      /\ Outstanding(c) = x - b
  BY <1>2, <1>3, <1>4, <1>5 DEF ahead, Outstanding
<1>7. in_range(c, q % Modulus)
  BY <1>1, <1>2, <1>6 DEF in_range
<1>8. b \in Int /\ x \in Int /\ q \in Int /\ x - q < Modulus /\ q - x < Modulus
      /\ b - q < Modulus /\ q - b < Modulus /\ Modulus \in Nat \ {0}
  BY <1>1
<1>9. (q % Modulus = x % Modulus => q = x) /\ (q % Modulus = b % Modulus => q = b)
  BY <1>8, SamePlace
<1> QED
  BY <1>5, <1>6, <1>7, <1>9

\* d has said and heard what c has, in the same state.
SameTalk(c, d) ==
    /\ d.out = c.out /\ d.up = c.up /\ d.vr = c.vr /\ d.st = c.st /\ d.modulus = c.modulus
    /\ d.reject_exception = c.reject_exception

\* update_ack moves the mark of what is acknowledged, and nothing else.
LEMMA UpdateAckHolds ==
    ASSUME NEW c \in ConnectionType, c.modulus = Modulus, NEW b, NEW n, NEW x,
           Holds(c, b, n, x), NEW q \in b .. x
    PROVE  /\ Holds(update_ack(c, q % Modulus), q, n, x)
           /\ SameTalk(c, update_ack(c, q % Modulus))
           /\ update_ack(c, q % Modulus) \in ConnectionType
<1> DEFINE s == c.iframe_resend_queue
           t == SubSeq(s, (q - b) + 1, Len(s))
           r == q % Modulus
           d == update_ack(c, r)
<1>1. ahead(c, c.va, r) = q - b
  BY HeldDistances
<1>2. b \in Nat /\ n \in Nat /\ x \in Nat /\ q \in Nat /\ q - b \in Nat /\ q <= n
      /\ Len(s) = n - b /\ q - b <= Len(s) /\ x <= q + K
      /\ \A i \in 1 .. n - b : s[i] = b + i
  <2>1. /\ b \in Nat /\ n \in Nat /\ x \in Nat /\ x <= n /\ x <= b + K
        /\ Len(s) = n - b /\ \A i \in 1 .. n - b : s[i] = b + i
    BY DEF Holds
  <2> HIDE DEF s
  <2>2. q \in Nat /\ b <= q /\ q <= x
    BY <2>1
  <2>3. q - b \in Nat /\ q <= n /\ x <= q + K
    BY <2>1, <2>2
  <2>4. q - b <= n - b
    BY <2>1, <2>3
  <2> QED
    BY <2>1, <2>2, <2>3, <2>4
<1>3. s \in Seq(Payload)
  BY DEF ConnectionType
<1>4. d = [c EXCEPT !.va = r, !.iframe_resend_queue = t]
  <2>1. ~(q - b > Len(s))
    BY <1>2
  <2>2. d = [c EXCEPT !.va = r, !.iframe_resend_queue = SubSeq(s, ahead(c, c.va, r) + 1, Len(s))]
    BY <1>1, <2>1 DEF update_ack
  <2> QED
    BY <1>1, <2>2
<1>5. t \in Seq(Payload) /\ Len(t) = n - q
  <2>1. Len(s) - (q - b) = n - q
    BY <1>2
  <2> HIDE DEF s
  <2> QED
    BY <1>2, <1>3, <2>1, DropLen
<1>6. ASSUME NEW i \in 1 .. n - q PROVE t[i] = q + i
  <2>1. i \in 1 .. Len(t) /\ (q - b) + i \in 1 .. n - b
    <3>1. n - q \in Int /\ i \in Int /\ 1 <= i /\ i <= n - q
      BY <1>2
    <3>2. (q - b) + i \in 1 .. n - b
      BY <1>2, <3>1
    <3>3. i \in 1 .. Len(t)
      BY <1>5
    <3> QED
      BY <3>2, <3>3
  <2>2. t[i] = s[(q - b) + i]
    <3> DEFINE k == q - b
    <3>1. k \in Nat /\ k <= Len(s) /\ i \in 1 .. Len(s) - k
      BY <1>2
    <3> HIDE DEF k, s
    <3>2. SubSeq(s, k + 1, Len(s))[i] = s[k + i]
      BY <1>3, <3>1, SMTT(30)
    <3> QED
      BY <3>2 DEF k
  <2>3. s[(q - b) + i] = b + ((q - b) + i)
    BY <1>2, <2>1
  <2> QED
    BY <1>2, <2>2, <2>3
<1>7. r \in Nat
  BY <1>2, ModIn
<1>8. c.vs = x % Modulus
  BY DEF Holds
<1> HIDE DEF s, t, r, d
<1>9. /\ d.va = r /\ d.vs = c.vs /\ d.iframe_resend_queue = t /\ d \in ConnectionType
      /\ SameTalk(c, d)
  BY <1>4, <1>5, <1>7 DEF ConnectionType, SameTalk
<1>10. Holds(d, q, n, x)
  BY <1>2, <1>5, <1>6, <1>8, <1>9 DEF Holds, r
<1> QED
  BY <1>9, <1>10 DEF d, r

\* The marks depend on V(A), V(S) and the store.
LEMMA HoldsSame ==
    ASSUME NEW c, NEW d, NEW b, NEW n, NEW x, Holds(c, b, n, x),
           d.va = c.va, d.vs = c.vs, d.iframe_resend_queue = c.iframe_resend_queue
    PROVE  Holds(d, b, n, x)
  BY DEF Holds

\* What a handler said so far: no I frame, and V(R) in every RR.
Answer(f, vr) == f.type \in {"rr", "rej"} /\ (f.type = "rr" => f.nr = vr)

\* Every frame of out is an answer.
Answers(out, vr) == \A i \in 1 .. Len(out) : Answer(out[i], vr)

\* What a call says on a link that stays up: the I frames bear data that are sent
\* and not acknowledged, each with its number, and V(R).
Speaks(out, vr, b, x) ==
    \A i \in 1 .. Len(out) :
        /\ out[i].type \in {"rr", "rej", "iframe"}
        /\ out[i].type \in {"rr", "iframe"} => out[i].nr = vr
        /\ out[i].type = "iframe" => /\ out[i].payload \in b + 1 .. x
                                     /\ out[i].ns = (out[i].payload - 1) % Modulus

\* check_iframe_acked is update_ack and the timers.
LEMMA AckedHolds ==
    ASSUME NEW c \in ConnectionType, c.modulus = Modulus, NEW b, NEW n, NEW x,
           Holds(c, b, n, x), NEW q \in b .. x
    PROVE  /\ Holds(check_iframe_acked(c, q % Modulus), q, n, x)
           /\ SameTalk(c, check_iframe_acked(c, q % Modulus))
           /\ check_iframe_acked(c, q % Modulus) \in ConnectionType
<1>0. /\ Holds(update_ack(c, q % Modulus), q, n, x)
      /\ SameTalk(c, update_ack(c, q % Modulus))
      /\ update_ack(c, q % Modulus) \in ConnectionType
  BY UpdateAckHolds
<1>1. q % Modulus = c.va <=> q = b
  BY HeldDistances
<1> DEFINE r == q % Modulus
           a == update_ack(c, r)
           d == check_iframe_acked(c, r)
<1>2. Holds(a, q, n, x) /\ a \in ConnectionType /\ SameTalk(c, a)
  BY <1>0, Zenon
<1>3. ASSUME NEW g \in ConnectionType, SameTalk(a, g), g.va = a.va, g.vs = a.vs,
             g.iframe_resend_queue = a.iframe_resend_queue
      PROVE  Holds(g, q, n, x) /\ SameTalk(c, g)
  <2> HIDE DEF a
  <2>1. Holds(g, q, n, x)
    BY <1>2, <1>3, HoldsSame
  <2> QED
    BY <1>2, <1>3, <2>1 DEF SameTalk
<1>4. CASE r = c.vs
  <2> DEFINE g == [a EXCEPT !.t1 = FALSE, !.t3 = TRUE]
  <2>1. d = g
    BY <1>4 DEF check_iframe_acked
  <2> HIDE DEF a, d
  <2>2. g \in ConnectionType /\ SameTalk(a, g) /\ g.va = a.va /\ g.vs = a.vs
        /\ g.iframe_resend_queue = a.iframe_resend_queue
    BY <1>2 DEF ConnectionType, SameTalk
  <2> HIDE DEF g
  <2>3. Holds(g, q, n, x) /\ SameTalk(c, g)
    BY <1>3, <2>2
  <2> QED
    BY <2>1, <2>2, <2>3 DEF d
<1>5. CASE r # c.vs /\ r # c.va
  <2> DEFINE g == [a EXCEPT !.t1 = TRUE]
  <2>1. d = g
    BY <1>5 DEF check_iframe_acked
  <2> HIDE DEF a, d
  <2>2. g \in ConnectionType /\ SameTalk(a, g) /\ g.va = a.va /\ g.vs = a.vs
        /\ g.iframe_resend_queue = a.iframe_resend_queue
    BY <1>2 DEF ConnectionType, SameTalk
  <2> HIDE DEF g
  <2>3. Holds(g, q, n, x) /\ SameTalk(c, g)
    BY <1>3, <2>2
  <2> QED
    BY <2>1, <2>2, <2>3 DEF d
<1>6. CASE r # c.vs /\ r = c.va
  <2>1. d = c
    BY <1>6 DEF check_iframe_acked
  <2>2. q = b
    BY <1>1, <1>6
  <2> QED
    BY <2>1, <2>2 DEF SameTalk
<1> QED
  BY <1>4, <1>5, <1>6

\* The window of the poll has room up to K beyond what is acknowledged.
LEMMA RoomLeft ==
    ASSUME NEW c, c.modulus = Modulus, NEW b, NEW n, NEW x, Holds(c, b, n, x)
    PROVE  (c.va + K - c.vs) % c.modulus = (b + K) - x
<1>1. b \in Int /\ x \in Int /\ (b + K) - x \in 0 .. Modulus - 1 /\ b + K \in Int
      /\ Modulus \in Nat \ {0} /\ c.va = b % Modulus /\ c.vs = x % Modulus
  BY SMTT(30) DEF Holds
<1>2. b % Modulus \in Int /\ x % Modulus \in Int
  BY <1>1, ModIn
<1>3. ((b + K) - (x % Modulus)) % Modulus = (b + K) - x
  <2>1. ((b + K) - (x % Modulus)) % Modulus = ((b + K) - x) % Modulus
    BY <1>1, PlaceSum, Zenon
  <2>2. ((b + K) - x) % Modulus = (b + K) - x
    BY <1>1, ModPlain, Zenon
  <2> QED
    BY <2>1, <2>2, Zenon
<1>4. ((b % Modulus) + (K - (x % Modulus))) % Modulus
         = (b + (K - (x % Modulus))) % Modulus
  <2>1. K - (x % Modulus) \in Int
    BY <1>2
  <2> QED
    BY <1>1, <2>1, PlaceSum, Zenon
<1>5. b + (K - (x % Modulus)) = (b + K) - (x % Modulus)
      /\ (b % Modulus) + (K - (x % Modulus)) = (b % Modulus) + K - (x % Modulus)
  BY <1>1, <1>2
<1> QED
  BY <1>1, <1>3, <1>4, <1>5, Zenon

\* What the transmit queue holds, and how much of it the poll sends.
LEMMA QueueHolds ==
    ASSUME NEW c, Ready(c), Up(c), NEW b, NEW n, NEW x, Holds(c, b, n, x)
    PROVE  /\ Len(c.iframe_queue) = n - x
           /\ \A i \in 1 .. n - x : c.iframe_queue[i] = x + i
           /\ sendable(c) \in Nat
           /\ x + sendable(c) = Full(b, n)
           /\ sendable(c) <= n - x
<1>1. c.modulus = Modulus /\ c \in ConnectionType /\ TailOf(c, Outstanding(c))
  BY DEF Up, Ready, Stored
<1>2. b \in Nat /\ n \in Nat /\ x \in Nat /\ b <= x /\ x <= n /\ x <= b + K
      /\ Len(c.iframe_resend_queue) = n - b
      /\ \A i \in 1 .. n - b : c.iframe_resend_queue[i] = b + i
  BY DEF Holds
<1>3. Outstanding(c) = x - b
  <2>1. b \in b .. x
    BY <1>2
  <2> QED
    BY <1>1, <2>1, HeldDistances
<1> DEFINE s == c.iframe_resend_queue
           t == c.iframe_queue
           k == x - b
<1>4. s \in Seq(Payload) /\ k \in Nat /\ k <= Len(s) /\ t = SubSeq(s, k + 1, Len(s))
  BY <1>1, <1>2, <1>3 DEF TailOf, ConnectionType
<1>5. Len(t) = n - x
  <2>1. Len(s) - k = n - x
    BY <1>2
  <2> HIDE DEF s, t, k
  <2> QED
    BY <1>4, <2>1, DropLen
<1>6. ASSUME NEW i \in 1 .. n - x PROVE t[i] = x + i
  <2>1. i \in 1 .. Len(s) - k /\ k + i \in 1 .. n - b /\ b + (k + i) = x + i
    <3>1. n - x \in Int /\ i \in Int /\ 1 <= i /\ i <= n - x
      BY <1>2
    <3> QED
      BY <1>2, <3>1
  <2>2. s[k + i] = b + (k + i)
    BY <1>2, <2>1
  <2> HIDE DEF s, t, k
  <2>3. t[i] = s[k + i]
    BY <1>4, <2>1, SMTT(30)
  <2> QED
    BY <2>1, <2>2, <2>3
<1>7. (c.va + K - c.vs) % c.modulus = (b + K) - x
  BY <1>1, RoomLeft
<1>8. sendable(c) = IF n - x < (b + K) - x THEN n - x ELSE (b + K) - x
  BY <1>5, <1>7 DEF sendable
<1> HIDE DEF s, t, k
<1>9. sendable(c) \in Nat /\ x + sendable(c) = Full(b, n) /\ sendable(c) <= n - x
  BY <1>2, <1>8 DEF Full
<1> QED
  BY <1>5, <1>6, <1>9 DEF t

\* The i-th frame of the poll.
LEMMA QueuedHolds ==
    ASSUME NEW c, Ready(c), Up(c), NEW b, NEW n, NEW x, Holds(c, b, n, x),
           NEW i \in 1 .. sendable(c)
    PROVE  LET f == queued_iframe(c, i)
           IN  /\ f.type = "iframe" /\ f.nr = c.vr
               /\ f.payload = x + i /\ f.ns = (f.payload - 1) % Modulus
<1>1. c.modulus = Modulus
  BY DEF Up
<1>2. x \in Nat /\ n \in Nat /\ c.vs = x % Modulus
  BY DEF Holds
<1>3. sendable(c) \in Nat /\ sendable(c) <= n - x /\ \A j \in 1 .. n - x : c.iframe_queue[j] = x + j
  BY QueueHolds
<1>4. i \in 1 .. n - x /\ i \in Int
  BY <1>2, <1>3
<1>5. c.iframe_queue[i] = x + i
  BY <1>3, <1>4
<1>6. (c.vs + i - 1) % c.modulus = ((x + i) - 1) % Modulus
  <2>1. x \in Int /\ i - 1 \in Int /\ Modulus \in Nat \ {0} /\ x % Modulus \in Int
    BY <1>2, <1>4, ModIn
  <2>2. ((x % Modulus) + (i - 1)) % Modulus = (x + (i - 1)) % Modulus
    BY <2>1, PlaceSum, Zenon
  <2>3. (x % Modulus) + (i - 1) = (x % Modulus) + i - 1 /\ x + (i - 1) = (x + i) - 1
    BY <1>4, <2>1
  <2> QED
    BY <1>1, <1>2, <2>2, <2>3, Zenon
<1> QED
  BY <1>5, <1>6 DEF queued_iframe, Iframe

\* The poll sends all the window has room for.
LEMMA PollHolds ==
    ASSUME NEW c, Ready(c), Up(c), NEW b, NEW n, NEW x, Holds(c, b, n, x),
           Answers(c.out, c.vr)
    PROVE  /\ Up(dl_data_poll(c)) /\ dl_data_poll(c).st = c.st
           /\ Holds(dl_data_poll(c), b, n, Full(b, n))
           /\ Speaks(dl_data_poll(c).out, c.vr, b, Full(b, n))
           /\ dl_data_poll(c).vr = c.vr /\ dl_data_poll(c).up = c.up
<1> DEFINE k == sendable(c)
           y == [i \in 1 .. k |-> queued_iframe(c, i)]
           d == transmit(c, k)
           u == c.out
<1>1. k \in Nat /\ x + k = Full(b, n) /\ k <= n - x /\ Len(c.iframe_queue) = n - x
  BY QueueHolds
<1>2. c.modulus = Modulus /\ c \in ConnectionType /\ u \in Seq(Frame)
  BY DEF Up, Ready, ConnectionType
<1>3. /\ d.va = c.va /\ d.modulus = c.modulus /\ d.iframe_resend_queue = c.iframe_resend_queue
      /\ d.out = u \o y /\ d.vs = (c.vs + k) % c.modulus /\ d.vr = c.vr /\ d.up = c.up
      /\ d.st = c.st
  BY <1>2 DEF transmit, ConnectionType
<1>4. dl_data_poll(c) = d
  BY DEF dl_data_poll, Up, can_receive_data
<1>5. b \in Nat /\ n \in Nat /\ x \in Nat /\ b <= x /\ x <= n /\ x <= b + K
      /\ Len(c.iframe_resend_queue) = n - b
      /\ (\A i \in 1 .. n - b : c.iframe_resend_queue[i] = b + i)
      /\ c.va = b % Modulus /\ c.vs = x % Modulus
  BY DEF Holds
<1>6. \A i \in 1 .. k : /\ y[i].type = "iframe" /\ y[i].nr = c.vr
                        /\ y[i].payload = x + i /\ y[i].ns = (y[i].payload - 1) % Modulus
  BY QueuedHolds
<1>7. y \in Seq(Frame) /\ Len(y) = k
  <2>1. c.modulus \in Nat \ {0} /\ k <= Len(c.iframe_queue)
    BY <1>1, <1>2
  <2>2. ASSUME NEW i \in 1 .. k PROVE queued_iframe(c, i) \in Frame
    BY <1>1, <1>2, <2>1, QueuedIsFrame
  <2> QED
    BY <1>1, <2>2
<1>8. (c.vs + k) % c.modulus = (x + k) % Modulus
  <2>1. x \in Int /\ k \in Int /\ Modulus \in Nat \ {0}
    BY <1>1, <1>5
  <2> HIDE DEF k
  <2>2. ((x % Modulus) + k) % Modulus = (x + k) % Modulus
    BY <2>1, PlaceSum, Zenon
  <2>3. c.vs = x % Modulus
    BY <1>5
  <2> QED
    BY <1>2, <2>2, <2>3, Zenon
<1> HIDE DEF k, y, d, u
<1>9. Holds(d, b, n, Full(b, n))
  <2>1. Full(b, n) \in Nat /\ b <= Full(b, n) /\ Full(b, n) <= n /\ Full(b, n) <= b + K
    BY <1>5 DEF Full
  <2> QED
    BY <1>1, <1>3, <1>5, <1>8, <2>1 DEF Holds
<1>10. Speaks(u \o y, c.vr, b, Full(b, n))
  <2> DEFINE z == u \o y
  <2>1. /\ \A i \in 1 .. Len(u) : z[i] = u[i]
        /\ \A i \in 1 .. Len(y) : z[Len(u) + i] = y[i]
    BY <1>2, <1>7, ConcatParts
  <2>2. Len(z) = Len(u) + k /\ Len(u) \in Nat
    BY <1>2, <1>7, SMTT(30)
  <2> HIDE DEF z
  <2>3. SUFFICES ASSUME NEW i \in 1 .. Len(u) + k
                 PROVE /\ z[i].type \in {"rr", "rej", "iframe"}
                       /\ z[i].type \in {"rr", "iframe"} => z[i].nr = c.vr
                       /\ z[i].type = "iframe" =>
                             /\ z[i].payload \in b + 1 .. Full(b, n)
                             /\ z[i].ns = (z[i].payload - 1) % Modulus
    BY <2>2 DEF Speaks, z
  <2>4. CASE i \in 1 .. Len(u)
    BY <2>1, <2>4 DEF Answers, Answer, u
  <2>5. CASE i \notin 1 .. Len(u)
    <3> DEFINE j == i - Len(u)
    <3>1. j \in 1 .. k /\ i = Len(u) + j
      BY <1>1, <2>2, <2>5
    <3> HIDE DEF j
    <3>2. z[i] = y[j]
      BY <1>7, <2>1, <3>1
    <3>3. x + j \in b + 1 .. Full(b, n)
      BY <1>1, <1>5, <3>1
    <3>4. /\ z[i].type = "iframe" /\ z[i].nr = c.vr
          /\ z[i].payload = x + j /\ z[i].ns = (z[i].payload - 1) % Modulus
      BY <1>6, <3>1, <3>2
    <3> QED
      BY <3>3, <3>4
  <2> QED
    BY <2>4, <2>5
<1>11. Up(d)
  BY <1>3 DEF Up, can_receive_data
<1> QED
  BY <1>3, <1>4, <1>9, <1>10, <1>11

------------------------------------------------------------------------------
(* How a call serves a link that is up: frames received and data submitted.*)

\* A handler leaves to the poll a link on which data up to b of n are acknowledged
\* and those up to x sent, having said nothing but answers.
Serving(d, b, n, x) ==
    Ready(d) /\ Up(d) /\ Holds(d, b, n, x) /\ Answers(d.out, d.vr)

\* A call leaves a link on which data up to b of n are acknowledged and as many
\* sent as the window allows.
Served(g, b, n) ==
    /\ Up(g) /\ Holds(g, b, n, Full(b, n))
    /\ Speaks(g.out, g.vr, b, Full(b, n))

\* The poll after a handler fills the window of such a link.
LEMMA CallServes ==
    ASSUME NEW c, NEW d, NEW b, NEW n, NEW x, Serving(d, b, n, x)
    PROVE  /\ Served(maybe_change_state(c, d), b, n)
           /\ maybe_change_state(c, d).vr = d.vr
           /\ maybe_change_state(c, d).up = d.up
           /\ maybe_change_state(c, d).st = d.st
<1>1. Ready(d) /\ Up(d) /\ Holds(d, b, n, x) /\ Answers(d.out, d.vr)
  BY DEF Serving
<1>2. maybe_change_state(c, d) = dl_data_poll(d)
  BY <1>1 DEF maybe_change_state, Ready
<1>3. /\ Up(dl_data_poll(d)) /\ dl_data_poll(d).st = d.st
      /\ Holds(dl_data_poll(d), b, n, Full(b, n))
      /\ Speaks(dl_data_poll(d).out, d.vr, b, Full(b, n))
      /\ dl_data_poll(d).vr = d.vr /\ dl_data_poll(d).up = d.up
  BY <1>1, PollHolds
<1> QED
  BY <1>2, <1>3, Zenon DEF Served

\* A link that is up, before a handler has done anything.
Begun(c, b, n, x) ==
    /\ Good(c) /\ Up(c) /\ Holds(c, b, n, x) /\ c.out = <<>> /\ c.up = <<>>

\* A call begins with nothing said and nothing delivered.
LEMMA StartHolds ==
    ASSUME NEW c, Good(c), Up(c), NEW b, NEW n, NEW x, Holds(c, b, n, x)
    PROVE  Begun(start(c), b, n, x) /\ start(c).vr = c.vr /\ start(c).st = c.st
           /\ start(c).t1 = c.t1
<1>1. Good(start(c))
  BY StartGood
<1>2. /\ start(c).st = c.st /\ start(c).vr = c.vr /\ start(c).modulus = c.modulus
      /\ start(c).va = c.va /\ start(c).vs = c.vs
      /\ start(c).iframe_resend_queue = c.iframe_resend_queue
      /\ start(c).out = <<>> /\ start(c).up = <<>> /\ start(c).t1 = c.t1
  BY DEF start, Good, ConnectionType
<1>3. Holds(start(c), b, n, x)
  BY <1>2, HoldsSame
<1>4. Up(start(c))
  BY <1>2 DEF Up, can_receive_data
<1> QED
  BY <1>1, <1>2, <1>3, <1>4 DEF Begun

\* Same answers, same link.
LEMMA StillAnswers ==
    ASSUME NEW c, NEW d, SameTalk(c, d), Answers(c.out, c.vr), Up(c)
    PROVE  Answers(d.out, d.vr) /\ Up(d) /\ d.vr = c.vr /\ d.up = c.up
  BY DEF SameTalk, Up, can_receive_data

\* An RR on what is said so far.
LEMMA AnswersMore ==
    ASSUME NEW u \in Seq(Frame), NEW vr, Answers(u, vr), NEW f, Answer(f, vr)
    PROVE  Answers(Append(u, f), vr)
<1> DEFINE z == Append(u, f)
<1>1. /\ Len(u) \in Nat /\ Len(z) = Len(u) + 1 /\ z[Len(u) + 1] = f
      /\ \A i \in 1 .. Len(u) : z[i] = u[i]
  BY SMTT(30)
<1> HIDE DEF z
<1>2. ASSUME NEW i \in 1 .. Len(z) PROVE Answer(z[i], vr)
  BY <1>1 DEF Answers
<1>3. Answers(z, vr)
  BY <1>2 DEF Answers
<1> QED
  BY <1>3 DEF z

\* Who says nothing answers well.
LEMMA AnswersNothing == ASSUME NEW vr PROVE Answers(<<>>, vr)
  BY DEF Answers

\* An answer to an enquiry moves no mark.
LEMMA EnquiryHolds ==
    ASSUME NEW c, c \in ConnectionType, Up(c), NEW b, NEW n, NEW x, Holds(c, b, n, x),
           Answers(c.out, c.vr), NEW f \in BOOLEAN
    PROVE  LET d == enquiry_response(c, f)
           IN  /\ Holds(d, b, n, x) /\ Up(d) /\ Answers(d.out, d.vr)
               /\ d.vr = c.vr /\ d.up = c.up /\ d.st = c.st
<1> DEFINE d == enquiry_response(c, f)
<1>1. /\ d.va = c.va /\ d.vs = c.vs /\ d.iframe_resend_queue = c.iframe_resend_queue
      /\ d.vr = c.vr /\ d.up = c.up /\ d.st = c.st /\ d.modulus = c.modulus
      /\ d.out = Append(c.out, Rr(f, c.vr, FALSE))
  BY DEF enquiry_response, send, ConnectionType
<1>2. c.out \in Seq(Frame)
  BY DEF ConnectionType
<1>3. Rr(f, c.vr, FALSE).type = "rr" /\ Rr(f, c.vr, FALSE).nr = c.vr
  BY DEF Rr
<1> HIDE DEF d
<1>4. Answers(d.out, d.vr)
  <2> DEFINE u == c.out
             r == Rr(f, c.vr, FALSE)
  <2>1. u \in Seq(Frame) /\ Answers(u, c.vr) /\ Answer(r, c.vr)
    BY <1>2, <1>3 DEF Answer
  <2>2. d.out = Append(u, r) /\ d.vr = c.vr
    BY <1>1, Zenon
  <2> HIDE DEF u, r
  <2>3. Answers(Append(u, r), c.vr)
    BY <2>1, AnswersMore, Zenon
  <2> QED
    BY <2>2, <2>3
<1>5. Holds(d, b, n, x)
  BY <1>1, HoldsSame
<1>6. Up(d)
  BY <1>1 DEF Up, can_receive_data
<1> QED
  BY <1>1, <1>4, <1>5, <1>6 DEF d

\* rr with a number that was sent: Connected.
LEMMA ConnectedRrHolds ==
    ASSUME NEW c, NEW b, NEW n, NEW x, Begun(c, b, n, x), c.st = "Connected",
           NEW q \in b .. x, NEW f, f.nr = q % Modulus,
           f.poll \in BOOLEAN, f.command_response \in BOOLEAN
    PROVE  LET d == Connected_rr(c, f)
           IN  /\ Holds(d, q, n, x) /\ Up(d) /\ Answers(d.out, d.vr)
               /\ d.vr = c.vr /\ d.up = c.up
<1>1. Good(c) /\ Up(c) /\ Holds(c, b, n, x) /\ c \in ConnectionType /\ Answers(c.out, c.vr)
  BY AnswersNothing DEF Begun, Good
<1> DEFINE e == check_need_for_response(c, f.command_response, f.poll)
           d == check_iframe_acked(e, q % Modulus)
<1>2. Good(e)
  BY <1>1, ResponseGood
<1>3. Holds(e, b, n, x) /\ Up(e) /\ Answers(e.out, e.vr) /\ e.vr = c.vr /\ e.up = c.up
  BY <1>1, EnquiryHolds DEF check_need_for_response
<1> HIDE DEF e
<1>4. in_range(e, q % Modulus)
  BY <1>3, HeldDistances DEF Up
<1>5. Connected_rr(c, f) = d
  BY <1>4 DEF Connected_rr, e
<1>6. Holds(d, q, n, x) /\ SameTalk(e, d)
  BY <1>2, <1>3, AckedHolds DEF Up, Good
<1> HIDE DEF d
<1>7. Answers(d.out, d.vr) /\ Up(d) /\ d.vr = e.vr /\ d.up = e.up
  BY <1>3, <1>6, StillAnswers
<1> QED
  BY <1>3, <1>5, <1>6, <1>7

\* rr with a number that was sent: TimerRecovery, where an answer to the enquiry
\* may take back what is sent and not acknowledged.
LEMMA RecoveryRrHolds ==
    ASSUME NEW c, NEW b, NEW n, NEW x, Begun(c, b, n, x), c.st = "TimerRecovery",
           NEW q \in b .. x, NEW f, f.nr = q % Modulus,
           f.poll \in BOOLEAN, f.command_response \in BOOLEAN
    PROVE  \E y : LET d == TimerRecovery_rr(c, f)
                  IN  /\ Holds(d, q, n, y) /\ Up(d) /\ Answers(d.out, d.vr)
                      /\ d.vr = c.vr /\ d.up = c.up
<1>1. Good(c) /\ Up(c) /\ Holds(c, b, n, x) /\ c \in ConnectionType /\ Answers(c.out, c.vr)
  BY AnswersNothing DEF Begun, Good
<1>2. CASE ~(f.poll /\ ~f.command_response)
  <2> DEFINE e == check_need_for_response(c, f.command_response, f.poll)
             d == update_ack(e, q % Modulus)
  <2>1. Good(e)
    BY <1>1, ResponseGood
  <2>2. Holds(e, b, n, x) /\ Up(e) /\ Answers(e.out, e.vr) /\ e.vr = c.vr /\ e.up = c.up
    BY <1>1, EnquiryHolds DEF check_need_for_response
  <2> HIDE DEF e
  <2>3. in_range(e, q % Modulus)
    BY <2>2, HeldDistances DEF Up
  <2>4. TimerRecovery_rr(c, f) = d
    BY <1>2, <2>3 DEF TimerRecovery_rr, e
  <2>5. Holds(d, q, n, x) /\ SameTalk(e, d)
    BY <2>1, <2>2, UpdateAckHolds DEF Up, Good
  <2> HIDE DEF d
  <2>6. Answers(d.out, d.vr) /\ Up(d) /\ d.vr = e.vr /\ d.up = e.up
    BY <2>2, <2>5, StillAnswers
  <2> QED
    BY <2>2, <2>4, <2>5, <2>6
<1>3. CASE f.poll /\ ~f.command_response
  <2> DEFINE a == [c EXCEPT !.t1 = FALSE]
             e == update_ack(a, q % Modulus)
  <2>1. a \in ConnectionType /\ SameTalk(c, a) /\ a.va = c.va /\ a.vs = c.vs
        /\ a.iframe_resend_queue = c.iframe_resend_queue
    BY <1>1 DEF ConnectionType, SameTalk
  <2> HIDE DEF a
  <2>2. Holds(a, b, n, x) /\ a.modulus = Modulus
    BY <1>1, <2>1, HoldsSame DEF SameTalk, Up
  <2>3. in_range(a, q % Modulus)
    BY <2>2, HeldDistances
  <2>4. Holds(e, q, n, x) /\ SameTalk(a, e) /\ e \in ConnectionType
    BY <2>1, <2>2, UpdateAckHolds
  <2> HIDE DEF e
  <2>5. Answers(e.out, e.vr) /\ Up(e) /\ e.vr = c.vr /\ e.up = c.up
    BY <1>1, <2>1, <2>4, StillAnswers DEF SameTalk
  <2>6. TimerRecovery_rr(c, f) = IF e.vs # e.va THEN invoke_retransmission(e, q % Modulus)
                                 ELSE [e EXCEPT !.t3 = TRUE, !.st = "Connected"]
    BY <1>3, <2>3 DEF TimerRecovery_rr, a, e
  <2>7. CASE e.vs # e.va
    <3> DEFINE g == [e EXCEPT !.vs = q % Modulus, !.iframe_queue = e.iframe_resend_queue]
    <3>1. q \in Nat /\ q <= n /\ n \in Nat /\ x \in Nat /\ q <= x /\ x <= n /\ x <= q + K
          /\ Len(e.iframe_resend_queue) = n - q
      BY <2>4 DEF Holds
    <3>2. ahead(e, q % Modulus, e.vs) = x - q
      <4>1. q \in q .. x
        BY <3>1
      <4> QED
        BY <2>4, <2>5, <4>1, HeldDistances DEF Up
    <3>3. ~(ahead(e, q % Modulus, e.vs) > Len(e.iframe_resend_queue))
      BY <3>1, <3>2
    <3>4. TimerRecovery_rr(c, f) = g
      BY <2>6, <2>7, <3>3 DEF invoke_retransmission
    <3>5. g.va = e.va /\ g.vs = q % Modulus /\ g.iframe_resend_queue = e.iframe_resend_queue
          /\ SameTalk(e, g)
      BY <2>4 DEF ConnectionType, SameTalk
    <3> HIDE DEF g
    <3>6. Holds(g, q, n, q)
      BY <2>4, <3>1, <3>5 DEF Holds
    <3>7. Answers(g.out, g.vr) /\ Up(g) /\ g.vr = e.vr /\ g.up = e.up
      BY <2>5, <3>5, StillAnswers
    <3> QED
      BY <2>5, <3>4, <3>6, <3>7
  <2>8. CASE e.vs = e.va
    <3> DEFINE g == [e EXCEPT !.t3 = TRUE, !.st = "Connected"]
    <3>1. TimerRecovery_rr(c, f) = g
      BY <2>6, <2>8
    <3>2. g.va = e.va /\ g.vs = e.vs /\ g.iframe_resend_queue = e.iframe_resend_queue
          /\ g.out = e.out /\ g.vr = e.vr /\ g.up = e.up /\ g.modulus = e.modulus
          /\ g.st = "Connected"
      BY <2>4 DEF ConnectionType
    <3> HIDE DEF g
    <3>3. Holds(g, q, n, x)
      BY <2>4, <3>2, HoldsSame
    <3>4. Up(g) /\ Answers(g.out, g.vr)
      BY <2>5, <3>2 DEF Up, can_receive_data, ReceivingStates
    <3> QED
      BY <2>5, <3>1, <3>2, <3>3, <3>4
  <2> QED
    BY <2>7, <2>8
<1> QED
  BY <1>2, <1>3

\* An RR that acknowledges up to q serves.
LEMMA RrServes ==
    ASSUME NEW c, Good(c), Up(c), NEW b, NEW n, NEW x, Holds(c, b, n, x),
           NEW q \in b .. x, NEW f, f.nr = q % Modulus,
           f.poll \in BOOLEAN, f.command_response \in BOOLEAN
    PROVE  /\ Served(con_rr(c, f), q, n)
           /\ con_rr(c, f).vr = c.vr /\ con_rr(c, f).up = <<>>
<1> DEFINE s == start(c)
           d == dispatch_rr(s, f)
<1>1. Begun(s, b, n, x) /\ s.vr = c.vr
  BY StartHolds
<1>2. con_rr(c, f) = maybe_change_state(c, d)
  BY DEF con_rr
<1> HIDE DEF s
<1>3. Ready(d)
  BY <1>1, RrHandled DEF Begun, Handled
<1>4. \E y : Holds(d, q, n, y) /\ Up(d) /\ Answers(d.out, d.vr) /\ d.vr = s.vr /\ d.up = s.up
  <2>1. CASE s.st = "Connected"
    <3>1. d = Connected_rr(s, f)
      BY <2>1 DEF dispatch_rr
    <3> HIDE DEF d
    <3> QED
      BY <1>1, <2>1, <3>1, ConnectedRrHolds
  <2>2. CASE s.st = "TimerRecovery"
    <3>1. d = TimerRecovery_rr(s, f)
      BY <2>2 DEF dispatch_rr
    <3> HIDE DEF d
    <3> QED
      BY <1>1, <2>2, <3>1, RecoveryRrHolds
  <2> QED
    BY <1>1, <2>1, <2>2 DEF Begun, Up, can_receive_data, ReceivingStates
<1> HIDE DEF d
<1>5. PICK y : Serving(d, q, n, y)
  BY <1>3, <1>4 DEF Serving
<1>6. d.vr = s.vr /\ d.up = <<>>
  BY <1>1, <1>4 DEF Begun
<1>7. Served(maybe_change_state(c, d), q, n) /\ maybe_change_state(c, d).vr = d.vr
      /\ maybe_change_state(c, d).up = d.up
  BY <1>5, CallServes
<1> QED
  BY <1>1, <1>2, <1>6, <1>7

\* What an I frame f leaves of V(R) and of what is given to the application.
Heard(c, f, d) ==
    IF f.ns = c.vr THEN d.vr = (c.vr + 1) % Modulus /\ d.up = <<f.payload>>
                   ELSE d.vr = c.vr /\ d.up = <<>>

\* What an I frame carries is taken or refused: the marks of the other direction stay.
LEMMA ReceiveHolds ==
    ASSUME NEW c \in ConnectionType, Up(c), NEW b, NEW n, NEW x, Holds(c, b, n, x),
           c.out = <<>>, c.up = <<>>, NEW f, f.poll \in BOOLEAN, f.payload \in Payload
    PROVE  LET d == receive_iframe(c, f)
           IN  Holds(d, b, n, x) /\ Up(d) /\ Answers(d.out, d.vr) /\ Heard(c, f, d)
<1>1. c.modulus = Modulus /\ c.vr \in Nat
  BY DEF Up, ConnectionType
<1>2. CASE f.ns = c.vr
  <2> DEFINE d == [c EXCEPT !.vr = (@ + 1) % c.modulus, !.up = Append(@, f.payload)]
             e == [d EXCEPT !.acknowledge_pending = TRUE]
  <2>1. receive_iframe(c, f) = IF f.poll THEN enquiry_response(d, TRUE) ELSE e
    BY <1>2 DEF receive_iframe
  <2>2. Append(c.up, f.payload) = <<f.payload>> /\ <<f.payload>> \in Seq(Payload)
    OBVIOUS
  <2>3. (c.vr + 1) % c.modulus \in Nat
    <3>1. c.modulus \in Nat \ {0} /\ c.vr + 1 \in Int
      BY <1>1
    <3>2. (c.vr + 1) % c.modulus \in 0 .. c.modulus - 1
      BY <3>1, ModIn, Zenon
    <3> QED
      BY <3>1, <3>2
  <2>4. /\ d \in ConnectionType /\ e \in ConnectionType
        /\ d.va = c.va /\ d.vs = c.vs /\ d.iframe_resend_queue = c.iframe_resend_queue
        /\ d.st = c.st /\ d.modulus = c.modulus /\ d.out = <<>>
        /\ d.vr = (c.vr + 1) % Modulus /\ d.up = <<f.payload>>
    <3>1. d \in ConnectionType
      <4>1. Append(c.up, f.payload) \in Seq(Payload)
        BY <2>2
      <4> QED
        BY <2>3, <4>1 DEF ConnectionType
    <3>2. e \in ConnectionType
      <4> HIDE DEF d
      <4> QED
        BY <3>1 DEF ConnectionType
    <3> QED
      BY <1>1, <2>2, <3>1, <3>2 DEF ConnectionType
  <2> HIDE DEF d
  <2>5. /\ e.va = d.va /\ e.vs = d.vs /\ e.iframe_resend_queue = d.iframe_resend_queue
        /\ e.st = d.st /\ e.modulus = d.modulus /\ e.out = d.out
        /\ e.vr = d.vr /\ e.up = d.up
    BY <2>4 DEF ConnectionType
  <2> HIDE DEF e
  <2>6. Holds(d, b, n, x) /\ Holds(e, b, n, x)
    BY <2>4, <2>5, HoldsSame
  <2>7. Up(d) /\ Up(e)
    BY <2>4, <2>5 DEF Up, can_receive_data
  <2>8. Answers(d.out, d.vr) /\ Answers(e.out, e.vr)
    BY <2>4, <2>5, AnswersNothing
  <2>9. CASE f.poll
    <3> DEFINE g == enquiry_response(d, TRUE)
    <3>1. Holds(g, b, n, x) /\ Up(g) /\ Answers(g.out, g.vr) /\ g.vr = d.vr /\ g.up = d.up
      BY <2>4, <2>6, <2>7, <2>8, EnquiryHolds
    <3> HIDE DEF g
    <3>2. Heard(c, f, g)
      BY <1>2, <2>4, <3>1 DEF Heard
    <3> QED
      BY <2>1, <2>9, <3>1, <3>2 DEF g
  <2>10. CASE ~f.poll
    <3>1. Heard(c, f, e)
      BY <1>2, <2>4, <2>5 DEF Heard
    <3> QED
      BY <2>1, <2>6, <2>7, <2>8, <2>10, <3>1
  <2> QED
    BY <2>9, <2>10
<1>3. CASE f.ns # c.vr /\ c.reject_exception
  <2>1. Answers(c.out, c.vr) /\ Heard(c, f, c)
    BY <1>3, AnswersNothing DEF Heard
  <2>2. CASE f.poll
    <3> DEFINE g == enquiry_response(c, TRUE)
    <3>1. Holds(g, b, n, x) /\ Up(g) /\ Answers(g.out, g.vr) /\ g.vr = c.vr /\ g.up = c.up
      BY <2>1, EnquiryHolds
    <3> HIDE DEF g
    <3>2. Heard(c, f, g)
      BY <1>3, <3>1 DEF Heard
    <3> QED
      BY <1>3, <2>2, <3>1, <3>2 DEF g, receive_iframe
  <2>3. CASE ~f.poll
    BY <1>3, <2>1, <2>3 DEF receive_iframe
  <2> QED
    BY <2>2, <2>3
<1>4. CASE f.ns # c.vr /\ ~c.reject_exception
  <2> DEFINE r == Rej(f.poll, c.vr)
             s == send(c, r)
             d == [s EXCEPT !.reject_exception = TRUE, !.acknowledge_pending = FALSE]
  <2>1. receive_iframe(c, f) = d
    BY <1>4 DEF receive_iframe
  <2>2. Answer(r, c.vr)
    BY DEF Answer, Rej
  <2> HIDE DEF r
  <2>3. /\ d.va = c.va /\ d.vs = c.vs /\ d.iframe_resend_queue = c.iframe_resend_queue
        /\ d.st = c.st /\ d.modulus = c.modulus /\ d.out = Append(<<>>, r)
        /\ d.vr = c.vr /\ d.up = c.up
    BY DEF send, ConnectionType
  <2> HIDE DEF d, s
  <2>4. Holds(d, b, n, x)
    BY <2>3, HoldsSame
  <2>5. Up(d) /\ Heard(c, f, d)
    BY <1>4, <2>3 DEF Up, can_receive_data, Heard
  <2>6. <<>> \in Seq(Frame) /\ Answers(<<>>, c.vr)
    BY AnswersNothing
  <2>7. Answers(d.out, d.vr)
    BY <2>2, <2>3, <2>6, AnswersMore
  <2> QED
    BY <2>1, <2>4, <2>5, <2>7
<1> QED
  BY <1>2, <1>3, <1>4

\* An I frame that acknowledges up to q serves.
LEMMA IframeServes ==
    ASSUME NEW c, Good(c), Up(c), NEW b, NEW n, NEW x, Holds(c, b, n, x),
           NEW q \in b .. x, NEW f, f.nr = q % Modulus,
           f.poll \in BOOLEAN, f.command_response = TRUE, f.payload \in Payload \ Oversized
    PROVE  Served(con_iframe(c, f), q, n) /\ Heard(c, f, con_iframe(c, f))
<1> DEFINE s == start(c)
           d == dispatch_iframe(s, f)
           e == IF s.st = "Connected" THEN check_iframe_acked(s, q % Modulus)
                                      ELSE update_ack(s, q % Modulus)
           g == receive_iframe(e, f)
<1>1. Begun(s, b, n, x) /\ s.vr = c.vr
  BY StartHolds
<1>2. con_iframe(c, f) = maybe_change_state(c, d)
  BY DEF con_iframe
<1> HIDE DEF s
<1>3. Good(s) /\ Up(s) /\ Holds(s, b, n, x) /\ s \in ConnectionType /\ s.modulus = Modulus
      /\ s.out = <<>> /\ s.up = <<>>
  BY <1>1 DEF Begun, Good, Up
<1>4. Ready(d)
  <2>1. f.command_response \in BOOLEAN /\ f.payload \in Payload
    OBVIOUS
  <2> QED
    BY <1>3, <2>1, IframeHandled DEF Handled
<1>5. in_range(s, q % Modulus)
  BY <1>3, HeldDistances
<1>6. d = g
  BY <1>3, <1>5 DEF dispatch_iframe, ConnectedTimerRecovery_iframe, Up, can_receive_data
<1>7. Holds(e, q, n, x) /\ SameTalk(s, e) /\ e \in ConnectionType
  BY <1>3, UpdateAckHolds, AckedHolds
<1> HIDE DEF d, e
<1>8. Up(e) /\ e.out = <<>> /\ e.up = <<>> /\ e.vr = s.vr
  BY <1>3, <1>7 DEF SameTalk, Up, can_receive_data
<1>9. Holds(g, q, n, x) /\ Up(g) /\ Answers(g.out, g.vr) /\ Heard(e, f, g)
  BY <1>7, <1>8, ReceiveHolds
<1> HIDE DEF g
<1>10. Serving(d, q, n, x)
  BY <1>4, <1>6, <1>9 DEF Serving
<1>11. Served(maybe_change_state(c, d), q, n) /\ maybe_change_state(c, d).vr = d.vr
       /\ maybe_change_state(c, d).up = d.up
  BY <1>10, CallServes
<1>12. Heard(c, f, maybe_change_state(c, d))
  BY <1>1, <1>6, <1>8, <1>9, <1>11 DEF Heard
<1> QED
  BY <1>2, <1>11, <1>12

\* The next datum is stored behind those submitted before it.
LEMMA DataServes ==
    ASSUME NEW c, Good(c), Up(c), NEW b, NEW n, NEW x, Holds(c, b, n, x),
           NEW p \in Payload, p = n + 1
    PROVE  /\ Served(con_dl_data(c, p), b, n + 1)
           /\ con_dl_data(c, p).vr = c.vr /\ con_dl_data(c, p).up = <<>>
<1> DEFINE s == start(c)
           d == dispatch_dl_data(s, p)
<1>1. Begun(s, b, n, x) /\ s.vr = c.vr
  BY StartHolds
<1>2. con_dl_data(c, p) = maybe_change_state(c, d)
  BY DEF con_dl_data
<1> HIDE DEF s
<1>3. Good(s) /\ Up(s) /\ Holds(s, b, n, x) /\ s \in ConnectionType /\ s.modulus = Modulus
      /\ s.out = <<>> /\ s.up = <<>>
  BY <1>1 DEF Begun, Good, Up
<1>4. Ready(d)
  BY <1>3, DlDataHandled DEF Handled
<1>5. d = [s EXCEPT !.iframe_resend_queue = Append(@, p), !.iframe_queue = Append(@, p)]
  BY <1>3 DEF dispatch_dl_data, ConnectedTimerRecovery_dl_data, Up, can_receive_data
<1>6. /\ d.va = s.va /\ d.vs = s.vs /\ d.iframe_resend_queue = Append(s.iframe_resend_queue, p)
      /\ d.vr = s.vr /\ d.up = s.up /\ d.out = s.out /\ d.st = s.st /\ d.modulus = s.modulus
  BY <1>3, <1>5 DEF ConnectionType
<1> DEFINE t == s.iframe_resend_queue
           z == Append(t, p)
<1>0. t \in Seq(Payload)
  BY <1>3 DEF ConnectionType
<1>7. /\ b \in Nat /\ n \in Nat /\ x \in Nat /\ b <= x /\ x <= n /\ x <= b + K
      /\ Len(t) = n - b
      /\ (\A i \in 1 .. n - b : t[i] = b + i)
      /\ s.va = b % Modulus /\ s.vs = x % Modulus
  BY <1>3 DEF Holds
<1> HIDE DEF t
<1>8. /\ Len(z) = Len(t) + 1 /\ z[Len(t) + 1] = p
      /\ \A i \in 1 .. Len(t) : z[i] = t[i]
  BY <1>0, SMTT(30)
<1> HIDE DEF d, z
<1>9. Holds(d, b, n + 1, x)
  <2>1. d.iframe_resend_queue = z
    BY <1>6 DEF z, t
  <2>2. Len(z) = (n + 1) - b
    BY <1>7, <1>8
  <2>3. ASSUME NEW i \in 1 .. (n + 1) - b PROVE z[i] = b + i
    <3>1. i \in Int /\ n - b \in Nat /\ 1 <= i /\ i <= (n - b) + 1
      BY <1>7
    <3>2. CASE i = (n - b) + 1
      <4>1. z[i] = p
        BY <1>7, <1>8, <3>2
      <4>2. b + i = n + 1
        BY <1>7, <3>2
      <4> QED
        BY <4>1, <4>2
    <3>3. CASE i # (n - b) + 1
      <4>1. i \in 1 .. n - b
        BY <3>1, <3>3
      <4> QED
        BY <1>7, <1>8, <4>1
    <3> QED
      BY <3>2, <3>3
  <2>4. n + 1 \in Nat /\ x <= n + 1
    BY <1>7
  <2> QED
    BY <1>6, <1>7, <2>1, <2>2, <2>3, <2>4 DEF Holds
<1>10. Serving(d, b, n + 1, x)
  <2>1. Up(d) /\ Answers(d.out, d.vr)
    BY <1>3, <1>6, AnswersNothing DEF Up, can_receive_data
  <2> QED
    BY <1>4, <1>9, <2>1 DEF Serving
<1>11. Served(maybe_change_state(c, d), b, n + 1) /\ maybe_change_state(c, d).vr = d.vr
       /\ maybe_change_state(c, d).up = d.up
  BY <1>10, CallServes
<1> QED
  BY <1>1, <1>2, <1>3, <1>6, <1>11

------------------------------------------------------------------------------
(* Timers, the end of a link and its beginning, and calls that change      *)
(* nothing.                                                                *)

\* A link that has come down says at most f.
Ended(g, c, f) ==
    /\ ~can_receive_data(g) /\ g.st # "AwaitingConnection"
    /\ g.out = <<>> \/ g.out = <<f>>
    /\ g.up = <<>> /\ g.vr = c.vr
    /\ c.st = "Disconnected" => g.st = "Disconnected"

\* T1 expires on a link that is up: an enquiry, or the end of the link.
LEMMA Timer1Serves ==
    ASSUME NEW c, Good(c), Up(c), c.t1, NEW b, NEW n, NEW x, Holds(c, b, n, x), NEW f
    PROVE  \/ /\ Served(con_timer1_tick(c), b, n)
              /\ con_timer1_tick(c).vr = c.vr /\ con_timer1_tick(c).up = <<>>
           \/ Ended(con_timer1_tick(c), c, f)
<1> DEFINE s == start(c)
           e == [s EXCEPT !.t1 = FALSE]
           d == dispatch_timer1_tick(e)
           r == Rr(TRUE, e.vr, TRUE)
<1>1. Begun(s, b, n, x) /\ s.vr = c.vr /\ s.st = c.st /\ s.t1 = c.t1
  BY StartHolds
<1>2. con_timer1_tick(c) = maybe_change_state(c, d)
  BY DEF con_timer1_tick
<1> HIDE DEF s
<1>3. Good(s) /\ Up(s) /\ Holds(s, b, n, x) /\ s \in ConnectionType /\ s.out = <<>> /\ s.up = <<>>
  BY <1>1 DEF Begun, Good
<1>4. Handled(e, d)
  BY <1>1, <1>3, Timer1Handled
<1>5. /\ e.va = s.va /\ e.vs = s.vs /\ e.iframe_resend_queue = s.iframe_resend_queue
      /\ e.vr = s.vr /\ e.out = <<>> /\ e.up = <<>> /\ e.st = s.st /\ e.modulus = s.modulus
      /\ e \in ConnectionType
  BY <1>3 DEF ConnectionType
<1> HIDE DEF e
<1>6. Ready(d) /\ ~d.aborted
  BY <1>4 DEF Handled, Ready
<1>7. Answer(r, e.vr)
  BY DEF Answer, Rr
<1>8. CASE d.st = "TimerRecovery" /\ d.out = Append(<<>>, r)
           /\ d.va = e.va /\ d.vs = e.vs /\ d.iframe_resend_queue = e.iframe_resend_queue
           /\ d.vr = e.vr /\ d.up = e.up /\ d.modulus = e.modulus
  <2> HIDE DEF r, d
  <2>1. Holds(d, b, n, x)
    BY <1>3, <1>5, <1>8, HoldsSame
  <2>2. <<>> \in Seq(Frame) /\ Answers(<<>>, e.vr)
    BY AnswersNothing
  <2>3. Answers(d.out, d.vr)
    BY <1>7, <1>8, <2>2, AnswersMore
  <2>4. Up(d)
    BY <1>3, <1>5, <1>8 DEF Up, can_receive_data, ReceivingStates
  <2>5. Serving(d, b, n, x)
    BY <1>6, <2>1, <2>3, <2>4 DEF Serving
  <2> QED
    BY <1>1, <1>2, <1>5, <1>8, <2>5, CallServes
<1>9. CASE d = [e EXCEPT !.st = "Disconnected"]
  <2>1. d.st = "Disconnected" /\ d.out = <<>> /\ d.up = <<>> /\ d.vr = e.vr
    BY <1>5, <1>9 DEF ConnectionType
  <2> HIDE DEF d
  <2>2. maybe_change_state(c, d) = d
    BY <1>6, <2>1 DEF maybe_change_state, dl_data_poll, ReceivingStates
  <2> QED
    BY <1>1, <1>2, <1>5, <2>1, <2>2 DEF Ended, can_receive_data, ReceivingStates
<1>10. CASE e.st = "Connected"
  <2>1. d = [transmit_enquiry(e) EXCEPT !.rc = 1, !.st = "TimerRecovery"]
    BY <1>10 DEF dispatch_timer1_tick, Connected_timer1_tick
  <2> HIDE DEF d
  <2>2. /\ d.st = "TimerRecovery" /\ d.out = Append(e.out, r)
        /\ d.va = e.va /\ d.vs = e.vs /\ d.iframe_resend_queue = e.iframe_resend_queue
        /\ d.vr = e.vr /\ d.up = e.up /\ d.modulus = e.modulus
    BY <1>5, <2>1 DEF transmit_enquiry, send, ConnectionType
  <2> QED
    BY <1>5, <1>8, <2>2 DEF d
<1>11. CASE e.st = "TimerRecovery"
  <2>1. CASE e.rc # e.n2
    <3>1. d = [transmit_enquiry(e) EXCEPT !.rc = @ + 1]
      BY <1>11, <2>1 DEF dispatch_timer1_tick, TimerRecovery_timer1_tick
    <3> HIDE DEF d
    <3>2. /\ d.st = "TimerRecovery" /\ d.out = Append(e.out, r)
          /\ d.va = e.va /\ d.vs = e.vs /\ d.iframe_resend_queue = e.iframe_resend_queue
          /\ d.vr = e.vr /\ d.up = e.up /\ d.modulus = e.modulus
      BY <1>5, <1>11, <3>1 DEF transmit_enquiry, send, ConnectionType
    <3> QED
      BY <1>5, <1>8, <3>2 DEF d
  <2>2. CASE e.rc = e.n2
    BY <1>9, <1>11, <2>2 DEF dispatch_timer1_tick, TimerRecovery_timer1_tick
  <2> QED
    BY <2>1, <2>2
<1> QED
  BY <1>1, <1>3, <1>5, <1>10, <1>11 DEF Up, can_receive_data, ReceivingStates

\* A DISC takes the link down, and a UA answers it.
LEMMA DiscEnds ==
    ASSUME NEW c, Good(c), can_receive_data(c), NEW pf \in BOOLEAN
    PROVE  Ended(con_disc(c, pf), c, Ua(pf))
<1> DEFINE s == start(c)
           d == dispatch_disc(s, pf)
<1>1. Good(s) /\ s.out = <<>> /\ s.up = <<>> /\ s.vr = c.vr /\ s.st = c.st /\ s \in ConnectionType
  BY StartGood DEF start, Good, ConnectionType
<1> HIDE DEF s
<1>2. Ready(d)
  BY <1>1, DiscHandled DEF Handled
<1>3. d = ConnectedTimerRecovery_disc(s, pf)
  BY <1>1 DEF dispatch_disc, can_receive_data, ReceivingStates
<1> HIDE DEF d
<1>4. d.st = "Disconnected" /\ d.out = Append(<<>>, Ua(pf)) /\ d.up = <<>> /\ d.vr = c.vr
  BY <1>1, <1>3 DEF ConnectedTimerRecovery_disc, send, clear_iframe_queue, ConnectionType
<1>5. con_disc(c, pf) = d
  BY <1>2, <1>4 DEF con_disc, maybe_change_state, dl_data_poll, Ready, ReceivingStates, d, s
<1>6. Append(<<>>, Ua(pf)) = <<Ua(pf)>>
  OBVIOUS
<1>7. d.out = <<Ua(pf)>>
  BY <1>4, <1>6, Zenon
<1> QED
  BY <1>4, <1>5, <1>7 DEF Ended, can_receive_data, ReceivingStates

\* The application closes a link that is up.
LEMMA DlDisconnectEnds ==
    ASSUME NEW c, Good(c), can_receive_data(c)
    PROVE  Ended(con_dl_disconnect(c), c, Disc(TRUE))
<1> DEFINE s == start(c)
           d == dispatch_dl_disconnect(s)
<1>1. Good(s) /\ s.out = <<>> /\ s.up = <<>> /\ s.vr = c.vr /\ s.st = c.st /\ s \in ConnectionType
  BY StartGood DEF start, Good, ConnectionType
<1> HIDE DEF s
<1>2. Ready(d)
  BY <1>1, DlDisconnectHandled DEF Handled
<1>3. d = ConnectedTimerRecovery_dl_disconnect(s)
  BY <1>1 DEF dispatch_dl_disconnect, can_receive_data
<1> HIDE DEF d
<1>4. d.st = "AwaitingRelease" /\ d.out = Append(<<>>, Disc(TRUE)) /\ d.up = <<>> /\ d.vr = c.vr
  BY <1>1, <1>3 DEF ConnectedTimerRecovery_dl_disconnect, send, clear_iframe_queue, ConnectionType
<1>5. con_dl_disconnect(c) = d
  BY <1>2, <1>4 DEF con_dl_disconnect, maybe_change_state, dl_data_poll, Ready, ReceivingStates, d, s
<1>6. Append(<<>>, Disc(TRUE)) = <<Disc(TRUE)>>
  OBVIOUS
<1>7. d.out = <<Disc(TRUE)>>
  BY <1>4, <1>6, Zenon
<1> QED
  BY <1>4, <1>5, <1>7 DEF Ended, can_receive_data, ReceivingStates
\* A call that says nothing and moves no mark.
Still(c, g) ==
    /\ g.st = c.st /\ g.modulus = c.modulus
    /\ g.va = c.va /\ g.vs = c.vs /\ g.vr = c.vr
    /\ g.iframe_resend_queue = c.iframe_resend_queue
    /\ g.out = <<>> /\ g.up = <<>>

\* When the window is used up, the poll sends nothing.
LEMMA QuietPoll ==
    ASSUME NEW c, Ready(c), Up(c), NEW b, NEW n, Holds(c, b, n, Full(b, n))
    PROVE  /\ dl_data_poll(c).va = c.va /\ dl_data_poll(c).vs = c.vs
           /\ dl_data_poll(c).iframe_resend_queue = c.iframe_resend_queue
           /\ dl_data_poll(c).out = c.out /\ dl_data_poll(c).up = c.up
           /\ dl_data_poll(c).vr = c.vr /\ dl_data_poll(c).st = c.st
           /\ dl_data_poll(c).modulus = c.modulus
<1> DEFINE x == Full(b, n)
<1>1. sendable(c) = 0
  <2>1. sendable(c) \in Nat /\ x + sendable(c) = x
    BY QueueHolds
  <2>2. x \in Nat
    BY DEF Holds
  <2> HIDE DEF x
  <2> QED
    BY <2>1, <2>2
<1>2. c \in ConnectionType /\ c.modulus = Modulus /\ c.vs = x % Modulus /\ x \in Nat
  BY DEF Ready, Up, Holds
<1> HIDE DEF x
<1> DEFINE y == [i \in 1 .. 0 |-> queued_iframe(c, i)]
           d == transmit(c, 0)
           v == (c.vs + 0) % c.modulus
<1>3. y = <<>>
  OBVIOUS
<1>4. c.out \o <<>> = c.out
  BY <1>2 DEF ConnectionType
<1>5. v = c.vs
  <2>1. x % Modulus \in 0 .. Modulus - 1 /\ Modulus \in Nat \ {0}
    BY <1>2, ModIn
  <2>2. c.vs + 0 = c.vs
    BY <1>2, <2>1
  <2>3. c.vs % Modulus = c.vs
    BY <1>2, <2>1, ModPlain, Zenon
  <2> QED
    BY <1>2, <2>2, <2>3, Zenon
<1>6. dl_data_poll(c) = d
  BY <1>1 DEF dl_data_poll, Up, can_receive_data
<1> HIDE DEF y, v
<1>7. /\ d.va = c.va /\ d.vs = v /\ d.iframe_resend_queue = c.iframe_resend_queue
      /\ d.out = c.out \o y /\ d.up = c.up /\ d.vr = c.vr /\ d.st = c.st
      /\ d.modulus = c.modulus
  BY <1>2 DEF transmit, ConnectionType, y, v
<1> HIDE DEF d
<1> QED
  BY <1>3, <1>4, <1>5, <1>6, <1>7

\* What the poll makes of a handler's result when the link is down.
LEMMA DownPoll ==
    ASSUME NEW c, NEW d, Ready(d), ~can_receive_data(d)
    PROVE  maybe_change_state(c, d) = d
  BY DEF maybe_change_state, dl_data_poll, can_receive_data, Ready

\* To begin a call is to change nothing that counts.
LEMMA StartStill ==
    ASSUME NEW c, Good(c)
    PROVE  Still(c, start(c))
  BY DEF Still, start, Good, ConnectionType

\* T3 expires, and nothing is said.
LEMMA Timer3Still ==
    ASSUME NEW c, Good(c), NEW b, NEW n, Up(c) => Holds(c, b, n, Full(b, n)),
           can_receive_data(c) => c.modulus = Modulus
    PROVE  Still(c, con_timer3_tick(c))
<1> DEFINE s == start(c)
           d == [s EXCEPT !.t3 = FALSE]
<1>1. Good(s) /\ Still(c, s)
  BY StartGood, StartStill
<1>2. con_timer3_tick(c) = maybe_change_state(c, d)
  BY DEF con_timer3_tick
<1> HIDE DEF s
<1>3. Ready(d) /\ ~d.aborted
  BY <1>1, Timer3Handled DEF Handled, Ready
<1>4. Still(c, d)
  BY <1>1 DEF Good, ConnectionType, Still
<1> HIDE DEF d
<1>5. CASE ~can_receive_data(c)
  <2>1. ~can_receive_data(d)
    BY <1>4, <1>5 DEF Still, can_receive_data
  <2> QED
    BY <1>2, <1>3, <1>4, <2>1, DownPoll
<1>6. CASE can_receive_data(c)
  <2>1. Up(c) /\ Up(d)
    BY <1>4, <1>6 DEF Still, can_receive_data, Up
  <2>2. Holds(d, b, n, Full(b, n))
    BY <1>4, <2>1, HoldsSame DEF Still
  <2>3. con_timer3_tick(c) = dl_data_poll(d)
    BY <1>2, <1>3 DEF maybe_change_state
  <2> QED
    BY <1>3, <1>4, <2>1, <2>2, <2>3, QuietPoll DEF Still
<1> QED
  BY <1>5, <1>6

\* A link that has come up: nothing is submitted, sent or heard.
Risen(g) == Up(g) /\ Holds(g, 0, 0, 0) /\ g.up = <<>> /\ g.vr = 0

\* The poll has nothing to send on a link that comes up with empty queues.
LEMMA QuietRise ==
    ASSUME NEW c, Ready(c), Up(c), Holds(c, 0, 0, 0), c.up = <<>>, c.vr = 0
    PROVE  Risen(dl_data_poll(c)) /\ dl_data_poll(c).out = c.out
<1>1. Full(0, 0) = 0
  BY DEF Full
<1> DEFINE d == dl_data_poll(c)
<1>2. /\ d.va = c.va /\ d.vs = c.vs /\ d.iframe_resend_queue = c.iframe_resend_queue
      /\ d.out = c.out /\ d.up = c.up /\ d.vr = c.vr /\ d.st = c.st /\ d.modulus = c.modulus
  BY <1>1, QuietPoll
<1> HIDE DEF d
<1>3. Holds(d, 0, 0, 0) /\ Up(d)
  BY <1>2, HoldsSame DEF Up, can_receive_data
<1> QED
  BY <1>2, <1>3 DEF Risen, d

\* A link set up with empty queues holds nothing.
LEMMA EmptyHolds ==
    ASSUME NEW c, c.va = 0, c.vs = 0, c.iframe_resend_queue = <<>>
    PROVE  Holds(c, 0, 0, 0)
<1>1. 0 % Modulus = 0
  BY ModPlain
<1>2. Len(<<>>) = 0
  OBVIOUS
<1> QED
  BY <1>1, <1>2 DEF Holds

\* A SABM that finds an end in its wait takes the link up; the UA says so.
LEMMA SabmRises ==
    ASSUME NEW c, Good(c), Fresh(c), NEW pf \in BOOLEAN,
           c.st \in {"Disconnected", "Connected"},
           c.st = "Connected" => c.modulus = Modulus
    PROVE  Risen(con_sabm(c, pf)) /\ con_sabm(c, pf).out = <<Ua(pf)>>
<1> DEFINE s == start(c)
           d == dispatch_sabm(s, pf)
           u == Ua(pf)
<1>1. Good(s) /\ Fresh(s) /\ s.out = <<>> /\ s.up = <<>> /\ s.st = c.st
      /\ s.modulus = c.modulus /\ s \in ConnectionType
  BY StartGood DEF start, Good, ConnectionType
<1>0. con_sabm(c, pf) = maybe_change_state(c, d)
  BY DEF con_sabm
<1> HIDE DEF s
<1>2. Handled(s, d)
  <2>1. CASE s.st = "Disconnected"
    BY <1>1, <2>1, SabmHandled DEF dispatch_sabm
  <2>2. CASE s.st = "Connected"
    BY <1>1, <2>2, ConnectedSabmHandled DEF dispatch_sabm
  <2> QED
    BY <1>1, <2>1, <2>2
<1> HIDE DEF u
<1>3. /\ d.st = "Connected" /\ d.modulus = Modulus /\ d.va = 0 /\ d.vs = 0 /\ d.vr = 0
      /\ d.iframe_resend_queue = <<>> /\ d.up = <<>> /\ d.out = Append(<<>>, u)
  <2>1. CASE s.st = "Disconnected"
    BY <1>1, <2>1 DEF dispatch_sabm, Disconnected_sabm, clear_exception_conditions,
       send, set_version, Fresh, ConnectionType, u
  <2>2. CASE s.st = "Connected"
    BY <1>1, <2>2 DEF dispatch_sabm, Connected_sabm, clear_exception_conditions,
       send, clear_iframe_queue, Fresh, ConnectionType, u
  <2> QED
    BY <1>1, <2>1, <2>2
<1>4. Ready(d) /\ ~d.aborted
  BY <1>2 DEF Handled, Ready
<1> HIDE DEF d
<1>5. Holds(d, 0, 0, 0)
  BY <1>3, EmptyHolds
<1>6. Up(d)
  BY <1>3 DEF Up, can_receive_data, ReceivingStates
<1>7. con_sabm(c, pf) = dl_data_poll(d)
  BY <1>0, <1>4 DEF maybe_change_state
<1>8. Append(<<>>, u) = <<u>>
  OBVIOUS
<1>9. Risen(dl_data_poll(d)) /\ dl_data_poll(d).out = d.out
  BY <1>3, <1>4, <1>5, <1>6, QuietRise
<1> QED
  BY <1>3, <1>7, <1>8, <1>9 DEF u

\* A UA with the final bit ends the wait of an end that has sent SABM; another UA
\* changes nothing.
LEMMA UaRises ==
    ASSUME NEW c, Good(c), c.st = "AwaitingConnection", c.modulus = Modulus,
           Holds(c, 0, 0, 0), c.vr = 0, NEW pf \in BOOLEAN
    PROVE  /\ con_ua(c, pf).out = <<>>
           /\ IF pf THEN Risen(con_ua(c, pf)) ELSE con_ua(c, pf) = start(c)
<1> DEFINE s == start(c)
           d == dispatch_ua(s, pf)
<1>1. /\ Good(s) /\ s.out = <<>> /\ s.up = <<>> /\ s.st = c.st /\ s.vr = c.vr
      /\ s.va = c.va /\ s.vs = c.vs /\ s.iframe_resend_queue = c.iframe_resend_queue
      /\ s.modulus = c.modulus /\ s \in ConnectionType
  BY StartGood DEF start, Good, ConnectionType
<1>0. con_ua(c, pf) = maybe_change_state(c, d)
  BY DEF con_ua
<1>11. s = start(c)
  OBVIOUS
<1> HIDE DEF s
<1>2. Ready(d) /\ ~d.aborted
  BY <1>1, UaHandled DEF Handled, Ready
<1>3. d = AwaitingConnection_ua(s, pf)
  BY <1>1 DEF dispatch_ua, ReceivingStates
<1>4. s.va = 0 /\ s.vs = 0 /\ s.iframe_resend_queue = <<>>
  <2>1. 0 % Modulus = 0
    BY ModPlain
  <2>2. s.iframe_resend_queue \in Seq(Payload) /\ Len(s.iframe_resend_queue) = 0
    BY <1>1 DEF Holds, ConnectionType
  <2> QED
    BY <1>1, <2>1, <2>2 DEF Holds
<1> HIDE DEF d
<1>5. CASE ~pf
  <2>1. d = s
    BY <1>3, <1>5 DEF AwaitingConnection_ua
  <2>2. con_ua(c, pf) = s
    BY <1>0, <1>1, <1>2, <2>1 DEF maybe_change_state, dl_data_poll, ReceivingStates
  <2> QED
    BY <1>1, <1>5, <1>11, <2>2
<1>6. CASE pf
  <2>1. /\ d.st = "Connected" /\ d.va = 0 /\ d.vs = 0 /\ d.vr = 0 /\ d.modulus = Modulus
        /\ d.out = <<>> /\ d.up = <<>> /\ d.iframe_resend_queue = <<>>
    BY <1>1, <1>3, <1>4, <1>6 DEF AwaitingConnection_ua, clear_iframe_queue, ConnectionType
  <2>2. Holds(d, 0, 0, 0)
    BY <2>1, EmptyHolds
  <2>3. Up(d)
    BY <2>1 DEF Up, can_receive_data, ReceivingStates
  <2>4. con_ua(c, pf) = dl_data_poll(d)
    BY <1>0, <1>2 DEF maybe_change_state
  <2>5. Risen(dl_data_poll(d)) /\ dl_data_poll(d).out = d.out
    BY <1>2, <2>1, <2>2, <2>3, QuietRise
  <2> QED
    BY <1>6, <2>1, <2>4, <2>5
<1> QED
  BY <1>5, <1>6
\* An end calls: a SABM goes out, and the marks stay.
Calling(c, g) ==
    /\ g.st = "AwaitingConnection" /\ g.modulus = Modulus
    /\ g.va = c.va /\ g.vs = c.vs /\ g.vr = c.vr
    /\ g.iframe_resend_queue = c.iframe_resend_queue
    /\ g.out = <<Sabm(TRUE)>> /\ g.up = <<>>

\* dl_connect on a link that is down sends a SABM and waits for the answer.
LEMMA ConnectCalls ==
    ASSUME NEW c, Good(c), Fresh(c), c.st = "Disconnected"
    PROVE  Calling(c, con_dl_connect(c))
<1> DEFINE s == start(c)
           d == dispatch_dl_connect(s)
           u == Sabm(TRUE)
<1>1. Good(s) /\ Fresh(s) /\ Still(c, s) /\ s \in ConnectionType
  BY StartGood, StartStill DEF Good
<1>2. con_dl_connect(c) = maybe_change_state(c, d)
  BY DEF con_dl_connect
<1> HIDE DEF s, u
<1>3. Ready(d)
  BY <1>1, DlConnectHandled DEF Handled
<1>4. d = Disconnected_dl_connect(s)
  BY <1>1 DEF dispatch_dl_connect, Still
<1> HIDE DEF d
<1>5. /\ d.st = "AwaitingConnection" /\ d.modulus = Modulus
      /\ d.va = s.va /\ d.vs = s.vs /\ d.vr = s.vr
      /\ d.iframe_resend_queue = s.iframe_resend_queue
      /\ d.out = Append(s.out, u) /\ d.up = s.up
  BY <1>1, <1>4 DEF Disconnected_dl_connect, reestablish, establish_data_link, send,
     clear_exception_conditions, ConnectionType, u
<1>6. Append(<<>>, u) = <<u>>
  OBVIOUS
<1>7. ~can_receive_data(d)
  BY <1>5 DEF can_receive_data, ReceivingStates
<1>8. con_dl_connect(c) = d
  BY <1>2, <1>3, <1>7, DownPoll
<1>9. d.out = <<u>> /\ d.up = <<>>
  BY <1>1, <1>5, <1>6 DEF Still
<1> QED
  BY <1>1, <1>5, <1>8, <1>9 DEF Calling, Still, u

\* T1 expires on an end that calls: it calls again or gives up.
LEMMA Timer1Calls ==
    ASSUME NEW c, Good(c), c.t1, c.st = "AwaitingConnection", c.modulus = Modulus, NEW f
    PROVE  Calling(c, con_timer1_tick(c)) \/ Ended(con_timer1_tick(c), c, f)
<1> DEFINE s == start(c)
           e == [s EXCEPT !.t1 = FALSE]
           d == dispatch_timer1_tick(e)
           u == Sabm(TRUE)
<1>1. Good(s) /\ Still(c, s) /\ s \in ConnectionType /\ s.t1 = c.t1
  BY StartGood, StartStill DEF Good, start, ConnectionType
<1>2. con_timer1_tick(c) = maybe_change_state(c, d)
  BY DEF con_timer1_tick
<1> HIDE DEF s, u
<1>3. Ready(d)
  BY <1>1, Timer1Handled DEF Handled
<1>4. Still(c, e) /\ e \in ConnectionType /\ e.st = "AwaitingConnection" /\ e.modulus = Modulus
  BY <1>1 DEF Still, ConnectionType
<1> HIDE DEF e
<1>5. d = AwaitingConnection_timer1_tick(e)
  BY <1>4 DEF dispatch_timer1_tick
<1> HIDE DEF d
<1>6. CASE e.rc = e.n2
  <2>1. d.st = "Disconnected" /\ d.out = e.out /\ d.up = e.up /\ d.vr = e.vr
    BY <1>4, <1>5, <1>6 DEF AwaitingConnection_timer1_tick, clear_iframe_queue, ConnectionType
  <2>2. con_timer1_tick(c) = d
    BY <1>2, <1>3, <2>1, DownPoll DEF can_receive_data, ReceivingStates
  <2> QED
    BY <1>4, <2>1, <2>2 DEF Ended, Still, can_receive_data, ReceivingStates
<1>7. CASE e.rc # e.n2
  <2>1. /\ d.st = e.st /\ d.modulus = e.modulus /\ d.va = e.va /\ d.vs = e.vs /\ d.vr = e.vr
        /\ d.iframe_resend_queue = e.iframe_resend_queue
        /\ d.out = Append(e.out, u) /\ d.up = e.up
    BY <1>4, <1>5, <1>7 DEF AwaitingConnection_timer1_tick, send, ConnectionType, u
  <2>2. con_timer1_tick(c) = d
    BY <1>2, <1>3, <1>4, <2>1, DownPoll DEF can_receive_data, ReceivingStates
  <2>3. Append(<<>>, u) = <<u>>
    OBVIOUS
  <2>4. d.out = <<u>> /\ d.up = <<>>
    BY <1>4, <2>1, <2>3 DEF Still
  <2> QED
    BY <1>4, <2>1, <2>2, <2>4 DEF Calling, Still, u
<1> QED
  BY <1>6, <1>7

\* A link that is down ignores T1.
LEMMA Timer1Still ==
    ASSUME NEW c, Good(c), c.t1, ~can_receive_data(c), c.st # "AwaitingConnection"
    PROVE  Still(c, con_timer1_tick(c))
<1> DEFINE s == start(c)
           e == [s EXCEPT !.t1 = FALSE]
           d == dispatch_timer1_tick(e)
<1>1. Good(s) /\ Still(c, s) /\ s \in ConnectionType /\ s.t1 = c.t1
  BY StartGood, StartStill DEF Good, start, ConnectionType
<1>2. con_timer1_tick(c) = maybe_change_state(c, d)
  BY DEF con_timer1_tick
<1> HIDE DEF s
<1>3. Ready(d)
  BY <1>1, Timer1Handled DEF Handled
<1>4. Still(c, e)
  BY <1>1 DEF Still, ConnectionType
<1> HIDE DEF e
<1>5. d = e
  BY <1>4 DEF dispatch_timer1_tick, Still, can_receive_data, ReceivingStates
<1>6. ~can_receive_data(d)
  BY <1>4, <1>5 DEF can_receive_data, Still
<1> HIDE DEF d
<1>7. con_timer1_tick(c) = d
  BY <1>2, <1>3, <1>6, DownPoll
<1> QED
  BY <1>4, <1>5, <1>7

\* What a link that is down makes of calls, and of frames.
LEMMA DownStill ==
    ASSUME NEW c, Good(c), ~can_receive_data(c)
    PROVE  /\ \A f : Still(c, con_rr(c, f)) /\ Still(c, con_iframe(c, f))
           /\ \A p : Still(c, con_dl_data(c, p))
           /\ Still(c, con_dl_disconnect(c))
           /\ \A p : c.st # "AwaitingConnection" => Still(c, con_ua(c, p))
           /\ \A p : IF c.st = "Disconnected" THEN Ended(con_disc(c, p), c, Dm(p))
                                              ELSE Still(c, con_disc(c, p))
<1> DEFINE s == start(c)
<1>1. Good(s) /\ Still(c, s) /\ s \in ConnectionType /\ ~can_receive_data(s) /\ Ready(s)
  BY StartGood, StartStill DEF Good, Still, can_receive_data
<1>2. s = start(c)
  OBVIOUS
<1> HIDE DEF s
<1>3. maybe_change_state(c, s) = s
  BY <1>1, DownPoll
<1>4. \A f : dispatch_rr(s, f) = s /\ dispatch_iframe(s, f) = s
  BY <1>1 DEF dispatch_rr, dispatch_iframe, can_receive_data, ReceivingStates
<1>5. (\A p : dispatch_dl_data(s, p) = s) /\ dispatch_dl_disconnect(s) = s
  BY <1>1 DEF dispatch_dl_data, dispatch_dl_disconnect, can_receive_data
<1>6. ASSUME c.st # "AwaitingConnection" PROVE \A p : dispatch_ua(s, p) = s
  BY <1>1, <1>6 DEF dispatch_ua, can_receive_data, Still
<1>7. ASSUME c.st # "Disconnected" PROVE \A p : dispatch_disc(s, p) = s
  BY <1>1, <1>7 DEF dispatch_disc, can_receive_data, Still
<1>8. ASSUME c.st = "Disconnected", NEW p PROVE Ended(con_disc(c, p), c, Dm(p))
  <2> DEFINE u == Dm(p)
             d == send(s, u)
  <2>1. dispatch_disc(s, p) = d
    BY <1>1, <1>8 DEF dispatch_disc, Disconnected_disc, Still, ReceivingStates
  <2> HIDE DEF u
  <2>2. d.st = s.st /\ d.out = Append(s.out, u) /\ d.up = s.up /\ d.vr = s.vr
        /\ d.aborted = s.aborted
    BY <1>1 DEF send, ConnectionType
  <2> HIDE DEF d
  <2>3. con_disc(c, p) = d
    BY <1>1, <1>2, <1>8, <2>1, <2>2 DEF con_disc, maybe_change_state, dl_data_poll, Ready, Still,
       ReceivingStates
  <2>4. Append(<<>>, u) = <<u>>
    OBVIOUS
  <2>5. d.out = <<u>> /\ d.up = <<>> /\ d.vr = c.vr /\ d.st = "Disconnected"
    BY <1>1, <1>8, <2>2, <2>4 DEF Still
  <2> QED
    BY <2>3, <2>5 DEF Ended, can_receive_data, ReceivingStates, u
<1> QED
  BY <1>1, <1>2, <1>3, <1>4, <1>5, <1>6, <1>7, <1>8
     DEF con_rr, con_iframe, con_dl_data, con_dl_disconnect, con_ua, con_disc

------------------------------------------------------------------------------
(* What is under way: the numbers that the acknowledgements stand for, and *)
(* the data between what was heard and what was sent.                      *)

\* w1 is what w and then out are, as far as there was room.
Onto(w1, w, out) ==
    /\ w1 \in Seq(Frame) /\ w \in Seq(Frame) /\ out \in Seq(Frame)
    /\ \A i \in 1 .. Len(w1) : IF i <= Len(w) THEN w1[i] = w[i]
                               ELSE i - Len(w) \in 1 .. Len(out) /\ w1[i] = out[i - Len(w)]

\* Number r read as the first number from b on that has it.
Place(b, r) == b + ((r - b) % Modulus)

\* The frames of a live link that acknowledge by their N(R).
Acks(f) == f.type \in {"rr", "iframe"}

\* The acknowledgements in v are of data heard up to l, in the order they were
\* heard, seen by an end that knows of those up to b.
AcksFit(v, b, l) ==
    \A i \in 1 .. Len(v) : Acks(v[i]) =>
        /\ v[i].nr \in 0 .. Modulus - 1
        /\ Place(b, v[i].nr) <= l
        /\ \A j \in 1 .. i - 1 : Acks(v[j]) => Place(b, v[j].nr) <= Place(b, v[i].nr)

\* The data in w are of those 1 .. n that were submitted, under their numbers, and
\* within a window of each other and of the l that were heard.
DataFit(w, n, l) ==
    \A i \in 1 .. Len(w) : w[i].type = "iframe" =>
        /\ w[i].payload \in 1 .. n
        /\ w[i].ns = (w[i].payload - 1) % Modulus
        /\ w[i].payload <= l + K /\ l <= w[i].payload - 1 + K
        /\ \A j \in 1 .. i - 1 : w[j].type = "iframe" => w[j].payload <= w[i].payload - 1 + K

\* No datum in w is beyond x.
Below(w, x) == \A i \in 1 .. Len(w) : w[i].type = "iframe" => w[i].payload <= x

\* The number that a remainder stands for, seen from b: within a turn of b it is
\* the number itself.
LEMMA PlaceIs ==
    ASSUME NEW b \in Nat, NEW q \in Nat, b <= q, q < b + Modulus
    PROVE  Place(b, q % Modulus) = q /\ q % Modulus \in 0 .. Modulus - 1
<1>1. b \in Int /\ q \in Int /\ Modulus \in Nat \ {0}
  OBVIOUS
<1>2. ((q % Modulus) - b) % Modulus = q - b
  BY <1>1, UnwrappedIs, Zenon
<1>3. q % Modulus \in 0 .. Modulus - 1
  BY <1>1, ModIn, Zenon
<1> QED
  BY <1>2, <1>3 DEF Place

\* There is just one such number.
LEMMA PlaceAt ==
    ASSUME NEW b \in Nat, NEW r \in 0 .. Modulus - 1
    PROVE  /\ Place(b, r) \in Nat /\ b <= Place(b, r) /\ Place(b, r) < b + Modulus
           /\ Place(b, r) % Modulus = r
<1>1. b \in Int /\ Modulus \in Nat \ {0}
  OBVIOUS
<1>2. LET y == b + ((r - b) % Modulus)
      IN  y \in Int /\ b <= y /\ y < b + Modulus /\ y % Modulus = r
  BY <1>1, Unwrapped, Zenon
<1>3. Place(b, r) \in Int /\ b <= Place(b, r) /\ Place(b, r) < b + Modulus /\ Place(b, r) % Modulus = r
  BY <1>2, Zenon DEF Place
<1> QED
  BY <1>3

\* Seen from q, a number from q on and within a turn of b has the same place.
LEMMA PlaceFrom ==
    ASSUME NEW b \in Nat, NEW r \in 0 .. Modulus - 1, NEW q \in Nat, b <= q, q <= Place(b, r)
    PROVE  Place(q, r) = Place(b, r)
<1> DEFINE p == Place(b, r)
<1>1. p \in Nat /\ p < b + Modulus /\ p % Modulus = r
  BY PlaceAt
<1>2. q <= p
  OBVIOUS
<1> HIDE DEF p
<1>3. p < q + Modulus
  BY <1>1
<1>4. Place(q, p % Modulus) = p
  BY <1>1, <1>2, <1>3, PlaceIs
<1> QED
  BY <1>1, <1>4 DEF p

\* The rest of what is under way.
LEMMA TailIs ==
    ASSUME NEW w \in Seq(Frame), w # <<>>
    PROVE  /\ Tail(w) \in Seq(Frame) /\ Len(w) \in Nat \ {0} /\ Len(Tail(w)) = Len(w) - 1
           /\ Head(w) = w[1] /\ Head(w) \in Frame
           /\ \A i \in 1 .. Len(w) - 1 : Tail(w)[i] = w[i + 1]
  BY SMTT(30)

\* The acknowledgements under way stay in order when the first frame is taken.
LEMMA AcksTail ==
    ASSUME NEW v \in Seq(Frame), v # <<>>, NEW b, NEW l, AcksFit(v, b, l)
    PROVE  AcksFit(Tail(v), b, l)
<1> DEFINE t == Tail(v)
<1>1. /\ Len(v) \in Nat \ {0} /\ Len(t) = Len(v) - 1
      /\ \A i \in 1 .. Len(v) - 1 : t[i] = v[i + 1]
  BY TailIs
<1> HIDE DEF t
<1>2. \A i \in 1 .. Len(t) : i + 1 \in 1 .. Len(v) /\ t[i] = v[i + 1]
  BY <1>1
<1>3. \A i \in 1 .. Len(t) : \A j \in 1 .. i - 1 : j + 1 \in 1 .. (i + 1) - 1 /\ j \in 1 .. Len(t)
  BY <1>1
<1>4. AcksFit(t, b, l)
  BY <1>2, <1>3 DEF AcksFit
<1> QED
  BY <1>4 DEF t

\* The first acknowledgement: how far it reaches, and what the others still say.
LEMMA AckFirst ==
    ASSUME NEW v \in Seq(Frame), v # <<>>, NEW b \in Nat, NEW l \in Nat, AcksFit(v, b, l),
           Acks(Head(v))
    PROVE  LET q == Place(b, Head(v).nr)
           IN  /\ q \in b .. l /\ q % Modulus = Head(v).nr
               /\ AcksFit(Tail(v), q, l)
<1> DEFINE t == Tail(v)
           r == Head(v).nr
           q == Place(b, r)
<1>1. /\ Len(v) \in Nat \ {0} /\ Len(t) = Len(v) - 1 /\ Head(v) = v[1]
      /\ \A i \in 1 .. Len(v) - 1 : t[i] = v[i + 1]
  BY TailIs
<1>2. 1 \in 1 .. Len(v)
  BY <1>1
<1>3. r \in 0 .. Modulus - 1 /\ q <= l
  BY <1>1, <1>2 DEF AcksFit
<1>4. q \in Nat /\ b <= q /\ q % Modulus = r
  BY <1>3, PlaceAt
<1>5. \A i \in 1 .. Len(t) : i + 1 \in 1 .. Len(v) /\ t[i] = v[i + 1] /\ 1 \in 1 .. (i + 1) - 1
  <2> HIDE DEF t
  <2> QED
    BY <1>1
<1>6. \A i \in 1 .. Len(t) : \A j \in 1 .. i - 1 : j + 1 \in 1 .. (i + 1) - 1 /\ j \in 1 .. Len(t)
  <2> HIDE DEF t
  <2> QED
    BY <1>1
<1>7. v[1].nr = r /\ Acks(v[1])
  BY <1>1
<1> HIDE DEF t, r, q
<1>8. ASSUME NEW i \in 1 .. Len(t), Acks(t[i])
      PROVE  t[i].nr \in 0 .. Modulus - 1 /\ Place(b, t[i].nr) <= l /\ q <= Place(b, t[i].nr)
  BY <1>5, <1>7, <1>8 DEF AcksFit, q
<1>9. ASSUME NEW i \in 1 .. Len(t), Acks(t[i]) PROVE Place(q, t[i].nr) = Place(b, t[i].nr)
  <2> DEFINE z == t[i].nr
  <2>1. z \in 0 .. Modulus - 1 /\ q <= Place(b, z)
    BY <1>8, <1>9
  <2> HIDE DEF z
  <2>2. Place(q, z) = Place(b, z)
    BY <1>4, <2>1, PlaceFrom
  <2> QED
    BY <2>2 DEF z
<1>10. ASSUME NEW i \in 1 .. Len(t), Acks(t[i]), NEW j \in 1 .. i - 1, Acks(t[j])
       PROVE  Place(b, t[j].nr) <= Place(b, t[i].nr)
  BY <1>5, <1>6, <1>10 DEF AcksFit
<1>11. AcksFit(t, q, l)
  BY <1>6, <1>8, <1>9, <1>10 DEF AcksFit
<1> QED
  BY <1>3, <1>4, <1>11 DEF t, r, q
\* Whoever has heard up to l says so.
Tells(out, l) == \A i \in 1 .. Len(out) : Acks(out[i]) => out[i].nr = l % Modulus

\* A frame of w1 is one of w or one of out.
LEMMA OntoAt ==
    ASSUME NEW w1, NEW w, NEW out, Onto(w1, w, out), NEW i \in 1 .. Len(w1)
    PROVE  /\ i \in 1 .. Len(w) => w1[i] = w[i]
           /\ i \notin 1 .. Len(w) => /\ i - Len(w) \in 1 .. Len(out)
                                      /\ w1[i] = out[i - Len(w)]
           /\ Len(w) \in Nat /\ Len(w1) \in Nat
  BY DEF Onto

\* New acknowledgements go behind the old ones.
LEMMA AcksOn ==
    ASSUME NEW v1, NEW v, NEW out, Onto(v1, v, out),
           NEW b \in Nat, NEW l \in Nat, NEW k \in Nat, b <= l, l <= k, k <= b + K,
           AcksFit(v, b, l), Tells(out, k)
    PROVE  AcksFit(v1, b, k)
<1>1. Place(b, k % Modulus) = k /\ k % Modulus \in 0 .. Modulus - 1
  <2>1. b <= k /\ k < b + Modulus
    OBVIOUS
  <2> QED
    BY <2>1, PlaceIs
<1>2. ASSUME NEW i \in 1 .. Len(v1), Acks(v1[i])
      PROVE  /\ v1[i].nr \in 0 .. Modulus - 1
             /\ i \in 1 .. Len(v) => v1[i] = v[i] /\ Place(b, v1[i].nr) <= l
             /\ i \notin 1 .. Len(v) => Place(b, v1[i].nr) = k
             /\ Place(b, v1[i].nr) <= k
  <2>1. CASE i \in 1 .. Len(v)
    <3> DEFINE p == Place(b, v[i].nr)
    <3>1. v1[i] = v[i] /\ v[i].nr \in 0 .. Modulus - 1 /\ p <= l
      BY <1>2, <2>1, OntoAt DEF AcksFit
    <3>2. p \in Nat
      BY <3>1, PlaceAt
    <3> QED
      BY <2>1, <3>1, <3>2
  <2>2. CASE i \notin 1 .. Len(v)
    <3>1. i - Len(v) \in 1 .. Len(out) /\ v1[i] = out[i - Len(v)]
      BY <2>2, OntoAt
    <3>2. Acks(out[i - Len(v)])
      BY <1>2, <3>1
    <3>3. v1[i].nr = k % Modulus
      BY <3>1, <3>2, Zenon DEF Tells
    <3> QED
      BY <1>1, <2>2, <3>3
  <2> QED
    BY <2>1, <2>2
<1>3. ASSUME NEW i \in 1 .. Len(v1), Acks(v1[i]), NEW j \in 1 .. i - 1, Acks(v1[j])
      PROVE  Place(b, v1[j].nr) <= Place(b, v1[i].nr)
  <2>1. j \in 1 .. Len(v1) /\ i \in Int /\ j \in Int /\ j < i /\ Len(v) \in Nat
    BY OntoAt
  <2>2. Place(b, v1[j].nr) <= k
    BY <1>2, <1>3, <2>1
  <2>3. CASE i \in 1 .. Len(v)
    <3>1. j \in 1 .. Len(v)
      BY <2>1, <2>3
    <3>2. v1[i] = v[i] /\ v1[j] = v[j]
      BY <2>1, <2>3, <3>1, OntoAt
    <3> QED
      BY <1>3, <2>3, <3>2 DEF AcksFit
  <2>4. CASE i \notin 1 .. Len(v)
    BY <1>2, <1>3, <2>2, <2>4
  <2> QED
    BY <2>3, <2>4
<1> QED
  BY <1>2, <1>3 DEF AcksFit

\* The data under way after the first.
LEMMA DataTail ==
    ASSUME NEW w \in Seq(Frame), w # <<>>, NEW n, NEW l, DataFit(w, n, l)
    PROVE  DataFit(Tail(w), n, l)
<1> DEFINE t == Tail(w)
<1>1. /\ Len(w) \in Nat \ {0} /\ Len(t) = Len(w) - 1
      /\ \A i \in 1 .. Len(w) - 1 : t[i] = w[i + 1]
  BY TailIs
<1> HIDE DEF t
<1>2. \A i \in 1 .. Len(t) : i + 1 \in 1 .. Len(w) /\ t[i] = w[i + 1]
  BY <1>1
<1>3. \A i \in 1 .. Len(t) : \A j \in 1 .. i - 1 : j + 1 \in 1 .. (i + 1) - 1 /\ j \in 1 .. Len(t)
  BY <1>1
<1>4. DataFit(t, n, l)
  BY <1>2, <1>3 DEF DataFit
<1> QED
  BY <1>4 DEF t

\* No datum of the rest is beyond x either.
LEMMA BelowTail ==
    ASSUME NEW w \in Seq(Frame), w # <<>>, NEW x, Below(w, x)
    PROVE  Below(Tail(w), x)
<1> DEFINE t == Tail(w)
<1>1. /\ Len(w) \in Nat \ {0} /\ Len(t) = Len(w) - 1
      /\ \A i \in 1 .. Len(w) - 1 : t[i] = w[i + 1]
  BY TailIs
<1> HIDE DEF t
<1>2. \A i \in 1 .. Len(t) : i + 1 \in 1 .. Len(w) /\ t[i] = w[i + 1]
  BY <1>1
<1>3. Below(t, x)
  BY <1>2 DEF Below
<1> QED
  BY <1>3 DEF t

\* The number that is expected next is that of the datum that is next.
LEMMA DataFirst ==
    ASSUME NEW w \in Seq(Frame), w # <<>>, NEW n \in Nat, NEW l \in Nat, DataFit(w, n, l),
           Head(w).type = "iframe", Head(w).ns = l % Modulus
    PROVE  /\ Head(w).payload = l + 1 /\ l + 1 <= n
           /\ DataFit(Tail(w), n, l + 1)
<1> DEFINE t == Tail(w)
           p == w[1].payload
<1>1. /\ Len(w) \in Nat \ {0} /\ Len(t) = Len(w) - 1 /\ Head(w) = w[1]
      /\ \A i \in 1 .. Len(w) - 1 : t[i] = w[i + 1]
  BY TailIs
<1>2. 1 \in 1 .. Len(w) /\ w[1].type = "iframe"
  BY <1>1
<1>3. p \in 1 .. n /\ w[1].ns = (p - 1) % Modulus /\ p <= l + K /\ l <= p - 1 + K
  BY <1>2 DEF DataFit
<1>4. (p - 1) % Modulus = l % Modulus
  BY <1>1, <1>3
<1> HIDE DEF p, t
<1>5. p = l + 1
  <2>1. p - 1 \in Int /\ l \in Int /\ (p - 1) - l < Modulus /\ l - (p - 1) < Modulus
        /\ Modulus \in Nat \ {0}
    BY <1>3
  <2>2. p - 1 = l
    BY <1>4, <2>1, SamePlace, Zenon
  <2> QED
    BY <1>3, <2>2
<1>6. \A i \in 1 .. Len(t) : i + 1 \in 1 .. Len(w) /\ t[i] = w[i + 1] /\ 1 \in 1 .. (i + 1) - 1
  BY <1>1
<1>7. \A i \in 1 .. Len(t) : \A j \in 1 .. i - 1 : j + 1 \in 1 .. (i + 1) - 1 /\ j \in 1 .. Len(t)
  BY <1>1
<1>8. ASSUME NEW i \in 1 .. Len(t), t[i].type = "iframe"
      PROVE  /\ t[i].payload \in 1 .. n
             /\ t[i].ns = (t[i].payload - 1) % Modulus
             /\ t[i].payload <= (l + 1) + K /\ l + 1 <= t[i].payload - 1 + K
  <2>1. /\ t[i].payload \in 1 .. n
        /\ t[i].ns = (t[i].payload - 1) % Modulus
        /\ t[i].payload <= l + K
    BY <1>6, <1>8 DEF DataFit
  <2>2. p <= t[i].payload - 1 + K
    BY <1>2, <1>6, <1>8 DEF DataFit, p
  <2> QED
    BY <1>5, <2>1, <2>2
<1>9. ASSUME NEW i \in 1 .. Len(t), t[i].type = "iframe", NEW j \in 1 .. i - 1, t[j].type = "iframe"
      PROVE  t[j].payload <= t[i].payload - 1 + K
  BY <1>6, <1>7, <1>9 DEF DataFit
<1>10. DataFit(t, n, l + 1)
  BY <1>8, <1>9 DEF DataFit
<1> QED
  BY <1>1, <1>3, <1>5, <1>10 DEF p, t

\* What is said bears data between b and x only, each under its number.
Bears(out, b, x) ==
    \A i \in 1 .. Len(out) : out[i].type = "iframe" =>
        out[i].payload \in b + 1 .. x /\ out[i].ns = (out[i].payload - 1) % Modulus

\* New data go behind the old ones: nothing under way is beyond what was sent, and
\* what is sent now is beyond what was acknowledged.
LEMMA DataOn ==
    ASSUME NEW w1, NEW w, NEW out, Onto(w1, w, out),
           NEW n \in Nat, NEW m \in Nat, n <= m, NEW l \in Nat,
           NEW b \in Nat, NEW c \in Nat, b <= c, c <= l, l <= b + K,
           NEW x \in Nat, NEW y \in Nat, x <= y, x <= b + K, y <= c + K, y <= m,
           DataFit(w, n, l), Below(w, x), Bears(out, c, y)
    PROVE  DataFit(w1, m, l) /\ Below(w1, y)
<1>1. ASSUME NEW i \in 1 .. Len(w1), w1[i].type = "iframe"
      PROVE  LET p == w1[i].payload
             IN  /\ p \in 1 .. m /\ w1[i].ns = (p - 1) % Modulus
                 /\ p <= l + K /\ l <= p - 1 + K /\ p <= y
                 /\ i \in 1 .. Len(w) => w1[i] = w[i] /\ p <= x
                 /\ i \notin 1 .. Len(w) => c + 1 <= p
  <2> DEFINE p == w1[i].payload
  <2>1. CASE i \in 1 .. Len(w)
    <3>1. w1[i] = w[i]
      BY <2>1, OntoAt, SMTT(30)
    <3>2. p \in 1 .. n /\ w1[i].ns = (p - 1) % Modulus /\ p <= l + K /\ l <= p - 1 + K
      BY <1>1, <2>1, <3>1 DEF DataFit
    <3>3. p <= x
      BY <1>1, <2>1, <3>1 DEF Below
    <3> HIDE DEF p
    <3>5. p \in 1 .. n
      BY <3>2, Zenon
    <3>4. p \in 1 .. m /\ p <= y
      BY <3>3, <3>5
    <3> QED
      BY <2>1, <3>1, <3>2, <3>3, <3>4 DEF p
  <2>2. CASE i \notin 1 .. Len(w)
    <3>1. i - Len(w) \in 1 .. Len(out) /\ w1[i] = out[i - Len(w)]
      BY <2>2, OntoAt
    <3>2. p \in c + 1 .. y /\ w1[i].ns = (p - 1) % Modulus
      BY <1>1, <3>1 DEF Bears
    <3> HIDE DEF p
    <3>4. p \in c + 1 .. y
      BY <3>2, Zenon
    <3>3. p \in 1 .. m /\ p <= l + K /\ l <= p - 1 + K /\ p <= y /\ c + 1 <= p
      BY <3>4
    <3> QED
      BY <2>2, <3>2, <3>3 DEF p
  <2> QED
    BY <2>1, <2>2
<1>2. ASSUME NEW i \in 1 .. Len(w1), w1[i].type = "iframe", NEW j \in 1 .. i - 1, w1[j].type = "iframe"
      PROVE  w1[j].payload <= w1[i].payload - 1 + K
  <2>1. j \in 1 .. Len(w1) /\ i \in Int /\ j \in Int /\ j < i /\ Len(w) \in Nat
    BY OntoAt
  <2>2. CASE i \in 1 .. Len(w)
    <3>1. j \in 1 .. Len(w)
      BY <2>1, <2>2
    <3>2. w1[i] = w[i] /\ w1[j] = w[j]
      BY <2>1, <2>2, <3>1, OntoAt
    <3> QED
      BY <1>2, <2>2, <3>2 DEF DataFit
  <2>3. CASE i \notin 1 .. Len(w)
    <3> DEFINE p == w1[i].payload
               r == w1[j].payload
    <3>1. c + 1 <= p /\ p \in 1 .. m
      BY <1>1, <1>2, <2>3
    <3>2. r <= y /\ r \in 1 .. m
      BY <1>1, <1>2, <2>1
    <3> HIDE DEF p, r
    <3>3. r <= p - 1 + K
      BY <3>1, <3>2
    <3> QED
      BY <3>3 DEF p, r
  <2> QED
    BY <2>2, <2>3
<1>3. DataFit(w1, m, l)
  BY <1>1, <1>2 DEF DataFit
<1>4. Below(w1, y)
  BY <1>1 DEF Below
<1> QED
  BY <1>3, <1>4

\* Where no data are said, those under way are as before.
LEMMA DataOff ==
    ASSUME NEW w1, NEW w, NEW out, Onto(w1, w, out), NEW n \in Nat, NEW m \in Nat, n <= m,
           NEW l \in Nat, DataFit(w, n, l), \A i \in 1 .. Len(out) : out[i].type # "iframe"
    PROVE  DataFit(w1, m, l)
<1>1. ASSUME NEW i \in 1 .. Len(w1), w1[i].type = "iframe"
      PROVE  i \in 1 .. Len(w) /\ w1[i] = w[i]
  BY <1>1, OntoAt, SMTT(30)
<1>2. ASSUME NEW i \in 1 .. Len(w1), w1[i].type = "iframe", NEW j \in 1 .. i - 1
      PROVE  j \in 1 .. Len(w1) /\ j \in 1 .. Len(w)
  <2>1. i \in 1 .. Len(w) /\ Len(w) \in Nat /\ Len(w1) \in Nat
    BY <1>1, <1>2, OntoAt
  <2> QED
    BY <2>1
<1>3. ASSUME NEW i \in 1 .. Len(w1), w1[i].type = "iframe"
      PROVE  w1[i].payload \in 1 .. m
  <2>1. w1[i].payload \in 1 .. n
    BY <1>1, <1>3 DEF DataFit
  <2> QED
    BY <2>1
<1> QED
  BY <1>1, <1>2, <1>3 DEF DataFit

\* One direction of a link: its sender c knows of b that they were heard, w is
\* under way from it and v to it, and the receiver has heard l of n.
Going(c, b, n, w, v, l) ==
    /\ Holds(c, b, n, Full(b, n)) /\ b <= l /\ l <= Full(b, n)
    /\ Below(w, Full(b, n)) /\ AcksFit(v, b, l)

\* The same, where "on" says whether the sender's end of the link is up.
Direct(c, on, n, w, v, l) ==
    /\ n \in Nat /\ l \in Nat /\ l <= n
    /\ w \in Seq(Frame) /\ v \in Seq(Frame)
    /\ DataFit(w, n, l)
    /\ on => \E b \in 0 .. n : Going(c, b, n, w, v, l)

\* The arithmetic of the window.
LEMMA FullBounds ==
    ASSUME NEW b \in Nat, NEW n \in Nat, b <= n
    PROVE  /\ Full(b, n) \in Nat /\ b <= Full(b, n) /\ Full(b, n) <= n
           /\ Full(b, n) <= b + K
           /\ \A q \in Nat : \A m \in Nat : b <= q /\ n <= m /\ q <= m =>
                 Full(b, n) <= Full(q, m)
  BY DEF Full

\* What the sender says and learns keeps its direction.
LEMMA GoingOn ==
    ASSUME NEW c, NEW on, NEW n, NEW w, NEW v, NEW l, Direct(c, on, n, w, v, l),
           NEW b \in 0 .. n, Going(c, b, n, w, v, l),
           NEW q \in b .. l, NEW m \in Nat, n <= m,
           NEW g, Holds(g, q, m, Full(q, m)),
           NEW out, Bears(out, q, Full(q, m)),
           NEW w1, Onto(w1, w, out),
           NEW v1 \in Seq(Frame), AcksFit(v1, q, l),
           NEW h, h.va = g.va, h.vs = g.vs, h.iframe_resend_queue = g.iframe_resend_queue,
           NEW on1
    PROVE  Direct(h, on1, m, w1, v1, l)
<1>1. /\ n \in Nat /\ l \in Nat /\ l <= n /\ b \in Nat /\ q \in Nat /\ b <= q /\ q <= l
      /\ l <= m /\ q <= m /\ b <= n
  BY DEF Direct
<1> DEFINE x == Full(b, n)
           y == Full(q, m)
<1>2. /\ x \in Nat /\ x <= b + K /\ x <= n /\ x <= y
      /\ y \in Nat /\ y <= q + K /\ y <= m
  BY <1>1, FullBounds
<1>3. l <= x /\ Below(w, x) /\ DataFit(w, n, l)
  BY DEF Going, Direct
<1>4. Bears(out, q, y) /\ Holds(g, q, m, y)
  OBVIOUS
<1> HIDE DEF x, y
<1>5. l <= b + K /\ l <= y
  BY <1>1, <1>2, <1>3
<1>6. DataFit(w1, m, l) /\ Below(w1, y)
  BY <1>1, <1>2, <1>3, <1>4, <1>5, DataOn
<1>7. Holds(h, q, m, y)
  BY <1>4, HoldsSame
<1>8. w1 \in Seq(Frame)
  BY DEF Onto
<1>9. Going(h, q, m, w1, v1, l)
  BY <1>1, <1>5, <1>6, <1>7 DEF Going, y
<1>10. q \in 0 .. m
  BY <1>1
<1> QED
  BY <1>1, <1>6, <1>8, <1>9, <1>10 DEF Direct

\* An end that has gone down says no more data.
LEMMA GoingOff ==
    ASSUME NEW c, NEW on, NEW n, NEW w, NEW v, NEW l, Direct(c, on, n, w, v, l),
           NEW m \in Nat, n <= m,
           NEW out, \A i \in 1 .. Len(out) : out[i].type # "iframe",
           NEW w1, Onto(w1, w, out), NEW v1 \in Seq(Frame), NEW h
    PROVE  Direct(h, FALSE, m, w1, v1, l)
<1>1. n \in Nat /\ l \in Nat /\ l <= m /\ DataFit(w, n, l) /\ w1 \in Seq(Frame)
  BY DEF Direct, Onto
<1>2. DataFit(w1, m, l)
  BY <1>1, DataOff
<1> QED
  BY <1>1, <1>2 DEF Direct

\* What the receiver takes from the air: nothing, a frame it makes nothing of, or
\* the next datum.
Takes(w1, w, l1, l) ==
    \/ w1 = w /\ l1 = l
    \/ w # <<>> /\ w1 = Tail(w) /\ l1 = l
    \/ /\ w # <<>> /\ w1 = Tail(w) /\ l1 = l + 1
       /\ Head(w).type = "iframe" /\ Head(w).ns = l % Modulus

\* What the receiver hears and says keeps the direction.
LEMMA GoingHeard ==
    ASSUME NEW c, NEW on, NEW n, NEW w, NEW v, NEW l, Direct(c, on, n, w, v, l),
           NEW w1, NEW l1, Takes(w1, w, l1, l),
           NEW out, Tells(out, l1), NEW v1, Onto(v1, v, out),
           NEW on1, on1 => on
    PROVE  Direct(c, on1, n, w1, v1, l1)
<1>1. /\ n \in Nat /\ l \in Nat /\ l <= n /\ DataFit(w, n, l)
      /\ w \in Seq(Frame) /\ v \in Seq(Frame)
  BY DEF Direct
<1>2. v1 \in Seq(Frame)
  BY DEF Onto
<1>3. /\ w1 \in Seq(Frame) /\ l1 \in Nat /\ l <= l1 /\ l1 <= n /\ DataFit(w1, n, l1)
      /\ \A x \in Nat : Below(w, x) /\ l <= x => Below(w1, x) /\ l1 <= x
  <2>1. CASE w1 = w /\ l1 = l
    BY <1>1, <2>1
  <2>2. CASE w # <<>> /\ w1 = Tail(w) /\ l1 = l
    BY <1>1, <2>2, TailIs, DataTail, BelowTail
  <2>3. CASE /\ w # <<>> /\ w1 = Tail(w) /\ l1 = l + 1
             /\ Head(w).type = "iframe" /\ Head(w).ns = l % Modulus
    <3>1. Head(w).payload = l + 1 /\ l + 1 <= n /\ DataFit(Tail(w), n, l + 1)
      BY <1>1, <2>3, DataFirst
    <3>2. Tail(w) \in Seq(Frame) /\ Len(w) \in Nat \ {0} /\ Head(w) = w[1]
      BY <1>1, <2>3, TailIs
    <3>3. 1 \in 1 .. Len(w)
      BY <3>2
    <3>4. ASSUME NEW x \in Nat, Below(w, x) PROVE l + 1 <= x
      BY <2>3, <3>1, <3>2, <3>3, <3>4 DEF Below
    <3>5. ASSUME NEW x \in Nat, Below(w, x) PROVE Below(Tail(w), x)
      BY <1>1, <2>3, <3>5, BelowTail
    <3>6. l + 1 \in Nat /\ l <= l + 1
      BY <1>1
    <3> QED
      BY <2>3, <3>1, <3>2, <3>4, <3>5, <3>6
  <2> QED
    BY <2>1, <2>2, <2>3 DEF Takes
<1>4. ASSUME on PROVE \E b \in 0 .. n : Going(c, b, n, w1, v1, l1)
  <2>1. PICK b \in 0 .. n : Going(c, b, n, w, v, l)
    BY <1>4 DEF Direct
  <2>2. b \in Nat /\ b <= n
    BY <1>1
  <2> DEFINE x == Full(b, n)
  <2>3. x \in Nat /\ x <= b + K
    BY <1>1, <2>2, FullBounds
  <2>4. Holds(c, b, n, x) /\ b <= l /\ l <= x /\ Below(w, x) /\ AcksFit(v, b, l)
    BY <2>1 DEF Going
  <2> HIDE DEF x
  <2>5. Below(w1, x) /\ l1 <= x
    BY <1>3, <2>3, <2>4
  <2>6. l1 <= b + K /\ b <= l1
    BY <1>1, <1>3, <2>2, <2>3, <2>4, <2>5
  <2>7. AcksFit(v1, b, l1)
    BY <1>1, <1>3, <2>2, <2>4, <2>6, AcksOn
  <2>8. Going(c, b, n, w1, v1, l1)
    BY <2>4, <2>5, <2>6, <2>7 DEF Going, x
  <2> QED
    BY <2>8
<1> QED
  BY <1>1, <1>2, <1>3, <1>4 DEF Direct

\* What a link that stays up says bears data and tells what was heard.
LEMMA SpeaksBoth ==
    ASSUME NEW out, NEW l, NEW vr, NEW b, NEW x, Speaks(out, vr, b, x), vr = l % Modulus
    PROVE  Bears(out, b, x) /\ Tells(out, l)
  BY DEF Speaks, Bears, Tells, Acks

\* No frame of type t.
None(t, w) == \A i \in 1 .. Len(w) : w[i].type # t

\* Frames that are said bring no type that neither they nor the air had.
LEMMA NoneOnto ==
    ASSUME NEW w1, NEW w, NEW out, Onto(w1, w, out), NEW t, None(t, w), None(t, out)
    PROVE  None(t, w1)
<1>1. ASSUME NEW i \in 1 .. Len(w1) PROVE w1[i].type # t
  <2>1. CASE i \in 1 .. Len(w)
    BY <2>1, OntoAt DEF None
  <2>2. CASE i \notin 1 .. Len(w)
    <3>1. i - Len(w) \in 1 .. Len(out) /\ w1[i] = out[i - Len(w)]
      BY <2>2, OntoAt
    <3> QED
      BY <3>1 DEF None
  <2> QED
    BY <2>1, <2>2
<1> QED
  BY <1>1 DEF None

\* Nor does taking the first frame.
LEMMA NoneTail ==
    ASSUME NEW w \in Seq(Frame), w # <<>>, NEW t, None(t, w)
    PROVE  None(t, Tail(w)) /\ Head(w).type # t
<1>1. /\ Len(w) \in Nat \ {0} /\ Len(Tail(w)) = Len(w) - 1 /\ Head(w) = w[1]
      /\ \A i \in 1 .. Len(w) - 1 : Tail(w)[i] = w[i + 1]
  BY TailIs
<1> DEFINE s == Tail(w)
<1> HIDE DEF s
<1>2. \A i \in 1 .. Len(s) : i + 1 \in 1 .. Len(w) /\ s[i] = w[i + 1]
  BY <1>1 DEF s
<1>3. None(t, s)
  BY <1>2 DEF None
<1>4. 1 \in 1 .. Len(w)
  BY <1>1
<1> QED
  BY <1>1, <1>3, <1>4 DEF None, s

------------------------------------------------------------------------------
(* What is true of a link whose T1 may expire at any moment: a datum that  *)
(* is sent, stored or not yet numbered is behind all that were sent before *)
(* it, or within a window of them.                                         *)

\* A frame that starts the numbers of a link again.
Resets(f) == f.type \in {"sabm", "ua"}

\* There is one among w[i] .. w[j].
ResetIn(w, i, j) == \E k \in i .. j : Resets(w[k])

\* y is a later datum than x, or its number is one of the window that ends with x.
Follows(x, y) == x.payload < y.payload \/ (x.ns - y.ns) % Modulus < K

\* The stored datum at j, under the number that it has on the circle.
Kept(c, j) == [ns |-> c.va + j - 1, payload |-> c.iframe_resend_queue[j]]

\* The UA that a link waits for will clear its queues.
WillClear(c) == ~c.layer3_initiated /\ c.vs # c.va

\* How many of the stored data have been sent, or will not be sent any more.
Sent(c) ==
    IF can_receive_data(c) THEN Outstanding(c)
    ELSE IF c.st = "AwaitingConnection" /\ ~WillClear(c) THEN 0
         ELSE Len(c.iframe_resend_queue)

\* What is behind x, which has w[i + 1] and so on behind it: a reset between the two
\* makes a datum a later one, and so does not having been sent.
Behind(x, w, i, c) ==
    /\ \A j \in i + 1 .. Len(w) :
          w[j].type = "iframe" /\ ResetIn(w, i + 1, j) => x.payload < w[j].payload
    /\ \A j \in 1 .. Len(c.iframe_resend_queue) :
          Sent(c) < j \/ (can_receive_data(c) /\ ResetIn(w, i + 1, Len(w)))
             => x.payload < c.iframe_resend_queue[j]

\* Everything behind x follows it.
Within(x, w, i, c) ==
    /\ \A j \in i + 1 .. Len(w) : w[j].type = "iframe" => Follows(x, w[j])
    /\ can_receive_data(c) =>
          \A j \in 1 .. Len(c.iframe_resend_queue) :
             j <= Outstanding(c) => Follows(x, Kept(c, j))

\* The store of g is that of c without the first k data, if not with the datum m more.
Shifted(c, g, k, n, m) ==
    \A j \in 1 .. Len(g.iframe_resend_queue) :
        \/ /\ j + k <= Len(c.iframe_resend_queue)
           /\ g.iframe_resend_queue[j] = c.iframe_resend_queue[j + k]
        \/ /\ m = n + 1 /\ g.iframe_resend_queue[j] = m
           /\ j + k = Len(c.iframe_resend_queue) + 1

\* None of the frames of c starts the numbers again.
Mute(c) == \A i \in DOMAIN c.out : ~Resets(c.out[i])

\* The I frames of g carry stored data in the order of the store.
Pours(g, z) ==
    \A i \in 1 .. Len(g.out) : g.out[i].type = "iframe" =>
        /\ can_receive_data(g)
        /\ i - z \in 1 .. Len(g.iframe_resend_queue) /\ i - z <= Outstanding(g)
        /\ g.out[i].payload = g.iframe_resend_queue[i - z]
        /\ g.out[i].ns = (g.va + (i - z) - 1) % Modulus

\* What of the store of c had been sent has been in that of g.
Carries(c, g, k) ==
    \A j \in 1 .. Len(g.iframe_resend_queue) : j + k <= Sent(c) => j <= Sent(g)

\* What a call makes of the data of a connection: c before it, with n data submitted, and g
\* after it, with m.
Proceeds(c, g, n, m) ==
    /\ \E z \in Int : Pours(g, z)
    /\ can_receive_data(g) => Outstanding(g) \in 0 .. K
    /\ \/ g.iframe_resend_queue = <<>>
       \/ \E k \in 0 .. Len(c.iframe_resend_queue) :
             /\ Shifted(c, g, k, n, m)
             /\ \/ /\ can_receive_data(c) /\ can_receive_data(g) /\ Mute(g)
                   /\ g.va = (c.va + k) % Modulus /\ Carries(c, g, k)
                \/ /\ ~can_receive_data(c) /\ can_receive_data(g) /\ Mute(g)
                   /\ Sent(c) = 0
                \/ ~can_receive_data(g) /\ Carries(c, g, k)

\* The numbers of two data that differ by turns of the circle follow alike.
LEMMA FollowsOn ==
    ASSUME NEW x, x.ns \in Int, NEW a \in Int, NEW k \in Int, NEW j \in Int
    PROVE  (x.ns - (a + (j + k) - 1)) % Modulus = (x.ns - (((a + k) % Modulus) + j - 1)) % Modulus
<1> DEFINE u == x.ns - j + 1
           v == a + k
<1>1. u \in Int /\ v \in Int /\ Modulus \in Nat \ {0}
  OBVIOUS
<1>2. (u - (v % Modulus)) % Modulus = (u - v) % Modulus
  BY <1>1, PlaceSum, Zenon
<1>3. u - v = x.ns - (a + (j + k) - 1)
  OBVIOUS
<1>4. v % Modulus \in Int
  <2>1. v % Modulus \in 0 .. Modulus - 1
    BY <1>1, ModIn, Zenon
  <2> QED
    BY <2>1
<1>5. u - (v % Modulus) = x.ns - ((v % Modulus) + j - 1)
  <2> DEFINE y == v % Modulus
  <2>1. y \in Int
    BY <1>4
  <2> HIDE DEF y
  <2>2. u - y = x.ns - (y + j - 1)
    BY <2>1
  <2> QED
    BY <2>2 DEF y
<1> QED
  BY <1>2, <1>3, <1>5, Zenon

\* A stored datum that follows still does when it is sent.
LEMMA FollowsSent ==
    ASSUME NEW x, x.ns \in Int, NEW g, g.va \in Int, NEW p \in Nat, Follows(x, Kept(g, p)),
           NEW f, f.payload = g.iframe_resend_queue[p], f.ns = (g.va + p - 1) % Modulus
    PROVE  Follows(x, f)
<1>1. x.payload < g.iframe_resend_queue[p] \/ (x.ns - (g.va + p - 1)) % Modulus < K
  BY DEF Follows, Kept
<1>2. g.va + p - 1 \in Int /\ Modulus \in Nat \ {0}
  OBVIOUS
<1>3. (x.ns - ((g.va + p - 1) % Modulus)) % Modulus = (x.ns - (g.va + p - 1)) % Modulus
  BY <1>2, PlaceSum, Zenon
<1> QED
  BY <1>1, <1>3, Zenon DEF Follows

------------------------------------------------------------------------------
(* What is stored, and what a call puts behind the frames on the air.      *)

\* The data in the store of c are of those 1 .. n that were submitted, in their order.
Stocked(c, n) ==
    /\ \A j \in 1 .. Len(c.iframe_resend_queue) : c.iframe_resend_queue[j] \in 1 .. n
    /\ \A i, j \in 1 .. Len(c.iframe_resend_queue) :
          i < j => c.iframe_resend_queue[i] < c.iframe_resend_queue[j]

\* How a call moves the store of a connection: without the first k data.
Course(c, g, n, m, k) ==
    /\ k \in 0 .. Len(c.iframe_resend_queue)
    /\ Shifted(c, g, k, n, m)
    /\ \/ /\ can_receive_data(c) /\ can_receive_data(g) /\ Mute(g)
          /\ g.va = (c.va + k) % Modulus /\ Carries(c, g, k)
       \/ /\ ~can_receive_data(c) /\ can_receive_data(g) /\ Mute(g)
          /\ Sent(c) = 0
       \/ ~can_receive_data(g) /\ Carries(c, g, k)

\* How many have been sent is a number.
LEMMA SentIs ==
    ASSUME NEW c, Good(c)
    PROVE  /\ Sent(c) \in Nat /\ Len(c.iframe_resend_queue) \in Nat
           /\ can_receive_data(c) => Sent(c) = Outstanding(c) /\ Outstanding(c) \in 0 .. K
<1>1. Len(c.iframe_resend_queue) \in Nat
  BY DEF Good, ConnectionType
<1>2. ASSUME can_receive_data(c) PROVE Outstanding(c) \in 0 .. K
  BY <1>2, GoodReady, SendableFits
<1>3. K \in Nat
  OBVIOUS
<1> QED
  BY <1>1, <1>2, <1>3 DEF Sent

\* A reset among the first frames of w1 is one of w.
LEMMA ResetBefore ==
    ASSUME NEW w1, NEW w, NEW out, Onto(w1, w, out), NEW i \in Nat,
           NEW j \in 1 .. Len(w1), j <= Len(w), ResetIn(w1, i + 1, j)
    PROVE  ResetIn(w, i + 1, j)
<1>1. PICK q \in i + 1 .. j : Resets(w1[q])
  BY DEF ResetIn
<1>2. q \in 1 .. Len(w1) /\ q \in 1 .. Len(w)
  BY DEF Onto
<1>3. w1[q] = w[q]
  BY <1>2, OntoAt
<1> QED
  BY <1>1, <1>3 DEF ResetIn

\* A reset anywhere in w1 is one of w if nothing that resets was sent.
LEMMA ResetOld ==
    ASSUME NEW w1, NEW w, NEW g, Onto(w1, w, g.out), Mute(g), NEW i \in Nat,
           ResetIn(w1, i + 1, Len(w1))
    PROVE  ResetIn(w, i + 1, Len(w))
<1>1. PICK q \in i + 1 .. Len(w1) : Resets(w1[q])
  BY DEF ResetIn
<1>2. Len(w1) \in Nat /\ Len(w) \in Nat /\ g.out \in Seq(Frame)
  BY DEF Onto
<1>3. q \in 1 .. Len(w1)
  BY <1>2
<1>4. CASE q \in 1 .. Len(w)
  <2>1. w1[q] = w[q]
    BY <1>3, <1>4, OntoAt
  <2>2. q \in i + 1 .. Len(w)
    BY <1>4
  <2> QED
    BY <1>1, <2>1, <2>2 DEF ResetIn
<1>5. CASE q \notin 1 .. Len(w)
  <2>1. q - Len(w) \in 1 .. Len(g.out) /\ w1[q] = g.out[q - Len(w)]
    BY <1>3, <1>5, OntoAt
  <2>2. q - Len(w) \in DOMAIN g.out
    BY <1>2, <2>1
  <2> QED
    BY <1>1, <2>1, <2>2 DEF Mute
<1> QED
  BY <1>4, <1>5

\* What is stored, and has not been sent or is behind a reset, is beyond all that went
\* before.
LEMMA StoreBehind ==
    ASSUME NEW c, NEW g, Good(c), Good(g), NEW n \in Nat, NEW m, NEW k,
           Course(c, g, n, m, k),
           NEW w1, NEW w, Onto(w1, w, g.out), NEW i \in Nat,
           NEW x, x.payload \in Int, x.payload <= n, Behind(x, w, i, c),
           NEW j \in 1 .. Len(g.iframe_resend_queue),
           Sent(g) < j \/ (can_receive_data(g) /\ ResetIn(w1, i + 1, Len(w1)))
    PROVE  x.payload < g.iframe_resend_queue[j]
<1> DEFINE s == c.iframe_resend_queue
           t == g.iframe_resend_queue
<1>1. Sent(c) \in Nat /\ Sent(g) \in Nat /\ Len(s) \in Nat /\ Len(t) \in Nat
  BY SentIs
<1>2. k \in 0 .. Len(s)
  BY DEF Course
<1>3. CASE m = n + 1 /\ t[j] = m
  BY <1>3
<1>4. CASE j + k <= Len(s) /\ t[j] = s[j + k]
  <2>1. j + k \in 1 .. Len(s)
    BY <1>1, <1>2, <1>4
  <2>2. Sent(c) < j + k \/ (can_receive_data(c) /\ ResetIn(w, i + 1, Len(w)))
    <3>1. CASE Sent(c) = 0
      BY <1>1, <2>1, <3>1
    <3>2. CASE Carries(c, g, k) /\ Sent(g) < j
      <4>1. j + k <= Sent(c) => j <= Sent(g)
        BY <3>2 DEF Carries
      <4> QED
        BY <1>1, <2>1, <3>2, <4>1
    <3>3. CASE can_receive_data(c) /\ Mute(g) /\ ResetIn(w1, i + 1, Len(w1))
      BY <3>3, ResetOld
    <3> QED
      BY <3>1, <3>2, <3>3 DEF Course
  <2>3. x.payload < s[j + k]
    BY <2>1, <2>2 DEF Behind
  <2> QED
    BY <1>4, <2>3
<1> QED
  BY <1>3, <1>4 DEF Course, Shifted

\* Frame f is the datum at p of what g stores and has sent.
Poured(g, f, p) ==
    /\ can_receive_data(g)
    /\ p \in 1 .. Len(g.iframe_resend_queue) /\ p <= Outstanding(g)
    /\ f.payload = g.iframe_resend_queue[p]
    /\ f.ns = (g.va + p - 1) % Modulus

\* The frame of w1 at j is one of w, or an I frame that carries a stored datum.
LEMMA PouredAt ==
    ASSUME NEW g, NEW z \in Int, Pours(g, z), NEW w1, NEW w, Onto(w1, w, g.out),
           NEW j \in 1 .. Len(w1), w1[j].type = "iframe", ~(j <= Len(w))
    PROVE  Poured(g, w1[j], j - Len(w) - z)
<1>1. j \notin 1 .. Len(w)
  BY DEF Onto
<1>2. j - Len(w) \in 1 .. Len(g.out) /\ w1[j] = g.out[j - Len(w)]
  BY <1>1, OntoAt
<1> QED
  BY <1>2 DEF Pours, Poured

\* A call leaves what was behind x behind x.
LEMMA BehindOn ==
    ASSUME NEW c, NEW g, Good(c), Good(g), NEW n \in Nat, NEW m, Proceeds(c, g, n, m),
           NEW w1, NEW w, Onto(w1, w, g.out), NEW i \in 0 .. Len(w),
           NEW x, x.payload \in Int, x.payload <= n, Behind(x, w, i, c)
    PROVE  Behind(x, w1, i, g)
<1> DEFINE t == g.iframe_resend_queue
<1>0. Len(w) \in Nat /\ Len(w1) \in Nat /\ i \in Nat
  BY DEF Onto
<1>1. ASSUME NEW j \in 1 .. Len(t),
             Sent(g) < j \/ (can_receive_data(g) /\ ResetIn(w1, i + 1, Len(w1)))
      PROVE  x.payload < t[j]
  <2>1. t # <<>>
    OBVIOUS
  <2>2. PICK k : Course(c, g, n, m, k)
    BY <2>1 DEF Proceeds, Course
  <2> QED
    BY <1>0, <1>1, <2>2, StoreBehind
<1>2. ASSUME NEW j \in i + 1 .. Len(w1), w1[j].type = "iframe", ResetIn(w1, i + 1, j)
      PROVE  x.payload < w1[j].payload
  <2>1. j \in 1 .. Len(w1)
    BY <1>0
  <2>2. CASE j <= Len(w)
    <3>1. ResetIn(w, i + 1, j)
      BY <1>0, <1>2, <2>1, <2>2, ResetBefore
    <3>2. w1[j] = w[j] /\ j \in i + 1 .. Len(w)
      BY <1>0, <2>1, <2>2, OntoAt
    <3> QED
      BY <1>2, <3>1, <3>2 DEF Behind
  <2>3. CASE ~(j <= Len(w))
    <3>1. PICK z \in Int : Pours(g, z)
      BY DEF Proceeds
    <3>a. Poured(g, w1[j], j - Len(w) - z)
      BY <1>2, <2>1, <2>3, <3>1, PouredAt
    <3>2. /\ can_receive_data(g) /\ j - Len(w) - z \in 1 .. Len(t)
          /\ w1[j].payload = t[j - Len(w) - z]
      BY <3>a DEF Poured
    <3>3. ResetIn(w1, i + 1, Len(w1))
      BY <1>0, <1>2 DEF ResetIn
    <3> QED
      BY <1>1, <3>2, <3>3
  <2> QED
    BY <2>2, <2>3
<1> QED
  BY <1>1, <1>2 DEF Behind

\* A call leaves x followed by all that is behind it.
LEMMA WithinOn ==
    ASSUME NEW c, NEW g, Good(c), Good(g), NEW n \in Nat, NEW m, Proceeds(c, g, n, m),
           NEW w1, NEW w, Onto(w1, w, g.out), NEW i \in 0 .. Len(w),
           NEW x, x.payload \in Int, x.ns \in Int, x.payload <= n, Behind(x, w, i, c),
           Within(x, w, i, c)
    PROVE  Within(x, w1, i, g)
<1> DEFINE s == c.iframe_resend_queue
           t == g.iframe_resend_queue
<1>0. /\ Len(w) \in Nat /\ Len(w1) \in Nat /\ i \in Nat
      /\ Len(s) \in Nat /\ Len(t) \in Nat /\ c.va \in Int /\ g.va \in Int
  <2>1. Len(w) \in Nat /\ Len(w1) \in Nat /\ i \in Nat
    BY DEF Onto
  <2>2. Len(s) \in Nat /\ Len(t) \in Nat
    BY SentIs
  <2>3. c.va \in Int /\ g.va \in Int
    BY DEF Good, ConnectionType
  <2> QED
    BY <2>1, <2>2, <2>3
<1>1. ASSUME can_receive_data(g), NEW j \in 1 .. Len(t), j <= Outstanding(g)
      PROVE  Follows(x, Kept(g, j))
  <2>1. t # <<>>
    OBVIOUS
  <2>2. PICK k : Course(c, g, n, m, k)
    BY <2>1 DEF Proceeds, Course
  <2>3. k \in 0 .. Len(s)
    BY <2>2 DEF Course
  <2>4. Kept(g, j).payload = t[j] /\ Kept(g, j).ns = g.va + j - 1
    BY DEF Kept
  <2>5. CASE x.payload < t[j]
    BY <2>4, <2>5, Zenon DEF Follows
  <2>6. CASE m = n + 1 /\ t[j] = m
    <3>1. x.payload < t[j]
      BY <2>6
    <3> QED
      BY <2>5, <3>1
  <2>7. CASE j + k <= Len(s) /\ t[j] = s[j + k]
    <3>1. j + k \in 1 .. Len(s)
      BY <1>0, <2>3, <2>7, SMTT(30)
    <3>2. CASE Sent(c) < j + k
      <4>1. x.payload < s[j + k]
        BY <3>1, <3>2 DEF Behind
      <4> QED
        BY <2>5, <2>7, <4>1
    <3>3. CASE /\ can_receive_data(c) /\ ~(Sent(c) < j + k)
               /\ g.va = (c.va + k) % Modulus
      <4>1. j + k <= Outstanding(c)
        <5>1. Sent(c) = Outstanding(c) /\ Sent(c) \in Nat
          BY <3>3, SentIs
        <5> QED
          BY <3>1, <3>3, <5>1
      <4>2. Follows(x, Kept(c, j + k))
        BY <3>1, <3>3, <4>1 DEF Within
      <4>3. x.payload < s[j + k] \/ (x.ns - (c.va + (j + k) - 1)) % Modulus < K
        BY <4>2 DEF Follows, Kept
      <4>4. (x.ns - (c.va + (j + k) - 1)) % Modulus
               = (x.ns - (((c.va + k) % Modulus) + j - 1)) % Modulus
        <5>1. k \in Int /\ j \in Int /\ c.va \in Int /\ x.ns \in Int
          BY <1>0, <2>3
        <5> QED
          BY <5>1, FollowsOn, SMTT(30)
      <4>5. x.payload < t[j] \/ (x.ns - (g.va + j - 1)) % Modulus < K
        BY <2>7, <3>3, <4>3, <4>4, Zenon
      <4> QED
        BY <2>4, <4>5, Zenon DEF Follows
    <3>4. CASE Sent(c) = 0
      <4>1. Sent(c) < j + k
        BY <3>1, <3>4
      <4> QED
        BY <3>2, <4>1
    <3> QED
      BY <1>1, <2>2, <3>2, <3>3, <3>4 DEF Course
  <2> QED
    BY <2>2, <2>6, <2>7 DEF Course, Shifted
<1>2. ASSUME NEW j \in i + 1 .. Len(w1), w1[j].type = "iframe"
      PROVE  Follows(x, w1[j])
  <2>1. j \in 1 .. Len(w1)
    BY <1>0
  <2>2. CASE j <= Len(w)
    <3>1. w1[j] = w[j] /\ j \in i + 1 .. Len(w)
      BY <1>0, <2>1, <2>2, OntoAt
    <3> QED
      BY <1>2, <3>1 DEF Within
  <2>3. CASE ~(j <= Len(w))
    <3>1. PICK z \in Int : Pours(g, z)
      BY DEF Proceeds
    <3>0. w1[j].type = "iframe" /\ ~(j <= Len(w)) /\ j \in 1 .. Len(w1)
      BY <1>2, <2>1, <2>3
    <3>a. Poured(g, w1[j], j - Len(w) - z)
      BY <3>0, <3>1, PouredAt
    <3> DEFINE p == j - Len(w) - z
    <3>2. /\ can_receive_data(g) /\ p \in 1 .. Len(t) /\ p <= Outstanding(g)
          /\ w1[j].payload = t[p] /\ w1[j].ns = (g.va + p - 1) % Modulus
      BY <3>a DEF Poured
    <3> HIDE DEF p, s, t
    <3>3. Follows(x, Kept(g, p))
      BY <1>1, <3>2, Zenon
    <3>4. p \in Nat
      BY <3>2
    <3>5. w1[j].payload = g.iframe_resend_queue[p]
      BY <3>2, Zenon DEF t
    <3> QED
      BY <1>0, <3>2, <3>3, <3>4, <3>5, FollowsSent, Zenon
  <2> QED
    BY <2>2, <2>3
<1> QED
  BY <1>1, <1>2 DEF Within

\* A frame that the call sends has what is stored behind it.
LEMMA SentBehind ==
    ASSUME NEW g, Good(g), NEW z \in Int, Pours(g, z), NEW n, Stocked(g, n), Mute(g),
           NEW w1, NEW w, Onto(w1, w, g.out),
           NEW i \in 1 .. Len(w1), w1[i].type = "iframe", ~(i <= Len(w))
    PROVE  Behind(w1[i], w1, i, g)
<1> DEFINE t == g.iframe_resend_queue
           p == i - Len(w) - z
<1>0. Len(w) \in Nat /\ Len(w1) \in Nat /\ i \in Nat
  BY DEF Onto
<1>1. /\ can_receive_data(g) /\ p \in 1 .. Len(t) /\ p <= Outstanding(g)
      /\ w1[i].payload = t[p]
  <2>1. Poured(g, w1[i], p)
    BY PouredAt
  <2> QED
    BY <2>1 DEF Poured
<1>2. Sent(g) \in Nat /\ Sent(g) = Outstanding(g) /\ Len(t) \in Nat
  BY <1>1, SentIs
<1>3. ASSUME NEW j \in i + 1 .. Len(w1), w1[j].type = "iframe"
      PROVE  w1[i].payload < w1[j].payload
  <2> DEFINE q == j - Len(w) - z
  <2>1. j \in 1 .. Len(w1) /\ ~(j <= Len(w))
    BY <1>0
  <2>2. q \in 1 .. Len(t) /\ w1[j].payload = t[q]
    <3>1. Poured(g, w1[j], q)
      BY <1>3, <2>1, PouredAt
    <3> QED
      BY <3>1 DEF Poured
  <2>3. p < q
    BY <1>0
  <2> QED
    BY <1>1, <2>2, <2>3 DEF Stocked
<1>4. ASSUME NEW j \in 1 .. Len(t), Sent(g) < j PROVE w1[i].payload < t[j]
  <2>1. p < j
    BY <1>1, <1>2, <1>4
  <2> QED
    BY <1>1, <2>1 DEF Stocked
<1>5. ~ResetIn(w1, i + 1, Len(w1))
  <2>1. ASSUME ResetIn(w1, i + 1, Len(w1)) PROVE FALSE
    <3>1. ResetIn(w, i + 1, Len(w))
      BY <1>0, <2>1, ResetOld
    <3>2. \A q : q \notin i + 1 .. Len(w)
      BY <1>0
    <3> QED
      BY <3>1, <3>2 DEF ResetIn
  <2> QED
    BY <2>1
<1> QED
  BY <1>3, <1>4, <1>5 DEF Behind

\* And all of it follows.
LEMMA SentWithin ==
    ASSUME NEW g, Good(g), NEW z \in Int, Pours(g, z), NEW n, Stocked(g, n),
           can_receive_data(g) => Outstanding(g) \in 0 .. K,
           NEW w1, NEW w, Onto(w1, w, g.out),
           NEW i \in 1 .. Len(w1), w1[i].type = "iframe", ~(i <= Len(w))
    PROVE  Within(w1[i], w1, i, g)
<1> DEFINE t == g.iframe_resend_queue
           p == i - Len(w) - z
<1>0. Len(w) \in Nat /\ Len(w1) \in Nat /\ i \in Nat /\ g.va \in Int
  BY SMTT(60) DEF Onto, Good, ConnectionType
<1>1. /\ can_receive_data(g) /\ p \in 1 .. Len(t) /\ p <= Outstanding(g)
      /\ w1[i].payload = t[p] /\ w1[i].ns = (g.va + p - 1) % Modulus
  <2>1. Poured(g, w1[i], p)
    BY PouredAt
  <2> QED
    BY <2>1 DEF Poured
<1>2. Len(t) \in Nat
  BY <1>1, SentIs
<1>3. ASSUME NEW j \in i + 1 .. Len(w1), w1[j].type = "iframe"
      PROVE  Follows(w1[i], w1[j])
  <2> DEFINE q == j - Len(w) - z
  <2>1. j \in 1 .. Len(w1) /\ ~(j <= Len(w))
    BY <1>0
  <2>2. q \in 1 .. Len(t) /\ w1[j].payload = t[q]
    <3>1. Poured(g, w1[j], q)
      BY <1>3, <2>1, PouredAt
    <3> QED
      BY <3>1 DEF Poured
  <2>3. p < q
    BY <1>0
  <2>4. w1[i].payload < w1[j].payload
    BY <1>1, <2>2, <2>3 DEF Stocked
  <2> QED
    BY <2>4 DEF Follows
<1>4. ASSUME NEW j \in 1 .. Len(t), j <= Outstanding(g)
      PROVE  Follows(w1[i], Kept(g, j))
  <2>1. Kept(g, j).payload = t[j] /\ Kept(g, j).ns = g.va + j - 1
    BY DEF Kept
  <2>2. CASE p < j
    <3>1. w1[i].payload < t[j]
      BY <1>1, <2>2 DEF Stocked
    <3> QED
      BY <2>1, <3>1, Zenon DEF Follows
  <2>3. CASE ~(p < j)
    <3> HIDE DEF p, t
    <3>1. p \in Nat /\ j \in Nat /\ p - j \in 0 .. K - 1
      BY <1>1, <1>2, <2>3
    <3> DEFINE y == g.va + p - 1
               v == g.va + j - 1
    <3>2. y \in Int /\ v \in Int /\ y - v = p - j /\ Modulus \in Nat \ {0}
      BY <1>0, <3>1, SMTT(30)
    <3> HIDE DEF y, v
    <3>3. ((y % Modulus) + (-v)) % Modulus = (y + (-v)) % Modulus
      <4>1. -v \in Int
        BY <3>2
      <4> QED
        BY <3>2, <4>1, PlaceSum, Zenon
    <3>4. y + (-v) = p - j /\ p - j \in 0 .. Modulus - 1
      BY <3>1, <3>2
    <3>5. (p - j) % Modulus = p - j
      BY <3>2, <3>4, ModPlain, Zenon
    <3>6. (y % Modulus) + (-v) = (y % Modulus) - v
      <4>1. y % Modulus \in 0 .. Modulus - 1
        BY <3>2, ModIn, Zenon
      <4> DEFINE u == y % Modulus
      <4>2. u \in Int
        BY <4>1
      <4> HIDE DEF u
      <4>3. u + (-v) = u - v
        BY <3>2, <4>2
      <4> QED
        BY <4>3 DEF u
    <3>7. ((y % Modulus) - v) % Modulus = p - j
      BY <3>3, <3>4, <3>5, <3>6, Zenon
    <3>8. p - j < K
      BY <3>1
    <3>9. (w1[i].ns - Kept(g, j).ns) % Modulus < K
      <4>1. w1[i].ns = y % Modulus /\ Kept(g, j).ns = v
        BY <1>1, <2>1 DEF y, v, p
      <4> QED
        BY <3>7, <3>8, <4>1, Zenon
    <3> QED
      BY <3>9, Zenon DEF Follows
  <2> QED
    BY <2>2, <2>3
<1> QED
  BY <1>3, <1>4 DEF Within

\* What the receiver r has heard, as a datum: l, under the number before V(R).
Mark(r, l) == [ns |-> r.vr - 1, payload |-> l]

\* The data on their way from c to r, with w in between, when n have been submitted and
\* l is the last that was heard.
Stream(c, r, l, w, n) ==
    /\ n \in Nat /\ l \in 0 .. n
    /\ w \in Seq(Frame)
    /\ Stocked(c, n)
    /\ \A i \in 1 .. Len(w) : w[i].type = "iframe" =>
          w[i].payload \in 1 .. n /\ Behind(w[i], w, i, c) /\ Within(w[i], w, i, c)
    /\ Behind(Mark(r, l), w, 0, c)
    /\ can_receive_data(r) => Within(Mark(r, l), w, 0, c)

\* The number of an I frame.
LEMMA FrameNs ==
    ASSUME NEW f \in Frame, f.type = "iframe"
    PROVE  f.ns \in Nat
  BY DEF Frame

\* A store that moves on holds data in their order.
LEMMA StockedOn ==
    ASSUME NEW c, NEW g, Good(c), Good(g), NEW n \in Nat, NEW m \in {n, n + 1},
           Stocked(c, n), g.iframe_resend_queue = <<>> \/ \E k : Course(c, g, n, m, k)
    PROVE  Stocked(g, m)
<1> DEFINE s == c.iframe_resend_queue
           t == g.iframe_resend_queue
<1>1. CASE t = <<>>
  <2>1. \A j : j \notin 1 .. Len(t)
    BY <1>1
  <2> QED
    BY <2>1 DEF Stocked
<1>2. ASSUME NEW k, Course(c, g, n, m, k) PROVE Stocked(g, m)
  <2>1. Len(s) \in Nat /\ Len(t) \in Nat /\ k \in 0 .. Len(s)
    BY <1>2, SentIs DEF Course
  <2>2. ASSUME NEW j \in 1 .. Len(t)
        PROVE  \/ j + k \in 1 .. Len(s) /\ t[j] = s[j + k]
               \/ m = n + 1 /\ t[j] = m /\ j + k = Len(s) + 1
    BY <1>2, <2>1 DEF Course, Shifted
  <2>3. ASSUME NEW j \in 1 .. Len(t) PROVE t[j] \in 1 .. m
    <3>1. CASE j + k \in 1 .. Len(s) /\ t[j] = s[j + k]
      <4>1. s[j + k] \in 1 .. n
        BY <3>1 DEF Stocked
      <4> QED
        BY <3>1, <4>1
    <3> QED
      BY <2>2, <3>1
  <2>4. ASSUME NEW i \in 1 .. Len(t), NEW j \in 1 .. Len(t), i < j PROVE t[i] < t[j]
    <3>1. i + k \in 1 .. Len(s) /\ t[i] = s[i + k]
      <4>1. j + k <= Len(s) + 1
        BY <2>1, <2>2
      <4>2. i + k # Len(s) + 1
        BY <2>1, <2>4, <4>1
      <4> QED
        BY <2>2, <4>2
    <3>2. s[i + k] \in 1 .. n
      BY <3>1 DEF Stocked
    <3>4. s[i + k] < n + 1
      BY <3>2
    <3>3. CASE j + k \in 1 .. Len(s) /\ t[j] = s[j + k]
      <4>1. i + k < j + k
        BY <2>1, <2>4
      <4>2. s[i + k] < s[j + k]
        BY <3>1, <3>3, <4>1 DEF Stocked
      <4> QED
        BY <3>1, <3>3, <4>2
    <3>5. CASE m = n + 1 /\ t[j] = m
      BY <3>1, <3>4, <3>5
    <3> QED
      BY <2>2, <3>3, <3>5
  <2> QED
    BY <2>3, <2>4 DEF Stocked
<1> QED
  BY <1>1, <1>2

\* A call at the sender keeps the data on their way in order.
LEMMA StreamSent ==
    ASSUME NEW c, NEW g, Good(c), Good(g), NEW n, NEW m \in {n, n + 1},
           Proceeds(c, g, n, m), NEW w1, NEW w, Onto(w1, w, g.out),
           NEW r, Good(r), NEW l, Stream(c, r, l, w, n)
    PROVE  Stream(g, r, l, w1, m)
<1>0. /\ n \in Nat /\ m \in Nat /\ n <= m /\ l \in 0 .. n /\ l \in 0 .. m
      /\ w1 \in Seq(Frame) /\ w \in Seq(Frame)
      /\ Len(w1) \in Nat /\ Len(w) \in Nat
  BY DEF Stream, Onto
<1>1. g.iframe_resend_queue = <<>> \/ \E k : Course(c, g, n, m, k)
  BY DEF Proceeds, Course
<1>2. Stocked(g, m)
  BY <1>0, <1>1, StockedOn DEF Stream
<1>3. can_receive_data(g) => Outstanding(g) \in 0 .. K
  BY DEF Proceeds
<1>4. ASSUME NEW i \in 1 .. Len(w1), w1[i].type = "iframe"
      PROVE  w1[i].payload \in 1 .. m /\ Behind(w1[i], w1, i, g) /\ Within(w1[i], w1, i, g)
  <2>1. CASE i <= Len(w)
    <3>1. i \in 1 .. Len(w) /\ w1[i] = w[i] /\ i \in 0 .. Len(w)
      BY <1>0, <2>1, OntoAt
    <3> DEFINE x == w[i]
    <3>2. x.type = "iframe" /\ x.payload \in 1 .. n /\ Behind(x, w, i, c) /\ Within(x, w, i, c)
      BY <1>4, <3>1 DEF Stream
    <3>3. x \in Frame
      BY <1>0, <3>1
    <3>4. x.ns \in Int
      BY <3>2, <3>3, FrameNs
    <3>5. w1[i] = x
      BY <3>1
    <3> HIDE DEF x
    <3>6. x.payload \in Int /\ x.payload <= n /\ x.payload \in 1 .. m
      BY <1>0, <3>2
    <3>7. Behind(x, w1, i, g)
      BY <1>0, <3>1, <3>2, <3>6, BehindOn
    <3>8. Within(x, w1, i, g)
      BY <1>0, <3>1, <3>2, <3>4, <3>6, WithinOn
    <3> QED
      BY <3>5, <3>6, <3>7, <3>8
  <2>2. CASE ~(i <= Len(w))
    <3>1. PICK z \in Int : Pours(g, z)
      BY DEF Proceeds
    <3>a. Poured(g, w1[i], i - Len(w) - z)
      BY <1>4, <2>2, <3>1, PouredAt
    <3>2. /\ can_receive_data(g) /\ i - Len(w) - z \in 1 .. Len(g.iframe_resend_queue)
          /\ w1[i].payload = g.iframe_resend_queue[i - Len(w) - z]
      BY <3>a DEF Poured
    <3>3. g.iframe_resend_queue # <<>>
      BY <3>2
    <3>4. Mute(g)
      BY <1>1, <3>2, <3>3 DEF Course
    <3>5. w1[i].payload \in 1 .. m
      BY <1>2, <3>2 DEF Stocked
    <3>6. Behind(w1[i], w1, i, g)
      BY <1>2, <1>4, <2>2, <3>1, <3>4, SentBehind
    <3>7. Within(w1[i], w1, i, g)
      BY <1>2, <1>3, <1>4, <2>2, <3>1, SentWithin
    <3> QED
      BY <3>5, <3>6, <3>7
  <2> QED
    BY <2>1, <2>2
<1> DEFINE x == Mark(r, l)
<1>5. x.payload = l /\ x.ns = r.vr - 1
  BY DEF Mark
<1>6. r.vr \in Int
  BY DEF Good, ConnectionType
<1>7. Behind(x, w, 0, c) /\ (can_receive_data(r) => Within(x, w, 0, c))
  BY DEF Stream
<1> HIDE DEF x
<1>8. x.payload \in Int /\ x.payload <= n /\ x.ns \in Int /\ 0 \in 0 .. Len(w)
  BY <1>0, <1>5, <1>6
<1>9. Behind(x, w1, 0, g)
  BY <1>0, <1>7, <1>8, BehindOn
<1>10. can_receive_data(r) => Within(x, w1, 0, g)
  BY <1>0, <1>7, <1>8, WithinOn
<1> QED
  BY <1>0, <1>2, <1>4, <1>9, <1>10 DEF Stream, x

\* What is behind x still is when the first frame is taken.
LEMMA BehindTail ==
    ASSUME NEW w \in Seq(Frame), w # <<>>, NEW c, NEW i \in Nat, NEW h \in Nat, i <= h + 1,
           NEW x, Behind(x, w, i, c)
    PROVE  Behind(x, Tail(w), h, c)
<1> DEFINE t == Tail(w)
<1>0. /\ Len(w) \in Nat \ {0} /\ Len(t) = Len(w) - 1
      /\ \A j \in 1 .. Len(w) - 1 : t[j] = w[j + 1]
  BY TailIs
<1> HIDE DEF t
<1>1. ASSUME NEW j \in h + 1 .. Len(t), ResetIn(t, h + 1, j) PROVE ResetIn(w, i + 1, j + 1)
  <2>1. PICK q \in h + 1 .. j : Resets(t[q])
    BY <1>1 DEF ResetIn
  <2>2. q + 1 \in i + 1 .. j + 1 /\ t[q] = w[q + 1]
    BY <1>0
  <2> QED
    BY <2>1, <2>2 DEF ResetIn
<1>2. ASSUME NEW j \in h + 1 .. Len(t), t[j].type = "iframe", ResetIn(t, h + 1, j)
      PROVE  x.payload < t[j].payload
  <2>1. j + 1 \in i + 1 .. Len(w) /\ t[j] = w[j + 1]
    BY <1>0
  <2>2. ResetIn(w, i + 1, j + 1)
    BY <1>1, <1>2
  <2> QED
    BY <1>2, <2>1, <2>2 DEF Behind
<1>3. ResetIn(t, h + 1, Len(t)) => ResetIn(w, i + 1, Len(w))
  <2>1. ASSUME ResetIn(t, h + 1, Len(t)) PROVE ResetIn(w, i + 1, Len(w))
    <3>1. PICK q \in h + 1 .. Len(t) : Resets(t[q])
      BY <2>1 DEF ResetIn
    <3>2. q + 1 \in i + 1 .. Len(w) /\ t[q] = w[q + 1]
      BY <1>0
    <3> QED
      BY <3>1, <3>2 DEF ResetIn
  <2> QED
    BY <2>1
<1>4. ASSUME NEW j \in 1 .. Len(c.iframe_resend_queue),
             Sent(c) < j \/ (can_receive_data(c) /\ ResetIn(t, h + 1, Len(t)))
      PROVE  x.payload < c.iframe_resend_queue[j]
  BY <1>3, <1>4 DEF Behind
<1>5. Behind(x, t, h, c)
  BY <1>2, <1>4 DEF Behind
<1> QED
  BY <1>5 DEF t

\* And follows it.
LEMMA WithinTail ==
    ASSUME NEW w \in Seq(Frame), w # <<>>, NEW c, NEW i \in Nat, NEW h \in Nat, i <= h + 1,
           NEW x, Within(x, w, i, c)
    PROVE  Within(x, Tail(w), h, c)
<1> DEFINE t == Tail(w)
<1>0. /\ Len(w) \in Nat \ {0} /\ Len(t) = Len(w) - 1
      /\ \A j \in 1 .. Len(w) - 1 : t[j] = w[j + 1]
  BY TailIs
<1> HIDE DEF t
<1>1. ASSUME NEW j \in h + 1 .. Len(t), t[j].type = "iframe" PROVE Follows(x, t[j])
  <2>1. j + 1 \in i + 1 .. Len(w) /\ t[j] = w[j + 1]
    BY <1>0
  <2> QED
    BY <1>1, <2>1 DEF Within
<1>2. Within(x, t, h, c)
  BY <1>1 DEF Within
<1> QED
  BY <1>2 DEF t

\* The data on their way without the first frame, for a receiver that hears nothing
\* of it.
LEMMA StreamTail ==
    ASSUME NEW c, NEW r, NEW l, NEW w, w # <<>>, NEW n, Stream(c, r, l, w, n)
    PROVE  Stream(c, r, l, Tail(w), n)
<1> DEFINE t == Tail(w)
<1>0. /\ w \in Seq(Frame) /\ t \in Seq(Frame) /\ Len(w) \in Nat \ {0} /\ Len(t) = Len(w) - 1
      /\ \A j \in 1 .. Len(w) - 1 : t[j] = w[j + 1]
  BY TailIs DEF Stream
<1>1. ASSUME NEW i \in 1 .. Len(t), t[i].type = "iframe"
      PROVE  t[i].payload \in 1 .. n /\ Behind(t[i], t, i, c) /\ Within(t[i], t, i, c)
  <2> HIDE DEF t
  <2>1. i + 1 \in 1 .. Len(w) /\ t[i] = w[i + 1]
    BY <1>0
  <2>2. /\ w[i + 1].payload \in 1 .. n
        /\ Behind(w[i + 1], w, i + 1, c) /\ Within(w[i + 1], w, i + 1, c)
    BY <1>1, <2>1 DEF Stream
  <2> DEFINE x == w[i + 1]
             k == i + 1
  <2>3. Behind(x, w, k, c) /\ Within(x, w, k, c) /\ k \in Nat /\ i \in Nat /\ k <= i + 1
    BY <2>2
  <2> HIDE DEF x, k
  <2>4. Behind(x, Tail(w), i, c) /\ Within(x, Tail(w), i, c)
    BY <1>0, <2>3, BehindTail, WithinTail
  <2> QED
    BY <2>1, <2>2, <2>4 DEF x, t
<1> DEFINE y == Mark(r, l)
<1>2. Behind(y, w, 0, c) /\ (can_receive_data(r) => Within(y, w, 0, c))
  BY DEF Stream
<1> HIDE DEF y
<1>3. Behind(y, t, 0, c)
  BY <1>0, <1>2, BehindTail
<1>4. can_receive_data(r) => Within(y, t, 0, c)
  BY <1>0, <1>2, WithinTail
<1> QED
  BY <1>0, <1>1, <1>3, <1>4 DEF Stream, y

\* The receiver that did not move V(R) or went down.
LEMMA StreamHeard ==
    ASSUME NEW c, NEW r, NEW l, NEW w, NEW n, Stream(c, r, l, w, n),
           NEW g, can_receive_data(g) => can_receive_data(r) /\ g.vr = r.vr
    PROVE  Stream(c, g, l, w, n)
<1>1. Behind(Mark(g, l), w, 0, c)
  BY DEF Stream, Behind, Mark
<1>2. ASSUME can_receive_data(g) PROVE Within(Mark(g, l), w, 0, c)
  <2>1. Mark(g, l) = Mark(r, l) /\ can_receive_data(r)
    BY <1>2 DEF Mark
  <2> QED
    BY <2>1 DEF Stream
<1> QED
  BY <1>1, <1>2 DEF Stream

\* The receiver takes a frame that starts the numbers again.
LEMMA StreamReset ==
    ASSUME NEW c, NEW r, NEW l, NEW w, w # <<>>, NEW n, Stream(c, r, l, w, n),
           Resets(Head(w)), NEW g
    PROVE  Stream(c, g, l, Tail(w), n)
<1> DEFINE t == Tail(w)
<1>0. /\ w \in Seq(Frame) /\ t \in Seq(Frame) /\ Len(w) \in Nat \ {0} /\ Len(t) = Len(w) - 1
      /\ Head(w) = w[1]
      /\ \A j \in 1 .. Len(w) - 1 : t[j] = w[j + 1]
  BY TailIs DEF Stream
<1>1. Stream(c, r, l, t, n)
  BY StreamTail
<1> HIDE DEF t
<1>2. Behind(Mark(g, l), t, 0, c)
  BY <1>1 DEF Stream, Behind, Mark
<1>3. \A q \in 1 .. Len(w) : ResetIn(w, 1, q)
  <2>1. ASSUME NEW q \in 1 .. Len(w) PROVE ResetIn(w, 1, q)
    <3>1. 1 \in 1 .. q /\ Resets(w[1])
      BY <1>0
    <3> QED
      BY <3>1 DEF ResetIn
  <2> QED
    BY <2>1
<1>4. ASSUME NEW j \in 0 + 1 .. Len(t), t[j].type = "iframe"
      PROVE  Follows(Mark(g, l), t[j])
  <2>1. j + 1 \in 0 + 1 .. Len(w) /\ t[j] = w[j + 1] /\ ResetIn(w, 0 + 1, j + 1)
    BY <1>0, <1>3
  <2>2. Mark(r, l).payload < w[j + 1].payload
    BY <1>4, <2>1 DEF Stream, Behind
  <2>3. l < t[j].payload
    BY <2>1, <2>2 DEF Mark
  <2> QED
    BY <2>3 DEF Follows, Mark
<1>5. ASSUME can_receive_data(c), NEW j \in 1 .. Len(c.iframe_resend_queue)
      PROVE  Follows(Mark(g, l), Kept(c, j))
  <2>1. ResetIn(w, 0 + 1, Len(w))
    <3>1. Len(w) \in 1 .. Len(w) /\ 0 + 1 = 1
      BY <1>0
    <3> QED
      BY <1>3, <3>1
  <2>2. Mark(r, l).payload < c.iframe_resend_queue[j]
    BY <1>5, <2>1 DEF Stream, Behind
  <2>3. Mark(g, l).payload < Kept(c, j).payload
    BY <2>2 DEF Mark, Kept
  <2> QED
    BY <2>3 DEF Follows
<1>6. Within(Mark(g, l), t, 0, c)
  BY <1>4, <1>5 DEF Within
<1>7. Stream(c, g, l, t, n)
  BY <1>1, <1>2, <1>6 DEF Stream
<1> QED
  BY <1>7 DEF t

\* What follows the datum that is heard follows the mark behind it.
LEMMA MarkOn ==
    ASSUME NEW x, NEW r, r.vr \in Int, x.ns = r.vr, NEW g, g.vr = (r.vr + 1) % Modulus,
           NEW y, y.ns \in Int, Follows(x, y)
    PROVE  Follows(Mark(g, x.payload), y)
<1> DEFINE u == r.vr + 1
           v == y.ns + 1
<1>1. u \in Int /\ -v \in Int /\ Modulus \in Nat \ {0}
  OBVIOUS
<1>2. ((u % Modulus) + (-v)) % Modulus = (u + (-v)) % Modulus
  BY <1>1, PlaceSum, Zenon
<1>3. u + (-v) = r.vr - y.ns
  OBVIOUS
<1>4. u % Modulus \in 0 .. Modulus - 1
  BY <1>1, ModIn, Zenon
<1>5. (u % Modulus) + (-v) = (u % Modulus) - 1 - y.ns
  <2> DEFINE q == u % Modulus
  <2>1. q \in Int
    BY <1>4
  <2> HIDE DEF q
  <2>2. q + (-v) = q - 1 - y.ns
    BY <2>1
  <2> QED
    BY <2>2 DEF q
<1>6. ((u % Modulus) - 1 - y.ns) % Modulus = (r.vr - y.ns) % Modulus
  BY <1>2, <1>3, <1>5, Zenon
<1>7. x.payload < y.payload \/ (r.vr - y.ns) % Modulus < K
  BY Zenon DEF Follows
<1>8. x.payload < y.payload \/ ((u % Modulus) - 1 - y.ns) % Modulus < K
  BY <1>6, <1>7, Zenon
<1>9. Mark(g, x.payload).payload = x.payload /\ Mark(g, x.payload).ns = (u % Modulus) - 1
  BY DEF Mark
<1> QED
  BY <1>8, <1>9, Zenon DEF Follows

\* A datum whose number is V(R) is a later one than the last that was heard.
LEMMA HeardLater ==
    ASSUME NEW r, r.vr \in Int, NEW l, NEW f, f.ns = r.vr, Follows(Mark(r, l), f)
    PROVE  l < f.payload
<1>1. l < f.payload \/ (r.vr - 1 - f.ns) % Modulus < K
  BY DEF Follows, Mark
<1>2. r.vr - 1 - f.ns = -1
  OBVIOUS
<1>3. (-1) % Modulus = Modulus - 1
  <2>1. -1 \in -Modulus .. -1 /\ Modulus \in Nat \ {0}
    OBVIOUS
  <2>2. (-1) % Modulus = -1 + Modulus
    BY <2>1, ModUnder, Zenon
  <2> QED
    BY <2>2
<1>4. (r.vr - 1 - f.ns) % Modulus = Modulus - 1
  BY <1>2, <1>3, Zenon
<1>5. ~((r.vr - 1 - f.ns) % Modulus < K)
  <2>1. ~(Modulus - 1 < K)
    OBVIOUS
  <2> QED
    BY <1>4, <2>1, Zenon
<1> QED
  BY <1>1, <1>5, Zenon

\* The receiver hears the first frame.
LEMMA StreamTaken ==
    ASSUME NEW c, Good(c), NEW r, Good(r), can_receive_data(r),
           NEW l, NEW w, w # <<>>, NEW n, Stream(c, r, l, w, n),
           Head(w).type = "iframe", Head(w).ns = r.vr,
           NEW g, g.vr = (r.vr + 1) % Modulus
    PROVE  /\ Stream(c, g, Head(w).payload, Tail(w), n)
           /\ Head(w).payload \in l + 1 .. n
<1> DEFINE t == Tail(w)
           x == w[1]
<1>0. /\ w \in Seq(Frame) /\ t \in Seq(Frame) /\ Len(w) \in Nat \ {0} /\ Len(t) = Len(w) - 1
      /\ Head(w) = x /\ x \in Frame
      /\ \A j \in 1 .. Len(w) - 1 : t[j] = w[j + 1]
  BY TailIs DEF Stream
<1>1. Stream(c, r, l, t, n)
  BY StreamTail
<1>2. 1 \in 0 + 1 .. Len(w) /\ 1 \in 1 .. Len(w)
  BY <1>0
<1>3. x.type = "iframe" /\ x.ns = r.vr
  BY <1>0
<1>4. x.payload \in 1 .. n /\ Behind(x, w, 1, c) /\ Within(x, w, 1, c)
  BY <1>2, <1>3 DEF Stream
<1>5. Behind(x, t, 0, c) /\ Within(x, t, 0, c)
  BY <1>0, <1>4, BehindTail, WithinTail
<1>6. Follows(Mark(r, l), x)
  BY <1>2, <1>3 DEF Stream, Within
<1>7. r.vr \in Int /\ c.va \in Int
  BY DEF Good, ConnectionType
<1> HIDE DEF t, x
<1>8. l < x.payload
  BY <1>3, <1>6, <1>7, HeardLater
<1>9. Behind(Mark(g, x.payload), t, 0, c)
  BY <1>5 DEF Behind, Mark
<1>10. ASSUME NEW j \in 0 + 1 .. Len(t), t[j].type = "iframe"
       PROVE  Follows(Mark(g, x.payload), t[j])
  <2>1. Follows(x, t[j])
    BY <1>5, <1>10 DEF Within
  <2>2. t[j] \in Frame
    BY <1>0
  <2>3. t[j].ns \in Int
    BY <1>10, <2>2, FrameNs
  <2> QED
    BY <1>3, <1>7, <2>1, <2>3, MarkOn
<1>11. ASSUME can_receive_data(c), NEW j \in 1 .. Len(c.iframe_resend_queue),
              j <= Outstanding(c)
       PROVE  Follows(Mark(g, x.payload), Kept(c, j))
  <2>1. Follows(x, Kept(c, j))
    BY <1>5, <1>11 DEF Within
  <2>2. Kept(c, j).ns = c.va + j - 1
    BY DEF Kept
  <2>3. Kept(c, j).ns \in Int
    BY <1>7, <2>2
  <2> QED
    BY <1>3, <1>7, <2>1, <2>3, MarkOn
<1>12. Within(Mark(g, x.payload), t, 0, c)
  BY <1>10, <1>11 DEF Within
<1>13. x.payload \in l + 1 .. n /\ x.payload \in 0 .. n
  BY <1>4, <1>8 DEF Stream
<1>14. Stream(c, g, x.payload, t, n)
  BY <1>1, <1>9, <1>12, <1>13 DEF Stream
<1> QED
  BY <1>0, <1>13, <1>14 DEF t

------------------------------------------------------------------------------
(* What a handler makes of the store and of what is heard, and what the    *)
(* poll after it sends.                                                    *)

\* A link in any state but Disconnected is one of version 2.0.
Plain(c) == c.st # "Disconnected" => c.modulus = Modulus

\* The store of d is that of c without what V(A) has moved over.
Drops(c, d) ==
    \E k \in 0 .. Len(c.iframe_resend_queue) :
        /\ d.va = (c.va + k) % Modulus
        /\ Len(d.iframe_resend_queue) = Len(c.iframe_resend_queue) - k
        /\ \A j \in 1 .. Len(d.iframe_resend_queue) :
              d.iframe_resend_queue[j] = c.iframe_resend_queue[j + k]

\* What a handler makes of the data of c, before the poll.
Goes(c, d, n, m) ==
    \/ d.iframe_resend_queue = <<>>
    \/ /\ can_receive_data(c) /\ can_receive_data(d) /\ Mute(d)
       /\ \E k \in 0 .. Len(c.iframe_resend_queue) :
             Shifted(c, d, k, n, m) /\ d.va = (c.va + k) % Modulus
    \/ /\ ~can_receive_data(c) /\ can_receive_data(d) /\ Mute(d)
       /\ d.iframe_resend_queue = c.iframe_resend_queue /\ Sent(c) = 0
    \/ /\ ~can_receive_data(d)
       /\ d.iframe_resend_queue = c.iframe_resend_queue
       /\ \A j \in 1 .. Len(c.iframe_resend_queue) : j <= Sent(c) => j <= Sent(d)

\* What it makes of what was heard: nothing, a link whose numbers start again, or the
\* datum of f.
Listens(c, d, f) ==
    \/ /\ d.up = <<>>
       /\ can_receive_data(d) => (can_receive_data(c) /\ d.vr = c.vr) \/ Resets(f)
    \/ /\ f.type = "iframe" /\ f.ns = c.vr /\ can_receive_data(c)
       /\ can_receive_data(d)
       /\ d.up = <<f.payload>> /\ d.vr = (c.vr + 1) % Modulus

\* A handler that found c, with f if a frame came in, and left d.
Does(c, d, n, m, f) == Silent(d) /\ Plain(d) /\ Goes(c, d, n, m) /\ Listens(c, d, f)

\* A call that found c and left g.
Done(c, g, n, m, f) == Plain(g) /\ Proceeds(c, g, n, m) /\ Listens(c, g, f)

\* Frames that do not reset leave a mute connection mute.
LEMMA MuteMore ==
    ASSUME NEW c \in ConnectionType, Mute(c), NEW d,
           d.out = c.out \/ \E f \in Frame : ~Resets(f) /\ d.out = Append(c.out, f)
    PROVE  Mute(d)
<1>1. c.out \in Seq(Frame)
  BY DEF ConnectionType
<1>2. CASE d.out = c.out
  BY <1>2 DEF Mute
<1>3. ASSUME NEW f \in Frame, ~Resets(f), d.out = Append(c.out, f)
      PROVE  Mute(d)
  <2>1. DOMAIN d.out = 1 .. Len(c.out) + 1 /\ DOMAIN c.out = 1 .. Len(c.out)
        /\ Len(c.out) \in Nat
    BY <1>1, <1>3, AppendProperties
  <2>2. d.out[Len(c.out) + 1] = f /\ \A i \in 1 .. Len(c.out) : d.out[i] = c.out[i]
    BY <1>1, <1>3, AppendProperties
  <2> QED
    BY <1>3, <2>1, <2>2 DEF Mute
<1> QED
  BY <1>2, <1>3

\* Nor do the frames that a link that stays up sends.
LEMMA Answering ==
    ASSUME NEW n \in Nat, NEW p \in BOOLEAN, NEW q \in BOOLEAN
    PROVE  /\ Rr(p, n, q) \in Frame /\ ~Resets(Rr(p, n, q))
           /\ Rej(p, n) \in Frame /\ ~Resets(Rej(p, n))
  BY FramesAre DEF Rr, Rej, Resets

\* A call begins with nothing sent.
LEMMA StartMute ==
    ASSUME NEW c, Good(c)
    PROVE  Mute(start(c))
  BY DEF start, Mute, Good, ConnectionType

\* enquiry_response sends an RR.
LEMMA EnquiryMute ==
    ASSUME NEW c, Good(c), Mute(c), NEW f \in BOOLEAN
    PROVE  Mute(enquiry_response(c, f))
<1> DEFINE d == enquiry_response(c, f)
           r == Rr(f, c.vr, FALSE)
<1>1. c.vr \in Nat /\ c \in ConnectionType
  BY DEF Good, ConnectionType
<1>2. r \in Frame /\ ~Resets(r)
  BY <1>1, Answering
<1>3. d.out = Append(c.out, r)
  BY <1>1 DEF enquiry_response, send, ConnectionType
<1> HIDE DEF d, r
<1>4. Mute(d)
  BY <1>1, <1>2, <1>3, MuteMore
<1> QED
  BY <1>4 DEF d

\* The receiving half of iframe sends an RR, an REJ or nothing.
LEMMA ReceiveMute ==
    ASSUME NEW c, Good(c), Mute(c), can_receive_data(c), NEW f,
           f.poll \in BOOLEAN, f.payload \in Payload
    PROVE  Mute(receive_iframe(c, f))
<1>0. c \in ConnectionType /\ c.vr \in Nat
  BY DEF Good, ConnectionType
<1>1. CASE f.ns = c.vr
  <2> DEFINE d == [c EXCEPT !.vr = (@ + 1) % c.modulus, !.up = Append(@, f.payload)]
             e == [d EXCEPT !.acknowledge_pending = TRUE]
             r == Rr(TRUE, d.vr, FALSE)
             g == enquiry_response(d, TRUE)
  <2>1. e.out = c.out /\ d.vr = (c.vr + 1) % c.modulus
    BY <1>0 DEF ConnectionType
  <2>2. g.out = Append(c.out, r)
    BY <1>0 DEF enquiry_response, send, ConnectionType
  <2>3. r \in Frame /\ ~Resets(r)
    <3>1. c.modulus \in Nat \ {0} /\ c.vr + 1 \in Int
      BY <1>0, SMTT(30) DEF Good, Versioned, can_receive_data, ReceivingStates, ConnectionType
    <3>2. d.vr \in Nat
      BY <2>1, <3>1, ModIn
    <3> HIDE DEF d
    <3> QED
      BY <3>2, Answering
  <2>4. receive_iframe(c, f) = IF f.poll THEN g ELSE e
    BY <1>1 DEF receive_iframe
  <2> HIDE DEF d, e, g, r
  <2>5. Mute(g) /\ Mute(e)
    BY <1>0, <2>1, <2>2, <2>3, MuteMore
  <2> QED
    BY <2>4, <2>5
<1>2. CASE f.ns # c.vr /\ c.reject_exception
  BY <1>2, EnquiryMute DEF receive_iframe
<1>3. CASE f.ns # c.vr /\ ~c.reject_exception
  <2> DEFINE d == receive_iframe(c, f)
             r == Rej(f.poll, c.vr)
  <2>1. d.out = Append(c.out, r)
    BY <1>0, <1>3 DEF receive_iframe, send, ConnectionType
  <2>2. r \in Frame /\ ~Resets(r)
    BY <1>0, Answering
  <2> HIDE DEF d, r
  <2>3. Mute(d)
    BY <1>0, <2>1, <2>2, MuteMore
  <2> QED
    BY <2>3 DEF d
<1> QED
  BY <1>1, <1>2, <1>3

\* A store that stays drops nothing.
LEMMA DropsSame ==
    ASSUME NEW c, Good(c), can_receive_data(c), c.modulus = Modulus, NEW d, SameStore(c, d)
    PROVE  Drops(c, d)
<1> DEFINE s == c.iframe_resend_queue
<1>1. c.va \in 0 .. Modulus - 1 /\ Len(s) \in Nat /\ Modulus \in Nat \ {0}
  BY DEF Good, Window, ConnectionType
<1>2. (c.va + 0) % Modulus = c.va
  <2>1. c.va + 0 = c.va
    BY <1>1
  <2>2. c.va % Modulus = c.va
    BY <1>1, ModPlain, Zenon
  <2> QED
    BY <2>1, <2>2, Zenon
<1>3. d.va = c.va /\ d.iframe_resend_queue = s
  BY DEF SameStore
<1>4. 0 \in 0 .. Len(s) /\ Len(s) = Len(s) - 0 /\ \A j \in 1 .. Len(s) : s[j] = s[j + 0]
  BY <1>1
<1> QED
  BY <1>2, <1>3, <1>4 DEF Drops

\* update_ack drops what it acknowledges.
LEMMA UpdateDrops ==
    ASSUME NEW c, Good(c), can_receive_data(c), c.modulus = Modulus, NEW nr, in_range(c, nr)
    PROVE  Drops(c, update_ack(c, nr))
<1> DEFINE s == c.iframe_resend_queue
           k == ahead(c, c.va, nr)
           d == update_ack(c, nr)
<1>1. /\ c.va \in 0 .. Modulus - 1 /\ nr \in 0 .. Modulus - 1 /\ c.vs \in 0 .. Modulus - 1
      /\ s \in Seq(Payload) /\ Outstanding(c) <= Len(s) /\ Modulus \in Nat \ {0}
  BY DEF Good, Window, Versioned, Stored, TailOf, can_receive_data, ReceivingStates,
         ConnectionType, in_range
<1>2. k \in Nat /\ k <= Outstanding(c) /\ Outstanding(c) \in Nat
  BY <1>1, ModDiff DEF in_range, ahead, Outstanding
<1>3. k <= Len(s) /\ ~(k > Len(s)) /\ Len(s) \in Nat
  BY <1>1, <1>2
<1>4. d = [c EXCEPT !.va = nr, !.iframe_resend_queue = SubSeq(s, k + 1, Len(s))]
  BY <1>3 DEF update_ack
<1>5. d.va = nr /\ d.iframe_resend_queue = SubSeq(s, k + 1, Len(s))
  BY <1>4 DEF Good, ConnectionType
<1>6. (c.va + k) % Modulus = nr
  <2>1. k = (nr - c.va) % Modulus
    BY DEF ahead
  <2>2. nr - c.va \in Int /\ c.va \in Int /\ nr \in Int
    BY <1>1
  <2>3. (((nr - c.va) % Modulus) + c.va) % Modulus = ((nr - c.va) + c.va) % Modulus
    BY <1>1, <2>2, PlaceSum, Zenon
  <2>4. (nr - c.va) + c.va = nr
    BY <2>2
  <2>5. nr % Modulus = nr
    BY <1>1, ModPlain, Zenon
  <2> HIDE DEF k
  <2>6. k + c.va = c.va + k
    BY <1>2, <2>2
  <2> QED
    BY <2>1, <2>3, <2>4, <2>5, <2>6, Zenon
<1> HIDE DEF d, k, s
<1>7. /\ Len(SubSeq(s, k + 1, Len(s))) = Len(s) - k
      /\ \A j \in 1 .. Len(s) - k : SubSeq(s, k + 1, Len(s))[j] = s[j + k]
  BY <1>1, <1>2, <1>3, DropLen, SMTT(30)
<1>8. k \in 0 .. Len(s)
  BY <1>2, <1>3
<1>9. /\ d.va = (c.va + k) % Modulus /\ Len(d.iframe_resend_queue) = Len(s) - k
      /\ \A j \in 1 .. Len(d.iframe_resend_queue) : d.iframe_resend_queue[j] = s[j + k]
  BY <1>5, <1>6, <1>7
<1>10. Drops(c, d)
  BY <1>8, <1>9 DEF Drops, s
<1> QED
  BY <1>10 DEF d

\* What comes after leaves the store alone.
LEMMA DropsThen ==
    ASSUME NEW c, NEW d, NEW g, Drops(c, d), SameStore(d, g)
    PROVE  Drops(c, g)
  BY DEF Drops, SameStore

\* And so does what came before.
LEMMA DropsFrom ==
    ASSUME NEW b, NEW c, NEW d, Drops(c, d), SameStore(b, c)
    PROVE  Drops(b, d)
  BY DEF Drops, SameStore

\* check_iframe_acked drops what it acknowledges.
LEMMA AckedDrops ==
    ASSUME NEW c, Good(c), c.st = "Connected", c.modulus = Modulus, NEW nr, in_range(c, nr)
    PROVE  Drops(c, check_iframe_acked(c, nr))
<1> DEFINE a == update_ack(c, nr)
           d == check_iframe_acked(c, nr)
<1>1. can_receive_data(c)
  BY DEF can_receive_data, ReceivingStates
<1>2. Drops(c, a) /\ a \in ConnectionType
  BY <1>1, UpdateDrops, AckGood
<1>3. SameStore(a, d) \/ d = c
  <2>1. d \in {[a EXCEPT !.t1 = FALSE, !.t3 = TRUE], [a EXCEPT !.t1 = TRUE], c}
    BY DEF check_iframe_acked
  <2> HIDE DEF a, d
  <2> QED
    BY <1>2, <2>1 DEF SameStore, ConnectionType
<1> HIDE DEF a, d
<1>4. Drops(c, d)
  <2>1. CASE SameStore(a, d)
    BY <1>2, <2>1, DropsThen
  <2>2. CASE d = c
    BY <1>1, <2>2, DropsSame DEF SameStore
  <2> QED
    BY <1>3, <2>1, <2>2
<1> QED
  BY <1>4 DEF d

\* A link that stays up and drops what was acknowledged.
LEMMA GoesOn ==
    ASSUME NEW c, Good(c), NEW d, can_receive_data(c), can_receive_data(d), Mute(d),
           Drops(c, d), NEW n, NEW m
    PROVE  Goes(c, d, n, m)
<1> DEFINE s == c.iframe_resend_queue
           t == d.iframe_resend_queue
<1>1. PICK k \in 0 .. Len(s) :
         /\ d.va = (c.va + k) % Modulus
         /\ Len(t) = Len(s) - k /\ \A j \in 1 .. Len(t) : t[j] = s[j + k]
  BY DEF Drops
<1>2. Len(s) \in Nat
  BY SentIs
<1>3. ASSUME NEW j \in 1 .. Len(t) PROVE j + k <= Len(s) /\ t[j] = s[j + k]
  BY <1>1, <1>2
<1>4. Shifted(c, d, k, n, m)
  BY <1>3 DEF Shifted
<1> QED
  BY <1>1, <1>4 DEF Goes

\* How many are outstanding when n more are sent, and the numbers that those have.
LEMMA WindowOn ==
    ASSUME NEW c, Ready(c), can_receive_data(c), c.modulus = Modulus,
           NEW n \in Nat, n <= K - Outstanding(c)
    PROVE  /\ (((c.vs + n) % Modulus) - c.va) % Modulus = Outstanding(c) + n
           /\ \A i \in Nat : (c.vs + i - 1) % Modulus = (c.va + (Outstanding(c) + i) - 1) % Modulus
<1> DEFINE o == Outstanding(c)
<1>1. /\ c.vs \in 0 .. Modulus - 1 /\ c.va \in 0 .. Modulus - 1 /\ Modulus \in Nat \ {0}
      /\ o \in 0 .. K
  BY SendableFits
<1>2. o = (c.vs - c.va) % Modulus
  BY DEF Outstanding, ahead
<1> HIDE DEF o
<1>3. c.vs \in Int /\ c.va \in Int /\ -c.va \in Int /\ c.vs - c.va \in Int /\ n \in Int
      /\ c.vs + n \in Int /\ o \in Int
  BY <1>1
<1>4. (((c.vs + n) % Modulus) - c.va) % Modulus = o + n
  <2>1. (((c.vs + n) % Modulus) + (-c.va)) % Modulus = ((c.vs + n) + (-c.va)) % Modulus
    BY <1>1, <1>3, PlaceSum, ZenonT(40)
  <2>2. (((c.vs - c.va) % Modulus) + n) % Modulus = ((c.vs - c.va) + n) % Modulus
    BY <1>1, <1>3, PlaceSum, Zenon
  <2>3. (c.vs + n) + (-c.va) = (c.vs - c.va) + n
    BY <1>3
  <2>4. o + n \in 0 .. Modulus - 1
    BY <1>1 DEF o
  <2>5. (o + n) % Modulus = o + n
    BY <1>1, <2>4, ModPlain, Zenon
  <2>6. ((c.vs + n) % Modulus) + (-c.va) = ((c.vs + n) % Modulus) - c.va
    <3> DEFINE y == (c.vs + n) % Modulus
    <3>0. y \in 0 .. Modulus - 1
      BY <1>1, <1>3, ModIn, Zenon
    <3>1. y \in Int
      BY <3>0
    <3> HIDE DEF y
    <3>2. y + (-c.va) = y - c.va
      BY <1>3, <3>1
    <3> QED
      BY <3>2 DEF y
  <2>7. (o + n) % Modulus = ((c.vs - c.va) + n) % Modulus
    BY <1>2, <2>2, Zenon
  <2>8. (((c.vs + n) % Modulus) - c.va) % Modulus = ((c.vs - c.va) + n) % Modulus
    BY <2>1, <2>3, <2>6, Zenon
  <2> QED
    BY <2>5, <2>7, <2>8, Zenon
<1>5. ASSUME NEW i \in Nat
      PROVE  (c.vs + i - 1) % Modulus = (c.va + (o + i) - 1) % Modulus
  <2>1. (((c.vs - c.va) % Modulus) + (c.va + i - 1)) % Modulus
           = ((c.vs - c.va) + (c.va + i - 1)) % Modulus
    <3>1. c.va + i - 1 \in Int
      BY <1>3
    <3> QED
      BY <1>1, <1>3, <3>1, PlaceSum, ZenonT(40)
  <2>2. (c.vs - c.va) + (c.va + i - 1) = c.vs + i - 1
    BY <1>3
  <2>3. o + (c.va + i - 1) = c.va + (o + i) - 1
    <3> DEFINE a == c.va
    <3>1. a \in Int /\ o \in Int /\ i \in Int
      BY <1>3
    <3> HIDE DEF a
    <3>2. o + (a + i - 1) = a + (o + i) - 1
      BY <3>1
    <3> QED
      BY <3>2 DEF a
  <2>4. (o + (c.va + i - 1)) % Modulus = ((c.vs - c.va) + (c.va + i - 1)) % Modulus
    BY <1>2, <2>1, Zenon
  <2> QED
    BY <2>2, <2>3, <2>4, Zenon
<1> QED
  BY <1>4, <1>5 DEF o

\* The poll fills the window from the store, in the order of the store.
LEMMA PollPours ==
    ASSUME NEW c, Ready(c), Silent(c), can_receive_data(c), c.modulus = Modulus
    PROVE  LET d == dl_data_poll(c)
               l == Len(c.iframe_resend_queue)
           IN  /\ SameStore(c, d) /\ d.st = c.st /\ d.modulus = c.modulus
               /\ d.vr = c.vr /\ d.up = c.up
               /\ Outstanding(d) \in {K, l} /\ Outstanding(d) <= K /\ Outstanding(d) <= l
               /\ Mute(c) => Mute(d)
               /\ \E z \in Int : Pours(d, z)
<1> DEFINE n == sendable(c)
           d == transmit(c, n)
           s == c.iframe_resend_queue
           q == c.iframe_queue
           o == Outstanding(c)
           x == [i \in 1 .. n |-> queued_iframe(c, i)]
<1>1. /\ c \in ConnectionType /\ o \in 0 .. K /\ n \in Nat /\ n <= Len(q) /\ n <= K - o
      /\ n \in {Len(q), K - o} /\ Modulus \in Nat \ {0}
  BY SendableFits
<1>2. /\ s \in Seq(Payload) /\ q \in Seq(Payload)
      /\ o <= Len(s) /\ q = SubSeq(s, o + 1, Len(s)) /\ c.out \in Seq(Frame)
  BY <1>1 DEF Ready, Stored, TailOf, ConnectionType
<1>3. /\ d.va = c.va /\ d.vs = (c.vs + n) % Modulus /\ d.modulus = Modulus
      /\ d.iframe_resend_queue = s /\ d.out = c.out \o x
      /\ d.st = c.st /\ d.vr = c.vr /\ d.up = c.up
  BY <1>1 DEF transmit, ConnectionType
<1>4. dl_data_poll(c) = d
  BY DEF dl_data_poll, can_receive_data
<1>5. \A i \in 1 .. n : x[i] = queued_iframe(c, i)
  OBVIOUS
<1>6. Len(x) = n /\ x \in Seq(Frame)
  <2>1. ASSUME NEW i \in 1 .. n PROVE queued_iframe(c, i) \in Frame
    <3>1. i \in 1 .. Len(q) /\ c.modulus # 0
      BY <1>1
    <3> QED
      BY <1>1, <3>1, QueuedIsFrame
  <2> QED
    BY <1>1, <2>1
<1> HIDE DEF x, n, d
<1>7. /\ DOMAIN d.out = 1 .. Len(c.out) + n /\ DOMAIN c.out = 1 .. Len(c.out)
      /\ Len(c.out) \in Nat /\ Len(d.out) = Len(c.out) + n
      /\ \A i \in 1 .. Len(c.out) : d.out[i] = c.out[i]
      /\ \A i \in 1 .. n : d.out[Len(c.out) + i] = x[i]
  <2> DEFINE u == c.out
  <2>1. u \in Seq(Frame) /\ x \in Seq(Frame) /\ d.out = u \o x
    BY <1>2, <1>3, <1>6
  <2> HIDE DEF u
  <2>2. /\ DOMAIN (u \o x) = 1 .. Len(u) + Len(x)
        /\ \A i \in 1 .. Len(u) : (u \o x)[i] = u[i]
        /\ \A i \in 1 .. Len(x) : (u \o x)[Len(u) + i] = x[i]
    BY <2>1, ConcatParts
  <2>3. Len(u) \in Nat /\ DOMAIN u = 1 .. Len(u) /\ Len(u \o x) = Len(u) + Len(x)
    BY <2>1, ConcatProperties
  <2> QED
    BY <1>6, <2>1, <2>2, <2>3 DEF u
<1>8. Outstanding(d) = o + n
  <2>1. Outstanding(d) = (((c.vs + n) % Modulus) - c.va) % Modulus
    BY <1>3, Zenon DEF Outstanding, ahead
  <2> QED
    BY <1>1, <2>1, WindowOn
<1>9. Len(q) = Len(s) - o /\ Len(s) \in Nat /\ \A i \in 1 .. Len(s) - o : q[i] = s[o + i]
  <2> HIDE DEF o, s, q
  <2>1. o \in Nat /\ o <= Len(s)
    BY <1>1, <1>2
  <2>2. Len(q) = Len(s) - o
    BY <1>2, <2>1, DropLen
  <2> QED
    BY <1>2, <2>1, <2>2, SMTT(30)
<1>10. Outstanding(d) \in {K, Len(s)} /\ Outstanding(d) <= K /\ Outstanding(d) <= Len(s)
  <2> HIDE DEF o, s, q
  <2> QED
    BY <1>1, <1>8, <1>9
<1>11. ASSUME NEW i \in 1 .. n
       PROVE  LET f == queued_iframe(c, i)
              IN  /\ f.type = "iframe" /\ f.payload = s[o + i]
                  /\ f.ns = (c.va + (o + i) - 1) % Modulus
  <2>1. (c.vs + i - 1) % Modulus = (c.va + (o + i) - 1) % Modulus
    <3>1. i \in Nat
      BY <1>1
    <3> QED
      BY <1>1, <3>1, WindowOn
  <2>2. queued_iframe(c, i).type = "iframe" /\ queued_iframe(c, i).payload = q[i]
        /\ queued_iframe(c, i).ns = (c.vs + i - 1) % Modulus
    BY DEF queued_iframe, Iframe
  <2>3. i \in 1 .. Len(s) - o
    <3> HIDE DEF o, s, q
    <3> QED
      BY <1>1, <1>9
  <2>4. q[i] = s[o + i]
    BY <1>9, <2>3
  <2> HIDE DEF o, s, q
  <2> QED
    BY <2>1, <2>2, <2>4, Zenon
<1>16. ASSUME NEW i \in DOMAIN d.out, i \notin 1 .. Len(c.out)
       PROVE  i - Len(c.out) \in 1 .. n /\ i = Len(c.out) + (i - Len(c.out))
  <2> DEFINE a == Len(c.out)
  <2>1. a \in Nat /\ n \in Nat /\ i \in 1 .. a + n /\ i \notin 1 .. a
    BY <1>1, <1>7, <1>16
  <2> HIDE DEF a
  <2>2. i - a \in 1 .. n /\ i = a + (i - a)
    BY <2>1
  <2> QED
    BY <2>2 DEF a
<1>12. Mute(c) => Mute(d)
  <2>1. ASSUME Mute(c), NEW i \in DOMAIN d.out PROVE ~Resets(d.out[i])
    <3>1. CASE i \in 1 .. Len(c.out)
      BY <1>7, <2>1, <3>1 DEF Mute
    <3>2. CASE i \notin 1 .. Len(c.out)
      <4> DEFINE j == i - Len(c.out)
      <4>1. j \in 1 .. n /\ i = Len(c.out) + j
        BY <1>16, <2>1, <3>2
      <4> HIDE DEF j
      <4>2. d.out[i] = queued_iframe(c, j)
        BY <1>5, <1>7, <4>1
      <4> QED
        BY <1>11, <4>1, <4>2 DEF Resets
    <3> QED
      BY <3>1, <3>2
  <2> QED
    BY <2>1 DEF Mute
<1> DEFINE z == Len(c.out) - o
<1>13. z \in Int
  BY <1>1, <1>7
<1>14. Pours(d, z)
  <2>1. SUFFICES ASSUME NEW i \in 1 .. Len(d.out), d.out[i].type = "iframe"
                 PROVE  /\ can_receive_data(d)
                        /\ i - z \in 1 .. Len(d.iframe_resend_queue)
                        /\ i - z <= Outstanding(d)
                        /\ d.out[i].payload = d.iframe_resend_queue[i - z]
                        /\ d.out[i].ns = (d.va + (i - z) - 1) % Modulus
    BY DEF Pours
  <2>2. i \notin 1 .. Len(c.out)
    BY <1>7, <2>1 DEF Silent
  <2> DEFINE j == i - Len(c.out)
  <2>0. i \in DOMAIN d.out
    BY <1>7, <2>1
  <2>3. j \in 1 .. n /\ i = Len(c.out) + j
    BY <1>16, <2>0, <2>2
  <2>4. i - z = o + j
    BY <1>1, <1>7, <2>3
  <2> HIDE DEF j, z
  <2>5. d.out[i] = queued_iframe(c, j)
    BY <1>5, <1>7, <2>3
  <2>6. d.out[i].payload = s[o + j] /\ d.out[i].ns = (c.va + (o + j) - 1) % Modulus
    BY <1>11, <2>3, <2>5
  <2>7. o + j \in 1 .. Len(s) /\ o + j <= Outstanding(d)
    <3> HIDE DEF o, s
    <3> QED
      BY <1>1, <1>8, <1>10, <2>3
  <2>8. can_receive_data(d)
    BY <1>3 DEF can_receive_data
  <2> HIDE DEF o, s
  <2>9. d.iframe_resend_queue = s
    BY <1>3
  <2> QED
    BY <1>3, <2>4, <2>6, <2>7, <2>8, <2>9, Zenon
<1>15. SameStore(c, d) /\ d.st = c.st /\ d.modulus = c.modulus /\ d.vr = c.vr /\ d.up = c.up
  BY <1>3 DEF SameStore
<1> HIDE DEF z
<1> QED
  BY <1>4, <1>10, <1>12, <1>13, <1>14, <1>15

\* A connection at the beginning of a call.
Begins(c) ==
    Good(c) /\ Plain(c) /\ Silent(c) /\ Mute(c) /\ c.up = <<>> /\ c.out = <<>>

\* To begin a call is to forget what the last one handed out.
LEMMA StartBegins ==
    ASSUME NEW c, Good(c), Plain(c)
    PROVE  Begins(start(c))
<1> DEFINE s == start(c)
<1>1. Good(s) /\ s.st = c.st /\ Silent(s) /\ Mute(s)
  BY StartGood, StartSilent, StartMute
<1>2. s.up = <<>> /\ s.out = <<>> /\ s.modulus = c.modulus
  BY DEF start, Good, ConnectionType
<1> HIDE DEF s
<1>3. Begins(s)
  BY <1>1, <1>2 DEF Begins, Plain
<1> QED
  BY <1>3 DEF s

\* What the poll makes of a link that is up.
LEMMA UpProceeds ==
    ASSUME NEW c, Good(c), NEW d, Ready(d), Silent(d), can_receive_data(d),
           d.modulus = Modulus, NEW n, NEW m, Goes(c, d, n, m)
    PROVE  Proceeds(c, dl_data_poll(d), n, m)
<1> DEFINE g == dl_data_poll(d)
           t == d.iframe_resend_queue
<1> SUFFICES Proceeds(c, g, n, m)
  OBVIOUS
<1>1. /\ SameStore(d, g) /\ g.st = d.st
      /\ Outstanding(g) \in {K, Len(t)} /\ Outstanding(g) <= K /\ Outstanding(g) <= Len(t)
      /\ Mute(d) => Mute(g)
      /\ \E z \in Int : Pours(g, z)
  BY PollPours
<1>2. Good(g)
  BY PollGood
<1> HIDE DEF g
<1>3. can_receive_data(g) /\ g.iframe_resend_queue = t /\ g.va = d.va
  BY <1>1 DEF can_receive_data, SameStore
<1>4. Sent(g) = Outstanding(g) /\ Outstanding(g) \in 0 .. K
  BY <1>2, <1>3, SentIs
<1>5. Sent(c) \in Nat /\ Len(c.iframe_resend_queue) \in Nat
  BY SentIs
<1>10. \E z \in Int : Pours(g, z)
  BY <1>1
<1>11. can_receive_data(g) => Outstanding(g) \in 0 .. K
  BY <1>4
<1>6. CASE t = <<>>
  <2>1. g.iframe_resend_queue = <<>>
    BY <1>3, <1>6
  <2> QED
    BY <1>10, <1>11, <2>1, Zenon DEF Proceeds
<1>7. CASE /\ can_receive_data(c) /\ Mute(d)
           /\ \E k \in 0 .. Len(c.iframe_resend_queue) :
                 Shifted(c, d, k, n, m) /\ d.va = (c.va + k) % Modulus
  <2>1. PICK k \in 0 .. Len(c.iframe_resend_queue) :
           Shifted(c, d, k, n, m) /\ d.va = (c.va + k) % Modulus
    BY <1>7
  <2>2. Shifted(c, g, k, n, m)
    BY <1>3, <2>1 DEF Shifted
  <2>3. Carries(c, g, k)
    <3>1. Sent(c) <= K
      BY <1>7, SentIs
    <3>2. ASSUME NEW j \in 1 .. Len(t), j + k <= Sent(c) PROVE j <= Sent(g)
      BY <1>1, <1>4, <1>5, <2>1, <3>1, <3>2
    <3> QED
      BY <1>3, <3>2 DEF Carries
  <2>4. g.va = (c.va + k) % Modulus
    BY <1>3, <2>1
  <2> QED
    <3>1. Mute(g)
      BY <1>1, <1>7
    <3> QED
      BY <1>3, <1>7, <1>10, <1>11, <2>1, <2>2, <2>3, <2>4, <3>1, Zenon DEF Proceeds
<1>8. CASE /\ ~can_receive_data(c) /\ Mute(d) /\ t = c.iframe_resend_queue /\ Sent(c) = 0
  <2>1. Shifted(c, g, 0, n, m)
    <3> DEFINE s == c.iframe_resend_queue
    <3>1. g.iframe_resend_queue = s /\ Len(s) \in Nat
      BY <1>3, <1>5, <1>8
    <3> HIDE DEF s
    <3>2. \A j \in 1 .. Len(s) : j + 0 <= Len(s) /\ s[j] = s[j + 0]
      BY <3>1
    <3> QED
      BY <3>1, <3>2 DEF Shifted, s
  <2>2. 0 \in 0 .. Len(c.iframe_resend_queue)
    BY <1>5
  <2> QED
    <3>1. Mute(g)
      BY <1>1, <1>8
    <3> QED
      BY <1>3, <1>8, <1>10, <1>11, <2>1, <2>2, <3>1, Zenon DEF Proceeds
<1> QED
  BY <1>6, <1>7, <1>8 DEF Goes

\* And of one that is not: nothing.
LEMMA DownProceeds ==
    ASSUME NEW c, Good(c), NEW d, Silent(d), ~can_receive_data(d),
           NEW n, NEW m, Goes(c, d, n, m)
    PROVE  Proceeds(c, d, n, m)
<1>1. Pours(d, 0)
  <2>1. \A i \in 1 .. Len(d.out) : i \in DOMAIN d.out => d.out[i].type # "iframe"
    BY DEF Silent
  <2> QED
    BY <2>1 DEF Pours
<1>2. Len(c.iframe_resend_queue) \in Nat
  BY SentIs
<1>3. CASE d.iframe_resend_queue = <<>>
  BY <1>1, <1>3 DEF Proceeds
<1>4. CASE /\ d.iframe_resend_queue = c.iframe_resend_queue
           /\ \A j \in 1 .. Len(c.iframe_resend_queue) : j <= Sent(c) => j <= Sent(d)
  <2>1. Shifted(c, d, 0, n, m)
    <3>1. \A j \in 1 .. Len(c.iframe_resend_queue) :
             j + 0 = j /\ j <= Len(c.iframe_resend_queue)
      BY <1>2
    <3> QED
      BY <1>4, <3>1 DEF Shifted
  <2>2. Carries(c, d, 0)
    <3>1. \A j \in 1 .. Len(c.iframe_resend_queue) : j + 0 = j
      OBVIOUS
    <3> QED
      BY <1>4, <3>1 DEF Carries
  <2>3. 0 \in 0 .. Len(c.iframe_resend_queue)
    BY <1>2
  <2> QED
    BY <1>1, <2>1, <2>2, <2>3 DEF Proceeds
<1> QED
  BY <1>3, <1>4 DEF Goes

\* The handler, and then the poll.
LEMMA PollDone ==
    ASSUME NEW b, NEW c, Good(c), NEW d, Ready(d), NEW n, NEW m, NEW f, Does(c, d, n, m, f)
    PROVE  Done(c, maybe_change_state(b, d), n, m, f)
<1>1. Silent(d) /\ Plain(d) /\ Goes(c, d, n, m) /\ Listens(c, d, f)
  BY DEF Does
<1>2. maybe_change_state(b, d) = dl_data_poll(d)
  BY DEF maybe_change_state, Ready
<1>3. CASE can_receive_data(d)
  <2> DEFINE g == dl_data_poll(d)
  <2>1. d.modulus = Modulus
    BY <1>1, <1>3 DEF Plain, can_receive_data, ReceivingStates
  <2>2. Proceeds(c, g, n, m)
    BY <1>1, <1>3, <2>1, UpProceeds
  <2>3. g.st = d.st /\ g.modulus = d.modulus /\ g.vr = d.vr /\ g.up = d.up
    BY <1>1, <1>3, <2>1, PollPours
  <2> HIDE DEF g
  <2>4. Plain(g) /\ Listens(c, g, f)
    BY <1>1, <2>3 DEF Plain, Listens, can_receive_data
  <2> QED
    BY <1>2, <2>2, <2>4 DEF Done, g
<1>4. CASE ~can_receive_data(d)
  <2>1. dl_data_poll(d) = d
    BY <1>4 DEF dl_data_poll, can_receive_data
  <2> QED
    BY <1>1, <1>2, <1>4, <2>1, DownProceeds DEF Done
<1> QED
  BY <1>3, <1>4

\* The data stay as they are when the link stays as it is.
SameLinkData(c, d) ==
    /\ d.st = c.st /\ d.modulus = c.modulus /\ d.layer3_initiated = c.layer3_initiated
    /\ d.va = c.va /\ d.vs = c.vs /\ d.iframe_resend_queue = c.iframe_resend_queue

\* What has been sent is then the same.
LEMMA SameSent ==
    ASSUME NEW c, NEW d, SameLinkData(c, d)
    PROVE  Sent(d) = Sent(c)
  BY DEF SameLinkData, Sent, WillClear, Outstanding, ahead, can_receive_data

\* A handler that leaves the link and V(R) alone.
LEMMA StaysDoes ==
    ASSUME NEW c, Begins(c), NEW d, SameLinkData(c, d), d.vr = c.vr, d.up = <<>>,
           Silent(d), can_receive_data(c) => Mute(d), NEW n, NEW m, NEW f
    PROVE  Does(c, d, n, m, f)
<1>1. Good(c) /\ Plain(c)
  BY DEF Begins
<1>2. Plain(d) /\ Listens(c, d, f)
  BY <1>1 DEF SameLinkData, Plain, Listens, can_receive_data
<1>3. CASE can_receive_data(c)
  <2>1. c.modulus = Modulus /\ can_receive_data(d) /\ SameStore(c, d)
    BY <1>1, <1>3 DEF Plain, SameLinkData, SameStore, can_receive_data, ReceivingStates
  <2>2. Drops(c, d)
    BY <1>1, <1>3, <2>1, DropsSame
  <2> QED
    BY <1>1, <1>2, <1>3, <2>1, <2>2, GoesOn DEF Does
<1>4. CASE ~can_receive_data(c)
  <2>1. ~can_receive_data(d) /\ d.iframe_resend_queue = c.iframe_resend_queue
    BY <1>4 DEF SameLinkData, can_receive_data
  <2>2. Goes(c, d, n, m)
    BY <2>1, SameSent DEF Goes
  <2> QED
    BY <1>2, <2>2 DEF Does
<1> QED
  BY <1>3, <1>4

\* A handler that does nothing.
LEMMA NothingDoes ==
    ASSUME NEW c, Begins(c), NEW n, NEW m, NEW f
    PROVE  Does(c, c, n, m, f)
  BY StaysDoes DEF Begins, SameLinkData

\* A handler that takes the link down and its store with it.
LEMMA ClearsDoes ==
    ASSUME NEW c, NEW d, Silent(d), Plain(d), d.iframe_resend_queue = <<>>, d.up = <<>>,
           ~can_receive_data(d), NEW n, NEW m, NEW f
    PROVE  Does(c, d, n, m, f)
  BY DEF Does, Goes, Listens

\* A link that is set up anew keeps its store.
LEMMA ReestablishDoes ==
    ASSUME NEW c, Begins(c), can_receive_data(c), NEW b \in ConnectionType,
           SameLinkData(c, b), b.up = <<>>, Silent(b), NEW n, NEW f
    PROVE  Does(c, reestablish(b, FALSE), n, n, f)
<1> DEFINE d == reestablish(b, FALSE)
           s == c.iframe_resend_queue
<1>1. /\ d.st = "AwaitingConnection" /\ d.modulus = b.modulus /\ ~d.layer3_initiated
      /\ d.va = b.va /\ d.vs = b.vs /\ d.iframe_resend_queue = b.iframe_resend_queue
      /\ d.up = b.up
  BY DEF reestablish, establish_data_link, send, clear_exception_conditions, ConnectionType
<1>2. Silent(d)
  BY ReestablishPasses DEF Passes
<1> HIDE DEF d
<1>3. ~can_receive_data(d) /\ d.iframe_resend_queue = s /\ d.va = c.va /\ d.vs = c.vs
  BY <1>1 DEF SameLinkData, can_receive_data, ReceivingStates
<1>4. Plain(d)
  BY <1>1 DEF Plain, SameLinkData, Begins, can_receive_data, ReceivingStates
<1>5. Good(c) /\ c.modulus = Modulus
  BY DEF Begins, Plain, can_receive_data, ReceivingStates
<1>6. ASSUME NEW j \in 1 .. Len(s), j <= Sent(c) PROVE j <= Sent(d)
  <2>1. CASE WillClear(d)
    <3>1. Sent(d) = Len(s)
      BY <1>1, <1>3, <2>1 DEF Sent
    <3>2. Len(s) \in Nat
      BY <1>5, SentIs
    <3> QED
      BY <3>1, <3>2
  <2>2. CASE ~WillClear(d)
    <3>1. c.vs = c.va
      BY <1>1, <1>3, <2>2 DEF WillClear
    <3>2. Outstanding(c) = 0
      BY <1>5, <3>1, GoodReady, SendableFits
    <3>3. Sent(c) = 0
      BY <1>5, <3>2, SentIs
    <3> QED
      BY <1>6, <3>3
  <2> QED
    BY <2>1, <2>2
<1>7. Goes(c, d, n, n)
  BY <1>3, <1>6 DEF Goes
<1>8. Listens(c, d, f)
  BY <1>1, <1>3 DEF Listens
<1> QED
  BY <1>2, <1>4, <1>7, <1>8 DEF Does, d

------------------------------------------------------------------------------
(* The calls and the frames, one by one.                                   *)

\* dl_connect finds an empty store.
LEMMA DlConnectDoes ==
    ASSUME NEW c, Begins(c), Fresh(c), NEW n, NEW m, NEW f
    PROVE  Does(c, dispatch_dl_connect(c), n, m, f)
<1> DEFINE d == dispatch_dl_connect(c)
<1>0. Silent(d) /\ c \in ConnectionType
  BY DlConnectPasses DEF Begins, Passes, Good
<1>1. CASE c.st \in {"Disconnected", "Connected"}
  <2>1. /\ d.st = "AwaitingConnection" /\ d.up = c.up /\ d.iframe_resend_queue = <<>>
        /\ d.modulus \in {c.modulus, Modulus}
        /\ c.st = "Disconnected" => d.modulus = Modulus
    BY <1>0, <1>1 DEF dispatch_dl_connect, Disconnected_dl_connect, Connected_dl_connect,
       clear_iframe_queue, reestablish, establish_data_link, send, clear_exception_conditions,
       Fresh, ConnectionType
  <2> HIDE DEF d
  <2>2. Plain(d) /\ ~can_receive_data(d) /\ d.up = <<>>
    BY <1>1, <2>1 DEF Plain, can_receive_data, ReceivingStates, Begins
  <2>3. Does(c, d, n, m, f)
    BY <1>0, <2>1, <2>2, ClearsDoes
  <2> QED
    BY <2>3 DEF d
<1>2. CASE c.st \notin {"Disconnected", "Connected"}
  BY <1>2, NothingDoes DEF dispatch_dl_connect
<1> QED
  BY <1>1, <1>2

\* dl_data stores the datum on a link that is up, and drops it on any other.
LEMMA DlDataDoes ==
    ASSUME NEW c, Begins(c), NEW n, n + 1 \in Payload, NEW f
    PROVE  Does(c, dispatch_dl_data(c, n + 1), n, n + 1, f)
<1>1. CASE can_receive_data(c)
  <2> DEFINE s == c.iframe_resend_queue
             m == n + 1
             d == dispatch_dl_data(c, m)
  <2>0. s \in Seq(Payload) /\ Len(s) \in Nat /\ m \in Payload
    BY DEF Begins, Good, ConnectionType
  <2>1. /\ d.st = c.st /\ d.modulus = c.modulus /\ d.up = c.up /\ d.vr = c.vr /\ d.out = c.out
        /\ d.va = c.va /\ d.iframe_resend_queue = Append(s, m)
    BY <1>1 DEF dispatch_dl_data, ConnectedTimerRecovery_dl_data, Begins, Good, ConnectionType,
       can_receive_data
  <2> SUFFICES Does(c, d, n, m, f)
    OBVIOUS
  <2> HIDE DEF d
  <2>2. can_receive_data(d) /\ Silent(d) /\ Mute(d) /\ Plain(d) /\ Listens(c, d, f)
    BY <1>1, <2>1 DEF Begins, can_receive_data, Silent, Mute, Plain, Listens
  <2>3. (c.va + 0) % Modulus = c.va
    <3>1. c.modulus = Modulus /\ Good(c)
      BY <1>1 DEF Begins, Plain, can_receive_data, ReceivingStates
    <3>2. c.va \in 0 .. Modulus - 1 /\ Modulus \in Nat \ {0}
      BY <1>1, <3>1 DEF Good, Window
    <3>3. c.va + 0 = c.va
      BY <3>2
    <3>4. c.va % Modulus = c.va
      BY <3>2, ModPlain, Zenon
    <3> QED
      BY <3>3, <3>4, Zenon
  <2>4. Shifted(c, d, 0, n, m)
    <3> SUFFICES ASSUME NEW j \in 1 .. Len(d.iframe_resend_queue)
                 PROVE  \/ /\ j + 0 <= Len(s) /\ d.iframe_resend_queue[j] = s[j + 0]
                        \/ /\ m = n + 1 /\ d.iframe_resend_queue[j] = m
                           /\ j + 0 = Len(s) + 1
      BY DEF Shifted
    <3> HIDE DEF s, m
    <3>1. Len(Append(s, m)) = Len(s) + 1 /\ Append(s, m)[Len(s) + 1] = m
          /\ \A i \in 1 .. Len(s) : Append(s, m)[i] = s[i]
      BY <2>0, AppendProperties
    <3>2. j \in 1 .. Len(s) + 1 /\ j + 0 = j
      BY <2>1, <3>1
    <3>3. m = n + 1
      BY DEF m
    <3>4. CASE j = Len(s) + 1
      BY <2>1, <3>1, <3>2, <3>3, <3>4
    <3>5. CASE j \in 1 .. Len(s)
      BY <2>1, <3>1, <3>2, <3>5
    <3> QED
      BY <2>0, <3>2, <3>4, <3>5
  <2>5. Goes(c, d, n, m)
    <3>1. 0 \in 0 .. Len(s)
      BY <2>0
    <3>2. d.va = (c.va + 0) % Modulus
      BY <2>1, <2>3, Zenon
    <3> HIDE DEF m
    <3> QED
      BY <1>1, <2>2, <2>4, <3>1, <3>2, Zenon DEF Goes
  <2> QED
    BY <2>2, <2>5 DEF Does
<1>2. CASE ~can_receive_data(c)
  BY <1>2, NothingDoes DEF dispatch_dl_data, can_receive_data
<1> QED
  BY <1>1, <1>2

\* dl_disconnect clears the queues of a link that is up.
LEMMA DlDisconnectDoes ==
    ASSUME NEW c, Begins(c), NEW n, NEW m, NEW f
    PROVE  Does(c, dispatch_dl_disconnect(c), n, m, f)
<1>1. CASE can_receive_data(c)
  <2> DEFINE d == dispatch_dl_disconnect(c)
  <2>1. /\ d.st = "AwaitingRelease" /\ d.modulus = c.modulus /\ d.up = c.up
        /\ d.iframe_resend_queue = <<>>
    BY <1>1 DEF dispatch_dl_disconnect, ConnectedTimerRecovery_dl_disconnect,
       clear_iframe_queue, send, Begins, Good, ConnectionType, can_receive_data
  <2>2. Silent(d)
    BY DlDisconnectPasses DEF Begins, Passes
  <2> HIDE DEF d
  <2>3. Plain(d) /\ ~can_receive_data(d) /\ d.up = <<>>
    BY <1>1, <2>1 DEF Plain, can_receive_data, ReceivingStates, Begins
  <2>4. Does(c, d, n, m, f)
    BY <2>1, <2>2, <2>3, ClearsDoes
  <2> QED
    BY <2>4 DEF d
<1>2. CASE ~can_receive_data(c)
  BY <1>2, NothingDoes DEF dispatch_dl_disconnect, can_receive_data
<1> QED
  BY <1>1, <1>2

\* A DISC clears the queues of a link that is up.
LEMMA DiscDoes ==
    ASSUME NEW c, Begins(c), NEW pf \in BOOLEAN, NEW n, NEW m, NEW f
    PROVE  Does(c, dispatch_disc(c, pf), n, m, f)
<1> DEFINE d == dispatch_disc(c, pf)
<1>0. Silent(d)
  BY DiscPasses DEF Begins, Passes
<1>1. CASE can_receive_data(c)
  <2>1. /\ d.st = "Disconnected" /\ d.up = c.up /\ d.iframe_resend_queue = <<>>
    BY <1>1 DEF dispatch_disc, ConnectedTimerRecovery_disc, ReceivingStates,
       clear_iframe_queue, send, Begins, Good, ConnectionType, can_receive_data
  <2> HIDE DEF d
  <2>3. Plain(d) /\ ~can_receive_data(d) /\ d.up = <<>>
    BY <1>1, <2>1 DEF Plain, can_receive_data, ReceivingStates, Begins
  <2>4. Does(c, d, n, m, f)
    BY <1>0, <2>1, <2>3, ClearsDoes
  <2> QED
    BY <2>4 DEF d
<1>2. CASE c.st = "Disconnected"
  <2>0. d = send(c, Dm(pf))
    BY <1>2 DEF dispatch_disc, Disconnected_disc, ReceivingStates
  <2>1. SameLinkData(c, d) /\ d.vr = c.vr /\ d.up = c.up
    BY <2>0 DEF send, Begins, Good, ConnectionType, SameLinkData
  <2>2. ~can_receive_data(c)
    BY <1>2 DEF can_receive_data, ReceivingStates
  <2> HIDE DEF d
  <2>3. d.up = <<>>
    BY <2>1 DEF Begins
  <2>4. Does(c, d, n, m, f)
    BY <1>0, <2>1, <2>2, <2>3, StaysDoes
  <2> QED
    BY <2>4 DEF d
<1>3. CASE ~can_receive_data(c) /\ c.st # "Disconnected"
  BY <1>3, NothingDoes DEF dispatch_disc, can_receive_data
<1> QED
  BY <1>1, <1>2, <1>3

\* A SABM finds an empty store and starts the numbers again.
LEMMA SabmDoes ==
    ASSUME NEW c, Begins(c), Fresh(c), NEW pf \in BOOLEAN,
           NEW n, NEW m, NEW f, f.type = "sabm"
    PROVE  Does(c, dispatch_sabm(c, pf), n, m, f)
<1> DEFINE d == dispatch_sabm(c, pf)
<1>0. Silent(d) /\ c \in ConnectionType
  BY SabmPasses DEF Begins, Passes, Good
<1>1. /\ d.up = c.up /\ d.iframe_resend_queue = <<>>
      /\ c.st = "Disconnected" => d.modulus = Modulus
      /\ c.st # "Disconnected" => d.modulus = c.modulus
  <2>1. CASE c.st = "Disconnected"
    BY <1>0, <2>1 DEF dispatch_sabm, Disconnected_sabm, clear_exception_conditions, send,
       set_version, Fresh, ConnectionType
  <2>2. CASE c.st = "Connected"
    BY <1>0, <2>2 DEF dispatch_sabm, Connected_sabm, clear_exception_conditions, send,
       clear_iframe_queue, Fresh, ConnectionType
  <2>3. CASE c.st \notin {"Disconnected", "Connected"}
    BY <1>0, <2>3 DEF dispatch_sabm, Fresh
  <2> QED
    BY <2>1, <2>2, <2>3
<1> HIDE DEF d
<1>3. Plain(d)
  BY <1>1 DEF Plain, Begins
<1>4. Listens(c, d, f)
  BY <1>1 DEF Begins, Listens, Resets
<1>5. Does(c, d, n, m, f)
  BY <1>0, <1>1, <1>3, <1>4 DEF Does, Goes
<1> QED
  BY <1>5 DEF d

\* Timer T3 leaves the link as it is.
LEMMA Timer3Does ==
    ASSUME NEW c, Begins(c), NEW n, NEW m, NEW f
    PROVE  Does(c, [c EXCEPT !.t3 = FALSE], n, m, f)
<1> DEFINE d == [c EXCEPT !.t3 = FALSE]
<1>1. SameLinkData(c, d) /\ d.vr = c.vr /\ d.up = c.up /\ d.out = c.out
  BY DEF Begins, Good, ConnectionType, SameLinkData
<1> HIDE DEF d
<1>2. Silent(d) /\ Mute(d) /\ d.up = <<>>
  BY <1>1 DEF Begins, Silent, Mute
<1>3. Does(c, d, n, m, f)
  BY <1>1, <1>2, StaysDoes
<1> QED
  BY <1>3 DEF d

\* T1 asks again on a link that is being set up or is up, until it gives up.
LEMMA Timer1Does ==
    ASSUME NEW c, Begins(c), NEW n, NEW m, NEW f
    PROVE  Does(c, dispatch_timer1_tick([c EXCEPT !.t1 = FALSE]), n, m, f)
<1> DEFINE b == [c EXCEPT !.t1 = FALSE]
           d == dispatch_timer1_tick(b)
<1>1. /\ SameLinkData(c, b) /\ b.vr = c.vr /\ b.up = c.up /\ b.out = c.out
      /\ b \in ConnectionType
  BY DEF Begins, Good, ConnectionType, SameLinkData
<1>2. Silent(d)
  BY Timer1Passes DEF Begins, Passes
<1>3. b.st = c.st /\ b.modulus = c.modulus /\ b.va = c.va /\ b.up = <<>>
      /\ b.iframe_resend_queue = c.iframe_resend_queue /\ Good(c)
  BY <1>1 DEF SameLinkData, Begins
<1> SUFFICES Does(c, d, n, m, f)
  OBVIOUS
<1> HIDE DEF b
<1>4. CASE c.st = "AwaitingConnection"
  <2>1. d = AwaitingConnection_timer1_tick(b)
    BY <1>3, <1>4 DEF dispatch_timer1_tick
  <2>2. CASE b.rc = b.n2
    <3>1. d.st = "Disconnected" /\ d.iframe_resend_queue = <<>> /\ d.up = <<>>
      BY <1>1, <1>3, <2>1, <2>2 DEF AwaitingConnection_timer1_tick, clear_iframe_queue,
         ConnectionType
    <3> HIDE DEF d
    <3>2. Plain(d) /\ ~can_receive_data(d)
      BY <3>1 DEF Plain, can_receive_data, ReceivingStates
    <3> QED
      BY <1>2, <3>1, <3>2, ClearsDoes
  <2>3. CASE b.rc # b.n2
    <3>1. SameLinkData(b, d) /\ d.vr = b.vr /\ d.up = <<>>
      BY <1>1, <1>3, <2>1, <2>3 DEF AwaitingConnection_timer1_tick, send, SameLinkData,
         ConnectionType
    <3> HIDE DEF d
    <3>2. SameLinkData(c, d) /\ d.vr = c.vr
      BY <1>1, <3>1 DEF SameLinkData
    <3>3. ~can_receive_data(c)
      BY <1>4 DEF can_receive_data, ReceivingStates
    <3> QED
      BY <1>2, <3>1, <3>2, <3>3, StaysDoes
  <2> QED
    BY <2>2, <2>3
<1>5. ASSUME can_receive_data(c), NEW e, e \in {transmit_enquiry(b)},
             SameStore(e, d), d.st \in ReceivingStates, d.vr = e.vr, d.up = e.up,
             d.out = e.out, d.modulus = e.modulus
      PROVE  Does(c, d, n, m, f)
  <2> DEFINE r == Rr(TRUE, b.vr, TRUE)
  <2>1. b.vr \in Nat
    BY <1>1 DEF ConnectionType
  <2>2. r \in Frame /\ ~Resets(r)
    BY <2>1, Answering
  <2>3. /\ e.out = Append(b.out, r) /\ e.up = b.up /\ e.vr = b.vr /\ e.modulus = b.modulus
        /\ SameStore(b, e)
    BY <1>1, <1>5 DEF transmit_enquiry, send, SameStore, ConnectionType
  <2> HIDE DEF r, d
  <2>4. c \in ConnectionType /\ Mute(c) /\ Good(c) /\ c.modulus = Modulus
    BY <1>5 DEF Begins, Good, Plain, can_receive_data, ReceivingStates
  <2>5. Mute(d)
    BY <1>1, <1>5, <2>2, <2>3, <2>4, MuteMore
  <2>6. SameStore(c, d)
    BY <1>3, <1>5, <2>3 DEF SameStore
  <2>7. Drops(c, d)
    BY <1>5, <2>4, <2>6, DropsSame
  <2>8. can_receive_data(d) /\ Plain(d) /\ Listens(c, d, f)
    BY <1>1, <1>3, <1>5, <2>3, <2>4 DEF can_receive_data, Plain, Listens
  <2>9. Goes(c, d, n, m)
    BY <1>5, <2>4, <2>5, <2>7, <2>8, GoesOn
  <2> QED
    BY <1>2, <2>8, <2>9 DEF Does
<1>6. CASE c.st = "Connected"
  <2> DEFINE e == transmit_enquiry(b)
  <2>0. e \in ConnectionType
    <3>1. b.vr \in Nat /\ b.out \in Seq(Frame)
      BY <1>1 DEF ConnectionType
    <3>2. Rr(TRUE, b.vr, TRUE) \in Frame
      BY <3>1, FramesAre
    <3>3. Append(b.out, Rr(TRUE, b.vr, TRUE)) \in Seq(Frame)
      BY <3>1, <3>2, AppendProperties
    <3> QED
      BY <1>1, <3>3 DEF transmit_enquiry, send, ConnectionType
  <2>1. d = [e EXCEPT !.rc = 1, !.st = "TimerRecovery"]
    BY <1>3, <1>6 DEF dispatch_timer1_tick, Connected_timer1_tick
  <2> HIDE DEF e, d
  <2>2. /\ SameStore(e, d) /\ d.st \in ReceivingStates /\ d.vr = e.vr /\ d.up = e.up
        /\ d.out = e.out /\ d.modulus = e.modulus
    BY <2>0, <2>1 DEF SameStore, ConnectionType, ReceivingStates
  <2>3. can_receive_data(c)
    BY <1>6 DEF can_receive_data, ReceivingStates
  <2> USE DEF d
  <2> QED
    BY <1>5, <2>2, <2>3 DEF e
<1>7. CASE c.st = "TimerRecovery" /\ b.rc # b.n2
  <2> DEFINE e == transmit_enquiry(b)
  <2>0. e \in ConnectionType /\ e.st = b.st
    <3>1. b.vr \in Nat /\ b.out \in Seq(Frame)
      BY <1>1 DEF ConnectionType
    <3>2. Rr(TRUE, b.vr, TRUE) \in Frame
      BY <3>1, FramesAre
    <3>3. Append(b.out, Rr(TRUE, b.vr, TRUE)) \in Seq(Frame)
      BY <3>1, <3>2, AppendProperties
    <3> QED
      BY <1>1, <3>3 DEF transmit_enquiry, send, ConnectionType
  <2>1. d = [e EXCEPT !.rc = @ + 1]
    BY <1>3, <1>7 DEF dispatch_timer1_tick, TimerRecovery_timer1_tick
  <2> HIDE DEF e, d
  <2>2. /\ SameStore(e, d) /\ d.st \in ReceivingStates /\ d.vr = e.vr /\ d.up = e.up
        /\ d.out = e.out /\ d.modulus = e.modulus
    BY <1>3, <1>7, <2>0, <2>1 DEF SameStore, ConnectionType, ReceivingStates
  <2>3. can_receive_data(c)
    BY <1>7 DEF can_receive_data, ReceivingStates
  <2> USE DEF d
  <2> QED
    BY <1>5, <2>2, <2>3 DEF e
<1>8. CASE c.st = "TimerRecovery" /\ b.rc = b.n2
  <2>1. d = [b EXCEPT !.st = "Disconnected"]
    BY <1>3, <1>8 DEF dispatch_timer1_tick, TimerRecovery_timer1_tick
  <2> HIDE DEF d
  <2>2. d.st = "Disconnected" /\ d.up = <<>> /\ d.iframe_resend_queue = c.iframe_resend_queue
    BY <1>1, <1>3, <2>1 DEF ConnectionType
  <2>3. ~can_receive_data(d) /\ Plain(d) /\ Listens(c, d, f)
    BY <2>2 DEF can_receive_data, ReceivingStates, Plain, Listens
  <2>4. Sent(d) = Len(c.iframe_resend_queue) /\ Len(c.iframe_resend_queue) \in Nat
    BY <1>3, <2>2, <2>3, SentIs DEF Sent
  <2>5. Goes(c, d, n, m)
    BY <2>2, <2>3, <2>4 DEF Goes
  <2> QED
    BY <1>2, <2>3, <2>5 DEF Does
<1>9. CASE c.st \notin {"AwaitingConnection", "Connected", "TimerRecovery"}
  <2>1. d = b
    BY <1>3, <1>9 DEF dispatch_timer1_tick
  <2>2. ~can_receive_data(c)
    BY <1>9 DEF can_receive_data, ReceivingStates
  <2> HIDE DEF d
  <2> QED
    BY <1>1, <1>2, <1>3, <2>1, <2>2, StaysDoes
<1> QED
  BY <1>4, <1>6, <1>7, <1>8, <1>9

\* A UA brings a link up that is being set up, and sets one up anew that is up.
LEMMA UaDoes ==
    ASSUME NEW c, Begins(c), NEW pf \in BOOLEAN, NEW n, NEW f, f.type = "ua"
    PROVE  Does(c, dispatch_ua(c, pf), n, n, f)
<1> DEFINE d == dispatch_ua(c, pf)
<1>0. Silent(d)
  BY UaPasses DEF Begins, Passes
<1>1. CASE c.st = "AwaitingConnection" /\ pf
  <2> DEFINE t == IF WillClear(c) THEN <<>> ELSE c.iframe_resend_queue
  <2>1. /\ d.st = "Connected" /\ d.modulus = c.modulus /\ d.up = c.up /\ d.out = c.out
        /\ d.iframe_resend_queue = t
    BY <1>1 DEF dispatch_ua, AwaitingConnection_ua, clear_iframe_queue, WillClear,
       Begins, Good, ConnectionType, ReceivingStates
  <2> SUFFICES Does(c, d, n, n, f)
    OBVIOUS
  <2> HIDE DEF d
  <2>2. Plain(d) /\ can_receive_data(d) /\ ~can_receive_data(c) /\ Mute(d)
    BY <1>1, <2>1 DEF Begins, Plain, can_receive_data, ReceivingStates, Mute
  <2>3. Listens(c, d, f)
    BY <2>1 DEF Begins, Listens, Resets
  <2>4. Goes(c, d, n, n)
    <3>1. CASE WillClear(c)
      BY <2>1, <3>1 DEF Goes
    <3>2. CASE ~WillClear(c)
      <4>1. Sent(c) = 0
        BY <1>1, <2>2, <3>2 DEF Sent
      <4> QED
        BY <2>1, <2>2, <3>2, <4>1 DEF Goes
    <3> QED
      BY <3>1, <3>2
  <2> QED
    BY <1>0, <2>2, <2>3, <2>4 DEF Does
<1>2. CASE can_receive_data(c)
  <2>1. d = reestablish(c, FALSE)
    BY <1>2 DEF dispatch_ua, can_receive_data, ReceivingStates
  <2>2. SameLinkData(c, c) /\ c \in ConnectionType /\ c.up = <<>> /\ Silent(c)
    BY DEF SameLinkData, Begins, Good
  <2> HIDE DEF d
  <2>3. Does(c, d, n, n, f)
    BY <1>2, <2>1, <2>2, ReestablishDoes
  <2> QED
    BY <2>3 DEF d
<1>3. CASE ~can_receive_data(c) /\ ~(c.st = "AwaitingConnection" /\ pf)
  <2>1. d = c
    BY <1>3 DEF dispatch_ua, AwaitingConnection_ua, can_receive_data
  <2> HIDE DEF d
  <2>2. Does(c, d, n, n, f)
    BY <2>1, NothingDoes
  <2> QED
    BY <2>2 DEF d
<1> QED
  BY <1>1, <1>2, <1>3

\* A handler that only acknowledges, on a link that stays up.
LEMMA DropsDoes ==
    ASSUME NEW c, Begins(c), can_receive_data(c), NEW d, Drops(c, d), Mute(d), Silent(d),
           d.st \in ReceivingStates, d.modulus = c.modulus, d.vr = c.vr, d.up = <<>>,
           NEW n, NEW m, NEW f
    PROVE  Does(c, d, n, m, f)
<1>1. can_receive_data(d) /\ Plain(d) /\ Listens(c, d, f) /\ Good(c)
  BY DEF Begins, Plain, can_receive_data, ReceivingStates, Listens
<1> QED
  BY <1>1, GoesOn DEF Does

\* update_ack says and hears nothing.
LEMMA AckTalks ==
    ASSUME NEW c, Good(c), can_receive_data(c), NEW nr, in_range(c, nr)
    PROVE  SameTalk(c, update_ack(c, nr)) /\ update_ack(c, nr) \in ConnectionType
<1> DEFINE d == update_ack(c, nr)
<1>1. d \in ConnectionType
      /\ d = [c EXCEPT !.va = nr, !.iframe_resend_queue = d.iframe_resend_queue]
  BY AckKeeps DEF Good
<1> HIDE DEF d
<1>2. SameTalk(c, d)
  BY <1>1 DEF SameTalk, Good, ConnectionType
<1> QED
  BY <1>1, <1>2 DEF d

\* Nor does check_iframe_acked.
LEMMA AckedTalks ==
    ASSUME NEW c, Good(c), c.st = "Connected", NEW nr, in_range(c, nr)
    PROVE  SameTalk(c, check_iframe_acked(c, nr))
<1> DEFINE a == update_ack(c, nr)
           d == check_iframe_acked(c, nr)
<1>1. can_receive_data(c)
  BY DEF can_receive_data, ReceivingStates
<1>2. SameTalk(c, a) /\ a \in ConnectionType
  BY <1>1, AckTalks
<1>3. d \in {[a EXCEPT !.t1 = FALSE, !.t3 = TRUE], [a EXCEPT !.t1 = TRUE], c}
  BY DEF check_iframe_acked
<1> HIDE DEF a, d
<1>4. SameTalk(c, d)
  BY <1>2, <1>3 DEF SameTalk, ConnectionType
<1> QED
  BY <1>4 DEF d

\* That T1 has been stopped makes no difference to update_ack.
LEMMA AckUntimed ==
    ASSUME NEW c, Good(c), can_receive_data(c), NEW nr, in_range(c, nr)
    PROVE  LET d == [c EXCEPT !.t1 = FALSE]
           IN  /\ in_range(d, nr)
               /\ update_ack(d, nr) = [update_ack(c, nr) EXCEPT !.t1 = FALSE]
<1> DEFINE d == [c EXCEPT !.t1 = FALSE]
           s == c.iframe_resend_queue
           a == update_ack(c, nr)
           t == SubSeq(s, ahead(c, c.va, nr) + 1, Len(s))
<1>1. d.va = c.va /\ d.vs = c.vs /\ d.modulus = c.modulus /\ d.iframe_resend_queue = s
  BY DEF Good, ConnectionType
<1>2. ahead(d, d.va, nr) = ahead(c, c.va, nr) /\ in_range(d, nr)
  <2> HIDE DEF d
  <2> QED
    BY <1>1 DEF ahead, in_range, Outstanding
<1>3. ~a.aborted
  BY AckGood
<1>4. ~(ahead(c, c.va, nr) > Len(s))
  <2>1. a.aborted = TRUE \/ ~(ahead(c, c.va, nr) > Len(s))
    BY DEF update_ack, fail, Good, ConnectionType
  <2> QED
    BY <1>3, <2>1
<1>5. a = [c EXCEPT !.va = nr, !.iframe_resend_queue = t]
  BY <1>4 DEF update_ack
<1>6. update_ack(d, nr) = [d EXCEPT !.va = nr, !.iframe_resend_queue = t]
  <2> HIDE DEF d
  <2> QED
    BY <1>1, <1>2, <1>4 DEF update_ack
<1>7. update_ack(d, nr) = [a EXCEPT !.t1 = FALSE]
  <2> HIDE DEF t, a
  <2> QED
    BY <1>5, <1>6 DEF Good, ConnectionType
<1> QED
  BY <1>2, <1>7

\* An RR on a link that is up.
LEMMA RrDoes ==
    ASSUME NEW c, Begins(c), NEW f, f.poll \in BOOLEAN, f.command_response \in BOOLEAN,
           NEW n, NEW x
    PROVE  Does(c, dispatch_rr(c, f), n, n, x)
<1> DEFINE b == check_need_for_response(c, f.command_response, f.poll)
<1>0. Good(c) /\ Silent(c) /\ Mute(c) /\ c.up = <<>> /\ c \in ConnectionType
  BY DEF Begins, Good
<1>1. /\ Good(b) /\ SameLink(c, b) /\ Silent(b) /\ Mute(b) /\ b \in ConnectionType
      /\ b.up = <<>> /\ b.vr = c.vr
  <2>1. Good(b) /\ SameLink(c, b) /\ Silent(b) /\ b \in ConnectionType
    BY <1>0, ResponseGood, ResponseSilent DEF Good
  <2>2. Mute(b)
    BY <1>0, EnquiryMute DEF check_need_for_response
  <2>3. b.up = c.up /\ b.vr = c.vr
    BY <1>0 DEF check_need_for_response, enquiry_response, send, ConnectionType
  <2> QED
    BY <1>0, <2>1, <2>2, <2>3
<1>2. SameStore(c, b) /\ SameLinkData(c, b)
  BY <1>1 DEF SameLink, SameStore, SameLinkData
<1>3. ASSUME can_receive_data(c)
      PROVE  Does(c, reestablish(b, FALSE), n, n, x) /\ can_receive_data(b) /\ b.modulus = Modulus
  <2> HIDE DEF b
  <2>1. Does(c, reestablish(b, FALSE), n, n, x)
    BY <1>1, <1>2, <1>3, ReestablishDoes
  <2> QED
    BY <1>2, <1>3, <2>1 DEF SameLinkData, can_receive_data, Begins, Plain, ReceivingStates
<1>4. ASSUME can_receive_data(c), NEW d, Drops(b, d), SameTalk(b, d)
      PROVE  Does(c, d, n, n, x)
  <2> HIDE DEF b
  <2>1. Drops(c, d)
    BY <1>2, <1>4, DropsFrom
  <2>2. /\ Mute(d) /\ Silent(d) /\ d.st \in ReceivingStates /\ d.modulus = c.modulus
        /\ d.vr = c.vr /\ d.up = <<>>
    BY <1>1, <1>2, <1>4 DEF SameTalk, SameLinkData, Mute, Silent, can_receive_data
  <2> QED
    BY <1>4, <2>1, <2>2, DropsDoes
<1>5. CASE c.st = "Connected"
  <2>1. can_receive_data(c)
    BY <1>5 DEF can_receive_data, ReceivingStates
  <2>2. dispatch_rr(c, f) = IF in_range(b, f.nr) THEN check_iframe_acked(b, f.nr)
                            ELSE reestablish(b, FALSE)
    BY <1>5 DEF dispatch_rr, Connected_rr
  <2> HIDE DEF b
  <2>3. b.st = "Connected" /\ b.modulus = Modulus
    BY <1>2, <1>3, <1>5, <2>1 DEF SameLinkData
  <2>4. in_range(b, f.nr) => Does(c, check_iframe_acked(b, f.nr), n, n, x)
    BY <1>1, <1>4, <2>1, <2>3, AckedDrops, AckedTalks
  <2> QED
    BY <1>3, <2>1, <2>2, <2>4
<1>6. CASE c.st = "TimerRecovery" /\ ~(f.poll /\ ~f.command_response)
  <2>1. can_receive_data(c)
    BY <1>6 DEF can_receive_data, ReceivingStates
  <2>2. dispatch_rr(c, f) = IF in_range(b, f.nr) THEN update_ack(b, f.nr)
                            ELSE reestablish(b, FALSE)
    BY <1>6 DEF dispatch_rr, TimerRecovery_rr
  <2> HIDE DEF b
  <2>3. in_range(b, f.nr) => Does(c, update_ack(b, f.nr), n, n, x)
    BY <1>1, <1>3, <1>4, <2>1, UpdateDrops, AckTalks
  <2> QED
    BY <1>3, <2>1, <2>2, <2>3
<1>7. CASE c.st = "TimerRecovery" /\ f.poll /\ ~f.command_response
  <2> DEFINE d == [c EXCEPT !.t1 = FALSE]
             a == update_ack(c, f.nr)
             e == update_ack(d, f.nr)
             g == IF e.vs # e.va THEN invoke_retransmission(e, f.nr)
                  ELSE [e EXCEPT !.t3 = TRUE, !.st = "Connected"]
  <2>0. can_receive_data(c) /\ c.modulus = Modulus
    BY <1>7 DEF can_receive_data, ReceivingStates, Begins, Plain
  <2>1. /\ d \in ConnectionType /\ d.out = c.out /\ d.up = c.up
        /\ SameLinkData(c, d)
    BY <1>0 DEF ConnectionType, SameLinkData
  <2>2. in_range(d, f.nr) <=> in_range(c, f.nr)
    BY <2>1 DEF in_range, ahead, Outstanding, SameLinkData
  <2>3. dispatch_rr(c, f) = IF in_range(d, f.nr) THEN g ELSE reestablish(d, FALSE)
    BY <1>7 DEF dispatch_rr, TimerRecovery_rr
  <2>4. Does(c, reestablish(d, FALSE), n, n, x)
    <3> HIDE DEF d
    <3>1. Silent(d) /\ d.up = <<>>
      BY <1>0, <2>1 DEF Silent
    <3> QED
      BY <2>0, <2>1, <3>1, ReestablishDoes
  <2>5. ASSUME in_range(d, f.nr) PROVE Does(c, g, n, n, x)
    <3>1. in_range(c, f.nr)
      BY <2>2, <2>5
    <3>2. Drops(c, a) /\ SameTalk(c, a) /\ a \in ConnectionType
      BY <1>0, <2>0, <3>1, UpdateDrops, AckTalks
    <3>3. e = [a EXCEPT !.t1 = FALSE]
      BY <1>0, <2>0, <3>1, AckUntimed
    <3> HIDE DEF a, e
    <3>4. SameStore(a, e) /\ SameTalk(a, e) /\ e \in ConnectionType
      BY <3>2, <3>3 DEF SameStore, SameTalk, ConnectionType
    <3>5. /\ SameStore(e, g) /\ g.out = e.out /\ g.up = e.up /\ g.vr = e.vr
          /\ g.modulus = e.modulus /\ g.st \in {e.st, "Connected"}
      <4>1. CASE e.vs # e.va
        BY <3>4, <4>1 DEF invoke_retransmission, fail, SameStore, ConnectionType
      <4>2. CASE e.vs = e.va
        BY <3>4, <4>2 DEF SameStore, ConnectionType
      <4> QED
        BY <4>1, <4>2
    <3> HIDE DEF g
    <3>6. SameStore(a, g)
      BY <3>4, <3>5 DEF SameStore
    <3>7. Drops(c, g)
      BY <3>2, <3>6, DropsThen
    <3>8. /\ g.out = c.out /\ g.up = <<>> /\ g.vr = c.vr /\ g.modulus = c.modulus
          /\ g.st \in ReceivingStates
      BY <1>0, <1>7, <3>2, <3>4, <3>5 DEF SameTalk, ReceivingStates
    <3>9. Mute(g) /\ Silent(g)
      BY <1>0, <3>8 DEF Mute, Silent
    <3> QED
      BY <2>0, <3>7, <3>8, <3>9, DropsDoes
  <2> HIDE DEF d, e, g
  <2> QED
    BY <2>3, <2>4, <2>5
<1>8. CASE ~can_receive_data(c)
  BY <1>8, NothingDoes DEF dispatch_rr, can_receive_data, ReceivingStates
<1> QED
  BY <1>5, <1>6, <1>7, <1>8 DEF can_receive_data, ReceivingStates

\* What receive_iframe hears.
LEMMA ReceiveHears ==
    ASSUME NEW c, Good(c), c.up = <<>>, c.modulus = Modulus, NEW f, f.poll \in BOOLEAN,
           f.payload \in Payload
    PROVE  LET g == receive_iframe(c, f)
           IN  /\ g.st = c.st /\ g.modulus = c.modulus
               /\ IF f.ns = c.vr THEN g.vr = (c.vr + 1) % Modulus /\ g.up = <<f.payload>>
                  ELSE g.vr = c.vr /\ g.up = <<>>
<1> DEFINE g == receive_iframe(c, f)
<1>0. c \in ConnectionType
  BY DEF Good
<1>1. CASE f.ns = c.vr
  <2> DEFINE d == [c EXCEPT !.vr = (@ + 1) % c.modulus, !.up = Append(@, f.payload)]
             v == (c.vr + 1) % Modulus
             u == Append(c.up, f.payload)
  <2>1. u = <<f.payload>>
    OBVIOUS
  <2>2. d = [c EXCEPT !.vr = v, !.up = u]
    OBVIOUS
  <2>3. g = IF f.poll THEN enquiry_response(d, TRUE)
            ELSE [d EXCEPT !.acknowledge_pending = TRUE]
    BY <1>1 DEF receive_iframe
  <2> HIDE DEF u, v, d
  <2>4. g.st = c.st /\ g.modulus = c.modulus /\ g.vr = v /\ g.up = u
    BY <1>0, <2>2, <2>3 DEF enquiry_response, send, ConnectionType
  <2> QED
    BY <1>1, <2>1, <2>4 DEF v
<1>2. CASE f.ns # c.vr
  BY <1>0, <1>2 DEF receive_iframe, enquiry_response, send, ConnectionType
<1> QED
  BY <1>1, <1>2

\* An I frame.
LEMMA IframeDoes ==
    ASSUME NEW c, Begins(c), NEW f, f.type = "iframe", f.poll \in BOOLEAN,
           f.command_response \in BOOLEAN, f.payload \in Payload, NEW n
    PROVE  Does(c, dispatch_iframe(c, f), n, n, f)
<1>0. Good(c) /\ Silent(c) /\ Mute(c) /\ c.up = <<>> /\ c \in ConnectionType
  BY DEF Begins, Good
<1>1. CASE ~can_receive_data(c) \/ ~f.command_response
  <2>1. dispatch_iframe(c, f) = c
    BY <1>1 DEF dispatch_iframe, can_receive_data, ConnectedTimerRecovery_iframe
  <2> QED
    BY <2>1, NothingDoes
<1>2. CASE can_receive_data(c) /\ f.command_response
  <2>0. c.modulus = Modulus
    BY <1>2 DEF can_receive_data, ReceivingStates, Begins, Plain
  <2>1. CASE f.payload \in Oversized \/ ~in_range(c, f.nr)
    <3>1. Does(c, reestablish(c, FALSE), n, n, f)
      BY <1>0, <1>2, ReestablishDoes DEF SameLinkData
    <3> QED
      BY <1>2, <2>1, <3>1 DEF dispatch_iframe, can_receive_data,
                              ConnectedTimerRecovery_iframe
  <2>2. CASE f.payload \notin Oversized /\ in_range(c, f.nr)
    <3> DEFINE d == IF c.st = "Connected" THEN check_iframe_acked(c, f.nr)
                                          ELSE update_ack(c, f.nr)
               g == receive_iframe(d, f)
    <3>1. Drops(c, d) /\ SameTalk(c, d)
      BY <1>0, <1>2, <2>0, <2>2, AckedDrops, UpdateDrops, AckTalks, AckedTalks
    <3>2. Good(d) /\ can_receive_data(d)
      BY <1>0, <1>2, <2>2, AckedKeepsUp
    <3> HIDE DEF d
    <3>3. Silent(d) /\ Mute(d) /\ d.up = <<>> /\ d.modulus = Modulus /\ d.vr = c.vr
          /\ d.st = c.st
      BY <1>0, <2>0, <3>1 DEF Silent, Mute, SameTalk
    <3>4. Silent(g) /\ SameStore(d, g) /\ Mute(g)
      BY <3>2, <3>3, ReceiveSilent, ReceiveMute
    <3>5. /\ g.st = d.st /\ g.modulus = d.modulus
          /\ IF f.ns = d.vr THEN g.vr = (d.vr + 1) % Modulus /\ g.up = <<f.payload>>
             ELSE g.vr = d.vr /\ g.up = <<>>
      BY <3>2, <3>3, ReceiveHears
    <3> HIDE DEF g
    <3>6. Drops(c, g)
      BY <3>1, <3>4, DropsThen
    <3>7. can_receive_data(g) /\ Plain(g)
      BY <1>2, <3>3, <3>5 DEF can_receive_data, Plain
    <3>8. Listens(c, g, f)
      <4>1. CASE f.ns = c.vr
        <5>1. g.vr = (c.vr + 1) % Modulus /\ g.up = <<f.payload>>
          BY <3>3, <3>5, <4>1, Zenon
        <5> QED
          BY <1>2, <3>7, <4>1, <5>1, Zenon DEF Listens
      <4>2. CASE f.ns # c.vr
        <5>1. g.vr = c.vr /\ g.up = <<>>
          BY <3>3, <3>5, <4>2, Zenon
        <5> QED
          BY <1>2, <5>1, Zenon DEF Listens
      <4> QED
        BY <4>1, <4>2
    <3>9. Goes(c, g, n, n)
      BY <1>0, <1>2, <3>4, <3>6, <3>7, GoesOn
    <3>10. Does(c, g, n, n, f)
      BY <3>4, <3>7, <3>8, <3>9 DEF Does
    <3> QED
      BY <1>2, <2>2, <3>10 DEF dispatch_iframe, can_receive_data,
                               ConnectedTimerRecovery_iframe, d, g
  <2> QED
    BY <2>1, <2>2
<1> QED
  BY <1>1, <1>2

\* What Done says of the connection as it was found, once the last call's output is gone.
LEMMA DoneStart ==
    ASSUME NEW c, Good(c), NEW g, NEW n, NEW m, NEW f, Done(start(c), g, n, m, f)
    PROVE  Done(c, g, n, m, f)
<1> DEFINE s == start(c)
<1>1. /\ SameLinkData(c, s) /\ s.vr = c.vr
  BY DEF start, SameLinkData, Good, ConnectionType
<1> HIDE DEF s
<1>2. Sent(s) = Sent(c)
  BY <1>1, SameSent
<1>3. /\ s.va = c.va /\ s.iframe_resend_queue = c.iframe_resend_queue
      /\ can_receive_data(s) = can_receive_data(c)
  BY <1>1 DEF SameLinkData, can_receive_data
<1>4. \A k : (Carries(s, g, k) <=> Carries(c, g, k)) /\ (Shifted(s, g, k, n, m) <=> Shifted(c, g, k, n, m))
  BY <1>2, <1>3 DEF Carries, Shifted
<1>5. Done(s, g, n, m, f)
  BY DEF s
<1>6. Proceeds(s, g, n, m) => Proceeds(c, g, n, m)
  BY <1>2, <1>3, <1>4 DEF Proceeds
<1>7. Listens(s, g, f) => Listens(c, g, f)
  BY <1>1, <1>3, Zenon DEF Listens
<1> QED
  BY <1>5, <1>6, <1>7 DEF Done

\* Every call.
LEMMA CallDone ==
    ASSUME NEW c, Good(c), Plain(c), NEW d, Handled(start(c), d), NEW n, NEW m, NEW f,
           Begins(start(c)) => Does(start(c), d, n, m, f)
    PROVE  /\ Done(c, maybe_change_state(c, d), n, m, f)
           /\ Good(maybe_change_state(c, d))
<1>1. Begins(start(c))
  BY StartBegins
<1>2. Good(start(c)) /\ Ready(d)
  BY <1>1 DEF Begins, Handled
<1>3. Done(start(c), maybe_change_state(c, d), n, m, f)
  BY <1>1, <1>2, PollDone
<1>4. maybe_change_state(c, d) = dl_data_poll(d)
  BY <1>2 DEF maybe_change_state, Ready
<1>5. Good(maybe_change_state(c, d))
  BY <1>2, <1>4, PollGood
<1> QED
  BY <1>3, <1>5, DoneStart

------------------------------------------------------------------------------
(* One direction of the link over a whole call.                            *)

\* What the other end makes of the first frame on its way to it.
LEMMA StreamListens ==
    ASSUME NEW c, Good(c), NEW r, Good(r), NEW l, NEW w, w # <<>>, NEW n,
           Stream(c, r, l, w, n), NEW g, Listens(r, g, Head(w))
    PROVE  \/ g.up = <<>> /\ Stream(c, g, l, Tail(w), n)
           \/ \E k \in l + 1 .. n :
                 /\ g.up = <<k>> /\ Stream(c, g, k, Tail(w), n)
                 /\ can_receive_data(r) /\ can_receive_data(g)
<1>1. CASE /\ g.up = <<>>
           /\ can_receive_data(g) => can_receive_data(r) /\ g.vr = r.vr
  <2>1. Stream(c, r, l, Tail(w), n)
    BY StreamTail
  <2> QED
    BY <1>1, <2>1, StreamHeard
<1>2. CASE g.up = <<>> /\ Resets(Head(w))
  BY <1>2, StreamReset
<1>3. CASE /\ Head(w).type = "iframe" /\ Head(w).ns = r.vr /\ can_receive_data(r)
           /\ can_receive_data(g)
           /\ g.up = <<Head(w).payload>> /\ g.vr = (r.vr + 1) % Modulus
  <2>1. /\ Stream(c, g, Head(w).payload, Tail(w), n)
        /\ Head(w).payload \in l + 1 .. n
    BY <1>3, StreamTaken
  <2> QED
    BY <1>3, <2>1
<1> QED
  BY <1>1, <1>2, <1>3 DEF Listens

\* Nothing but the link, its numbers and the store take part in it.
LEMMA StreamSame ==
    ASSUME NEW c, NEW r, NEW l, NEW w, NEW n, Stream(c, r, l, w, n),
           NEW c1, SameLinkData(c, c1), NEW r1, r1.st = r.st, r1.vr = r.vr
    PROVE  Stream(c1, r1, l, w, n)
<1>1. /\ c1.iframe_resend_queue = c.iframe_resend_queue /\ c1.va = c.va
      /\ can_receive_data(c1) = can_receive_data(c) /\ Sent(c1) = Sent(c)
      /\ Outstanding(c1) = Outstanding(c)
      /\ can_receive_data(r1) = can_receive_data(r)
  BY SameSent DEF SameLinkData, can_receive_data, Outstanding, ahead
<1>2. Mark(r1, l) = Mark(r, l)
  BY DEF Mark
<1>3. \A j : Kept(c1, j) = Kept(c, j)
  BY <1>1 DEF Kept
<1>4. \A x, i : Behind(x, w, i, c) => Behind(x, w, i, c1)
  BY <1>1 DEF Behind
<1>5. \A x, i : Within(x, w, i, c) => Within(x, w, i, c1)
  BY <1>1, <1>3 DEF Within
<1>6. Stocked(c1, n)
  BY <1>1 DEF Stream, Stocked
<1> QED
  BY <1>1, <1>2, <1>4, <1>5, <1>6 DEF Stream

\* A store that is empty because the connection is new.
LEMMA StreamForgets ==
    ASSUME NEW c, Good(c), NEW r, Good(r), NEW l, NEW w, NEW n, Stream(c, r, l, w, n),
           NEW g, Good(g), g.out = <<>>, g.iframe_resend_queue = <<>>, ~can_receive_data(g)
    PROVE  Stream(g, r, l, w, n)
<1>1. Onto(w, w, g.out)
  BY DEF Stream, Onto
<1>2. Pours(g, 0)
  BY DEF Pours
<1>3. Proceeds(c, g, n, n)
  BY <1>2 DEF Proceeds
<1>4. n \in {n, n + 1}
  OBVIOUS
<1> QED
  BY <1>1, <1>3, <1>4, StreamSent

\* At the beginning nothing is on its way.
LEMMA StreamNone ==
    ASSUME NEW c, Good(c), c.iframe_resend_queue = <<>>, NEW r, Good(r)
    PROVE  Stream(c, r, 0, <<>>, 0)
<1>1. Len(c.iframe_resend_queue) = 0 /\ <<>> \in Seq(Frame) /\ Len(<<>>) = 0
  OBVIOUS
<1> QED
  BY <1>1 DEF Stream, Stocked, Behind, Within

\* The poll does not change the state.
LEMMA CallState ==
    ASSUME NEW b, NEW d, Ready(d)
    PROVE  maybe_change_state(b, d).st = d.st
  BY PollGood DEF maybe_change_state, Ready

\* A link that is down is left down by all but a SABM and the call for a link.
LEMMA DownStays ==
    ASSUME NEW c, Good(c), c.st = "Disconnected"
    PROVE  /\ \A pf \in BOOLEAN : con_ua(c, pf).st = "Disconnected"
           /\ \A pf \in BOOLEAN : con_disc(c, pf).st = "Disconnected"
           /\ \A f : con_rr(c, f).st = "Disconnected"
           /\ \A f : con_iframe(c, f).st = "Disconnected"
           /\ con_dl_disconnect(c).st = "Disconnected"
           /\ c.t1 => con_timer1_tick(c).st = "Disconnected"
           /\ con_timer3_tick(c).st = "Disconnected"
<1> DEFINE s == start(c)
<1>1. Good(s) /\ Ready(s) /\ s.st = "Disconnected" /\ s \in ConnectionType
  BY StartGood DEF Good
<1>2. s.t1 = c.t1
  BY DEF start, Good, ConnectionType
<1>3. /\ con_dl_disconnect(c) = maybe_change_state(c, dispatch_dl_disconnect(s))
      /\ con_timer1_tick(c) = maybe_change_state(c, dispatch_timer1_tick([s EXCEPT !.t1 = FALSE]))
      /\ con_timer3_tick(c) = maybe_change_state(c, [s EXCEPT !.t3 = FALSE])
      /\ \A pf : con_ua(c, pf) = maybe_change_state(c, dispatch_ua(s, pf))
      /\ \A pf : con_disc(c, pf) = maybe_change_state(c, dispatch_disc(s, pf))
      /\ \A f : con_rr(c, f) = maybe_change_state(c, dispatch_rr(s, f))
      /\ \A f : con_iframe(c, f) = maybe_change_state(c, dispatch_iframe(s, f))
  BY DEF con_dl_disconnect, con_timer1_tick, con_timer3_tick, con_ua, con_disc, con_rr, con_iframe
<1> HIDE DEF s
<1>4. maybe_change_state(c, s).st = "Disconnected"
  BY <1>1, CallState
<1>5. \A pf : dispatch_ua(s, pf) = s
  BY <1>1 DEF dispatch_ua, ReceivingStates
<1>6. \A f : dispatch_rr(s, f) = s
  BY <1>1 DEF dispatch_rr
<1>7. \A f : dispatch_iframe(s, f) = s
  BY <1>1 DEF dispatch_iframe, ReceivingStates
<1>8. dispatch_dl_disconnect(s) = s
  BY <1>1 DEF dispatch_dl_disconnect, ReceivingStates
<1>9. ASSUME NEW pf \in BOOLEAN
      PROVE  maybe_change_state(c, dispatch_disc(s, pf)).st = "Disconnected"
  <2>1. dispatch_disc(s, pf) = send(s, Dm(pf))
    BY <1>1 DEF dispatch_disc, Disconnected_disc, ReceivingStates
  <2>2. Ready(dispatch_disc(s, pf))
    BY <1>1, DiscHandled DEF Handled
  <2>3. dispatch_disc(s, pf).st = "Disconnected"
    BY <1>1, <2>1 DEF send, ConnectionType
  <2> QED
    BY <2>2, <2>3, CallState
<1>10. ASSUME c.t1
       PROVE  maybe_change_state(c, dispatch_timer1_tick([s EXCEPT !.t1 = FALSE])).st = "Disconnected"
  <2> DEFINE b == [s EXCEPT !.t1 = FALSE]
             d == dispatch_timer1_tick(b)
  <2>1. Ready(d)
    BY <1>1, <1>2, <1>10, Timer1Handled DEF Handled
  <2>2. b.st = "Disconnected"
    BY <1>1 DEF ConnectionType
  <2> HIDE DEF b
  <2>3. d = b
    BY <2>2 DEF dispatch_timer1_tick
  <2> HIDE DEF d
  <2>4. maybe_change_state(c, d).st = "Disconnected"
    BY <2>1, <2>2, <2>3, CallState
  <2> QED
    BY <2>4 DEF d, b
<1>11. maybe_change_state(c, [s EXCEPT !.t3 = FALSE]).st = "Disconnected"
  <2> DEFINE b == [s EXCEPT !.t3 = FALSE]
  <2>1. Ready(b)
    BY <1>1, Timer3Handled DEF Handled
  <2>2. b.st = "Disconnected"
    BY <1>1 DEF ConnectionType
  <2> HIDE DEF b
  <2>3. maybe_change_state(c, b).st = "Disconnected"
    BY <2>1, <2>2, CallState
  <2> QED
    BY <2>3 DEF b
<1> QED
  BY <1>3, <1>4, <1>5, <1>6, <1>7, <1>8, <1>9, <1>10, <1>11

\* No call at all.
LEMMA IdleDone ==
    ASSUME NEW c, Good(c), Plain(c), c.out = <<>>, c.up = <<>>, NEW n, NEW m, NEW f
    PROVE  Done(c, c, n, m, f)
<1> DEFINE s == c.iframe_resend_queue
<1>1. \E z \in Int : Pours(c, z)
  <2>1. Pours(c, 0)
    BY DEF Pours
  <2> QED
    BY <2>1
<1>2. Len(s) \in Nat /\ (can_receive_data(c) => Outstanding(c) \in 0 .. K)
  BY SentIs
<1>3. \A j \in 1 .. Len(s) : j + 0 = j /\ j <= Len(s)
  BY <1>2
<1>4. Shifted(c, c, 0, n, m) /\ Carries(c, c, 0) /\ 0 \in 0 .. Len(s)
  BY <1>2, <1>3 DEF Shifted, Carries
<1>5. Mute(c)
  BY DEF Mute
<1>6. can_receive_data(c) => c.va = (c.va + 0) % Modulus
  <2>1. SUFFICES ASSUME can_receive_data(c) PROVE c.va = (c.va + 0) % Modulus
    OBVIOUS
  <2>2. c.modulus = Modulus
    BY <2>1 DEF Plain, can_receive_data, ReceivingStates
  <2>3. c.va \in 0 .. Modulus - 1 /\ Modulus \in Nat \ {0}
    BY <2>1, <2>2 DEF Good, Window
  <2>4. c.va + 0 = c.va
    BY <2>3
  <2>5. c.va % Modulus = c.va
    BY <2>3, ModPlain, Zenon
  <2> QED
    BY <2>4, <2>5, Zenon
<1>7. Proceeds(c, c, n, m)
  <2>1. CASE can_receive_data(c)
    BY <1>1, <1>2, <1>4, <1>5, <1>6, <2>1, Zenon DEF Proceeds
  <2>2. CASE ~can_receive_data(c)
    BY <1>1, <1>2, <1>4, <2>2, Zenon DEF Proceeds
  <2> QED
    BY <2>1, <2>2
<1> QED
  BY <1>7 DEF Done, Listens

\* dl_data leaves the state as it is.
LEMMA DlDataState ==
    ASSUME NEW c, Good(c), NEW p \in Payload
    PROVE  con_dl_data(c, p).st = c.st
<1> DEFINE s == start(c)
           d == dispatch_dl_data(s, p)
<1>1. Good(s) /\ s.st = c.st /\ s \in ConnectionType
  BY StartGood DEF Good
<1>2. con_dl_data(c, p) = maybe_change_state(c, d)
  BY DEF con_dl_data
<1> HIDE DEF s
<1>3. Ready(d)
  BY <1>1, DlDataHandled DEF Handled
<1>4. d.st = s.st
  BY <1>1 DEF dispatch_dl_data, ConnectedTimerRecovery_dl_data, ConnectionType
<1> HIDE DEF d
<1> QED
  BY <1>1, <1>2, <1>3, <1>4, CallState

\* The calls of the application and the timers, as the peer sees them.
LEMMA CallsDone ==
    ASSUME NEW c, Good(c), Plain(c), NEW n, NEW f
    PROVE  /\ Fresh(c) => Done(c, con_dl_connect(c), n, n, f) /\ Good(con_dl_connect(c))
           /\ Done(c, con_dl_disconnect(c), n, n, f) /\ Good(con_dl_disconnect(c))
           /\ n + 1 \in Payload => /\ Done(c, con_dl_data(c, n + 1), n, n + 1, f)
                                  /\ Good(con_dl_data(c, n + 1))
           /\ c.t1 => Done(c, con_timer1_tick(c), n, n, f)
           /\ Done(c, con_timer3_tick(c), n, n, f)
<1> DEFINE s == start(c)
<1>1. Good(s) /\ (Fresh(c) => Fresh(s)) /\ s = start(c)
  BY StartGood
<1>2. s.t1 = c.t1
  BY DEF start, Good, ConnectionType
<1> HIDE DEF s
<1>3. ASSUME Fresh(c) PROVE Done(c, con_dl_connect(c), n, n, f) /\ Good(con_dl_connect(c))
  <2>1. Handled(s, dispatch_dl_connect(s))
    BY <1>1, <1>3, DlConnectHandled
  <2>2. Begins(s) => Does(s, dispatch_dl_connect(s), n, n, f)
    BY <1>1, <1>3, DlConnectDoes
  <2> QED
    BY <1>1, <2>1, <2>2, CallDone DEF con_dl_connect
<1>4. Done(c, con_dl_disconnect(c), n, n, f) /\ Good(con_dl_disconnect(c))
  <2>1. Handled(s, dispatch_dl_disconnect(s))
    BY <1>1, DlDisconnectHandled
  <2>2. Begins(s) => Does(s, dispatch_dl_disconnect(s), n, n, f)
    BY <1>1, DlDisconnectDoes
  <2> QED
    BY <1>1, <2>1, <2>2, CallDone DEF con_dl_disconnect
<1>5. ASSUME n + 1 \in Payload
      PROVE  Done(c, con_dl_data(c, n + 1), n, n + 1, f) /\ Good(con_dl_data(c, n + 1))
  <2>1. Handled(s, dispatch_dl_data(s, n + 1))
    BY <1>1, <1>5, DlDataHandled
  <2>2. Begins(s) => Does(s, dispatch_dl_data(s, n + 1), n, n + 1, f)
    BY <1>1, <1>5, DlDataDoes
  <2> QED
    BY <1>1, <2>1, <2>2, CallDone DEF con_dl_data
<1>6. ASSUME c.t1 PROVE Done(c, con_timer1_tick(c), n, n, f)
  <2> DEFINE d == dispatch_timer1_tick([s EXCEPT !.t1 = FALSE])
  <2>1. con_timer1_tick(c) = maybe_change_state(c, d)
    BY <1>1 DEF con_timer1_tick
  <2>2. Begins(s) => Does(s, d, n, n, f)
    BY Timer1Does
  <2>3. Ready(d)
    BY <1>1, <1>2, <1>6, Timer1Handled DEF Handled
  <2> HIDE DEF d
  <2>4. Begins(s)
    BY <1>1, StartBegins
  <2>5. Done(s, maybe_change_state(c, d), n, n, f)
    BY <1>1, <2>2, <2>3, <2>4, PollDone
  <2> QED
    BY <1>1, <2>1, <2>5, DoneStart
<1>7. Done(c, con_timer3_tick(c), n, n, f)
  <2> DEFINE d == [s EXCEPT !.t3 = FALSE]
  <2>1. con_timer3_tick(c) = maybe_change_state(c, d)
    BY <1>1 DEF con_timer3_tick
  <2>2. Begins(s) => Does(s, d, n, n, f)
    BY Timer3Does
  <2>3. Ready(d)
    BY <1>1, Timer3Handled DEF Handled
  <2> HIDE DEF d
  <2>4. Begins(s)
    BY <1>1, StartBegins
  <2>5. Done(s, maybe_change_state(c, d), n, n, f)
    BY <1>1, <2>2, <2>3, <2>4, PollDone
  <2> QED
    BY <1>1, <2>1, <2>5, DoneStart
<1> QED
  BY <1>3, <1>4, <1>5, <1>6, <1>7

\* The frames of the peer.
LEMMA FramesDone ==
    ASSUME NEW c, Good(c), Plain(c), NEW n, NEW f \in Frame
    PROVE  /\ f.type = "ua" => Done(c, con_ua(c, f.poll), n, n, f)
           /\ f.type = "iframe" => Done(c, con_iframe(c, f), n, n, f)
           /\ f.type = "rr" => Done(c, con_rr(c, f), n, n, f)
           /\ f.type = "disc" => Done(c, con_disc(c, f.poll), n, n, f)
           /\ f.type = "sabm" /\ Fresh(c) => Done(c, con_sabm(c, f.poll), n, n, f)
<1> DEFINE s == start(c)
<1>1. Good(s) /\ (Fresh(c) => Fresh(s)) /\ s = start(c)
  BY StartGood
<1> HIDE DEF s
<1>2. f.poll \in BOOLEAN
  BY DEF Frame
<1>3. ASSUME f.type = "ua" PROVE Done(c, con_ua(c, f.poll), n, n, f)
  <2>1. Handled(s, dispatch_ua(s, f.poll))
    BY <1>1, <1>2, UaHandled
  <2>2. Begins(s) => Does(s, dispatch_ua(s, f.poll), n, n, f)
    BY <1>1, <1>2, <1>3, UaDoes
  <2> QED
    BY <1>1, <2>1, <2>2, CallDone DEF con_ua
<1>4. ASSUME f.type = "iframe" PROVE Done(c, con_iframe(c, f), n, n, f)
  <2>0. f.command_response \in BOOLEAN /\ f.payload \in Payload
    BY <1>4 DEF Frame
  <2>1. Handled(s, dispatch_iframe(s, f))
    BY <1>1, <1>2, <2>0, IframeHandled
  <2>2. Begins(s) => Does(s, dispatch_iframe(s, f), n, n, f)
    BY <1>1, <1>2, <1>4, <2>0, IframeDoes
  <2> QED
    BY <1>1, <2>1, <2>2, CallDone DEF con_iframe
<1>5. ASSUME f.type = "rr" PROVE Done(c, con_rr(c, f), n, n, f)
  <2>0. f.command_response \in BOOLEAN
    BY <1>5 DEF Frame
  <2>1. Handled(s, dispatch_rr(s, f))
    BY <1>1, <1>2, <2>0, RrHandled
  <2>2. Begins(s) => Does(s, dispatch_rr(s, f), n, n, f)
    BY <1>1, <1>2, <2>0, RrDoes
  <2> QED
    BY <1>1, <2>1, <2>2, CallDone DEF con_rr
<1>6. ASSUME f.type = "disc" PROVE Done(c, con_disc(c, f.poll), n, n, f)
  <2>1. Handled(s, dispatch_disc(s, f.poll))
    BY <1>1, <1>2, DiscHandled
  <2>2. Begins(s) => Does(s, dispatch_disc(s, f.poll), n, n, f)
    BY <1>1, <1>2, DiscDoes
  <2> QED
    BY <1>1, <2>1, <2>2, CallDone DEF con_disc
<1>7. ASSUME f.type = "sabm", Fresh(c) PROVE Done(c, con_sabm(c, f.poll), n, n, f)
  <2>1. Handled(s, dispatch_sabm(s, f.poll))
    <3>1. CASE s.st = "Disconnected"
      BY <1>1, <1>2, <1>7, <3>1, SabmHandled DEF dispatch_sabm
    <3>2. CASE s.st = "Connected"
      BY <1>1, <1>2, <3>2, ConnectedSabmHandled DEF dispatch_sabm
    <3>3. CASE s.st \notin {"Disconnected", "Connected"}
      BY <1>1, <3>3, GoodReady DEF dispatch_sabm, Handled
    <3> QED
      BY <3>1, <3>2, <3>3
  <2>2. Begins(s) => Does(s, dispatch_sabm(s, f.poll), n, n, f)
    BY <1>1, <1>2, <1>7, SabmDoes
  <2> QED
    BY <1>1, <2>1, <2>2, CallDone DEF con_sabm
<1> QED
  BY <1>3, <1>4, <1>5, <1>6, <1>7
==============================================================================
