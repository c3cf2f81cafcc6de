----------------------------- MODULE RoutersProofs -----------------------------
(***************************************************************************)
(* Both router programs keep the contract of module RouterService, and     *)
(* what comes off the serial line is what was sent, for every payload and  *)
(* every number of senders, clients and faults.                            *)
(***************************************************************************)
EXTENDS KissLemmas

------------------------------------------------------------------------------
(* The streams of both services.                                           *)

\* What only the serial service has.
SerialPart ==
    /\ submitted \in Seq(Sent) /\ Len(submitted) <= Len(Payload)
    /\ rest \in [Sender -> Frame] /\ S!OneWriter
    /\ line \in Frame /\ buf \in Frame
    /\ state \in {"UNKNOWN", "READING"} /\ reader \in {"running", "reopening"}
    /\ queue \in [Client -> Seq(Frame)]
    /\ faults \in 0 .. MaxFaults /\ calm \in 0 .. Len(submitted)

HubPart ==
    /\ clients \subseteq Client /\ todo \subseteq clients
    /\ sending \in BOOLEAN

Shared ==
    /\ service \in {"serial", "hub"}
    /\ published \in Seq(Frame) /\ got \in [Client -> Seq(Frame)]
    /\ handler \in [Client -> {"out", "inserting", "in", "erasing", "done"}]
    /\ gone \subseteq Client /\ joined \in [Client -> 0 .. Len(published)]

\* Queue q continues what was handed out after the first n frames of fs.
Continues(q, n, fs) ==
    /\ n + Len(q) = Len(fs)
    /\ \A i \in 1 .. Len(q) : q[i] = fs[n + i]

SerialStreams ==
    \A c \in Client :
        /\ handler[c] \in {"out", "in", "done"}
        /\ handler[c] = "out" => got[c] = <<>> /\ queue[c] = <<>> /\ c \notin gone
        /\ handler[c] = "in" => Continues(queue[c], joined[c] + Len(got[c]), published)
        /\ handler[c] = "done" => c \in gone

HubStreams ==
    /\ \A c \in Client :
        /\ c \in clients <=> handler[c] \in {"in", "erasing"}
        /\ handler[c] \in {"out", "inserting"} => got[c] = <<>> /\ c \notin gone
        /\ handler[c] \in {"erasing", "done"} => c \in gone
        /\ handler[c] = "inserting" => ~sending
        /\ handler[c] = "in" /\ c \notin gone =>
             joined[c] + Len(got[c]) + (IF c \in todo THEN 1 ELSE 0) = Len(published)
    /\ todo # {} => sending
    /\ sending => Len(published) >= 1
    /\ Len(published) <= Len(Payload)

Streams ==
    /\ SerialPart /\ HubPart /\ Shared
    /\ service = "serial" => SerialStreams
    /\ service = "hub" => HubStreams

contractVars == <<published, member, joined, got>>


\* The beginning.
LEMMA StreamsBegin == Init => Streams /\ Contract!Init
<1> SUFFICES ASSUME Init PROVE Streams /\ Contract!Init
  OBVIOUS
<1>1. line \in Frame
  <2>1. CASE line \in Leftover
    BY <2>1, LeftoverAssumption DEF Frame
  <2>2. CASE line = <<>>
    BY <2>2 DEF Frame
  <2> QED
    BY <2>1, <2>2 DEF Init, S!Init
<1>2. <<>> \in Frame /\ <<>> \in Seq(Frame) /\ <<>> \in Seq(Sent) /\ Len(<<>>) = 0
  BY DEF Frame
<1>3. SerialPart
  BY <1>1, <1>2, MaxFaultsAssumption DEF Init, S!Init, SerialPart, S!OneWriter
<1>4. HubPart /\ Shared
  <2>1. HubPart
    BY DEF Init, H!Init, HubPart
  <2>2. got \in [Client -> Seq(Frame)] /\ published \in Seq(Frame)
    BY <1>2 DEF Init, S!Init
  <2>3. handler \in [Client -> {"out", "inserting", "in", "erasing", "done"}]
        /\ joined \in [Client -> 0 .. Len(published)] /\ gone \subseteq Client
    BY <1>2 DEF Init, S!Init
  <2> QED
    BY <2>1, <2>2, <2>3 DEF Shared, Init
<1>5. SerialStreams
  BY DEF Init, S!Init, SerialStreams
<1>6. HubStreams
  BY DEF Init, S!Init, H!Init, HubStreams
<1>7. member = [c \in Client |-> "out"]
  BY DEF Init, S!Init, member
<1> QED
  BY <1>3, <1>4, <1>5, <1>6, <1>7 DEF Streams, Contract!Init, Init, S!Init

------------------------------------------------------------------------------
(* The serial service.                                                     *)

\* Send begins to write.
LEMMA SendKeeps ==
    ASSUME Streams, NEW s \in Sender, OfSerial(S!Send(s))
    PROVE  Streams' /\ UNCHANGED contractVars
<1>1. S!upcoming \in Range(Payload) /\ S!upcoming \in Frame
  <2>1. Len(submitted) + 1 \in 1 .. Len(Payload)
    BY Payloads DEF OfSerial, S!Send, Streams, SerialPart
  <2> QED
    BY <2>1, Payloads DEF S!upcoming
<1>2. S!KissFrame(S!upcoming) \in Frame
  BY <1>1, FrameTyped
<1>3. [payload |-> S!upcoming, whole |-> TRUE] \in Sent
  BY <1>1 DEF Sent
<1>4. SerialPart'
  <2>1. submitted' \in Seq(Sent) /\ Len(submitted') = Len(submitted) + 1
    BY <1>3, AppendProperties DEF OfSerial, S!Send, Streams, SerialPart
  <2>2. rest' \in [Sender -> Frame]
    BY <1>2 DEF OfSerial, S!Send, Streams, SerialPart
  <2>3. (S!OneWriter)'
    BY DEF OfSerial, S!Send, Streams, SerialPart, S!OneWriter
  <2>4. calm \in 0 .. Len(submitted')
    BY <2>1 DEF Streams, SerialPart
  <2> QED
    BY <2>1, <2>2, <2>3, <2>4
    DEF OfSerial, S!Send, Streams, SerialPart, S!readVars, S!faultVars, S!clientVars
<1>5. HubPart' /\ Shared'
  BY DEF OfSerial, S!Send, Streams, HubPart, Shared, S!clientVars, hubOnly
<1>6. SerialStreams' /\ service' = "serial"
  BY DEF OfSerial, S!Send, Streams, SerialStreams, S!clientVars
<1>7. UNCHANGED contractVars
  BY DEF OfSerial, S!Send, contractVars, S!clientVars, member
<1> QED
  BY <1>4, <1>5, <1>6, <1>7 DEF Streams

\* It writes some of its octets.
LEMMA SendWriteKeeps ==
    ASSUME Streams, NEW s \in Sender, OfSerial(S!Send_write(s))
    PROVE  Streams' /\ UNCHANGED contractVars
<1>1. PICK n \in 1 .. Len(rest[s]) :
         /\ line' = line \o SubSeq(rest[s], 1, n)
         /\ rest' = [rest EXCEPT ![s] = SubSeq(@, n + 1, Len(@))]
  BY DEF OfSerial, S!Send_write
<1>2. rest[s] \in Frame /\ line \in Frame
  BY DEF Streams, SerialPart
<1>3. SubSeq(rest[s], 1, n) \in Frame /\ SubSeq(rest[s], n + 1, Len(rest[s])) \in Frame
  BY <1>2 DEF Frame
<1>4. rest[s] # <<>>
  BY <1>1, <1>2 DEF Frame
<1>5. SerialPart'
  <2>1. line' \in Frame
    BY <1>1, <1>2, <1>3 DEF Frame
  <2>2. rest' \in [Sender -> Frame]
    BY <1>1, <1>3 DEF Streams, SerialPart
  <2>3. (S!OneWriter)'
    BY <1>1, <1>4 DEF Streams, SerialPart, S!OneWriter
  <2> QED
    BY <2>1, <2>2, <2>3
    DEF OfSerial, S!Send_write, Streams, SerialPart, S!readVars, S!faultVars, S!clientVars
<1>6. HubPart' /\ Shared'
  BY DEF OfSerial, S!Send_write, Streams, HubPart, Shared, S!clientVars, hubOnly
<1>7. SerialStreams' /\ service' = "serial"
  BY DEF OfSerial, S!Send_write, Streams, SerialStreams, S!clientVars
<1>8. UNCHANGED contractVars
  BY DEF OfSerial, S!Send_write, contractVars, S!clientVars, member
<1> QED
  BY <1>5, <1>6, <1>7, <1>8 DEF Streams

\* A write fails.
LEMMA SendThrowsKeeps ==
    ASSUME Streams, NEW s \in Sender, OfSerial(S!Send_throws(s))
    PROVE  Streams' /\ UNCHANGED contractVars
<1>1. SerialPart'
  <2>1. submitted' \in Seq(Sent) /\ Len(submitted') = Len(submitted)
    <3> DEFINE n == Len(submitted)
               x == [submitted[n] EXCEPT !.whole = FALSE]
    <3>1. submitted \in Seq(Sent) /\ n \in Nat
      BY DEF Streams, SerialPart
    <3>2. submitted' = [submitted EXCEPT ![n] = x]
      BY DEF OfSerial, S!Send_throws
    <3>3. n \in 1 .. Len(submitted) => x \in Sent
      <4>1. n \in 1 .. Len(submitted) => submitted[n] \in Sent
        BY <3>1, ElementOfSeq
      <4> QED
        BY <4>1 DEF Sent
    <3> HIDE DEF x
    <3>4. CASE n = 0
      <4>1. submitted \in [1 .. n -> Sent]
        BY <3>1
      <4>2. \A i \in 1 .. n : i # n
        BY <3>4
      <4>3. [submitted EXCEPT ![n] = x] = submitted
        BY <4>1, <4>2, Zenon
      <4> QED
        BY <3>1, <3>2, <4>3
    <3>5. CASE n # 0
      BY <3>1, <3>2, <3>3, <3>5, ExceptSeq
    <3> QED
      BY <3>4, <3>5
  <2>2. rest' \in [Sender -> Frame]
    BY DEF OfSerial, S!Send_throws, Streams, SerialPart, Frame
  <2>3. (S!OneWriter)'
    BY DEF OfSerial, S!Send_throws, Streams, SerialPart, S!OneWriter
  <2>4. faults' \in 0 .. MaxFaults /\ calm' \in 0 .. Len(submitted')
    BY <2>1, MaxFaultsAssumption DEF OfSerial, S!Send_throws, Streams, SerialPart, S!Fault
  <2> QED
    BY <2>1, <2>2, <2>3, <2>4
    DEF OfSerial, S!Send_throws, Streams, SerialPart, S!readVars, S!clientVars
<1>2. HubPart' /\ Shared'
  BY DEF OfSerial, S!Send_throws, Streams, HubPart, Shared, S!clientVars, hubOnly
<1>3. SerialStreams' /\ service' = "serial"
  BY DEF OfSerial, S!Send_throws, Streams, SerialStreams, S!clientVars
<1>4. UNCHANGED contractVars
  BY DEF OfSerial, S!Send_throws, contractVars, S!clientVars, member
<1> QED
  BY <1>1, <1>2, <1>3, <1>4 DEF Streams

\* The thread reads, or fails to.
LEMMA ReadKeeps ==
    ASSUME Streams, OfSerial(S!read \/ S!read_fails \/ S!read_eof)
    PROVE  Streams' /\ UNCHANGED contractVars
<1>1. SerialPart'
  <2>1. CASE S!read
    <3>1. buf' \in Frame /\ line' \in Frame
      BY <2>1 DEF S!read, Streams, SerialPart, Frame
    <3> QED
      BY <2>1, <3>1 DEF S!read, Streams, SerialPart, S!clientVars, S!faultVars, S!OneWriter
  <2>2. CASE S!read_fails \/ S!read_eof
    <3>1. faults' \in 0 .. MaxFaults /\ calm' \in 0 .. Len(submitted)
      BY <2>2, MaxFaultsAssumption DEF S!read_fails, S!read_eof, S!Fault, Streams, SerialPart
    <3>2. buf' \in Frame /\ state' \in {"UNKNOWN", "READING"}
          /\ reader' \in {"running", "reopening"}
      <4>1. <<>> \in Frame
        BY DEF Frame
      <4>2. CASE S!read_fails
        BY <4>1, <4>2 DEF S!read_fails, S!Restart, Streams, SerialPart
      <4>3. CASE S!read_eof
        BY <4>3 DEF S!read_eof, Streams, SerialPart
      <4> QED
        BY <2>2, <4>2, <4>3
    <3> QED
      BY <2>2, <3>1, <3>2
      DEF S!read_fails, S!read_eof, Streams, SerialPart, S!clientVars, S!OneWriter
  <2> QED
    BY <2>1, <2>2 DEF OfSerial
<1>2. UNCHANGED <<submitted, published, handler, gone, joined, got, queue>>
  BY DEF OfSerial, S!read, S!read_fails, S!read_eof, S!clientVars
<1>3. HubPart' /\ Shared' /\ SerialStreams' /\ service' = "serial"
  BY <1>2 DEF OfSerial, Streams, HubPart, Shared, SerialStreams, hubOnly
<1>4. UNCHANGED contractVars
  BY <1>2 DEF contractVars, member
<1> QED
  BY <1>1, <1>3, <1>4 DEF Streams

\* The next FEND of buf, and what lies before it.
fend == CHOOSE i \in S!Ends : \A j \in S!Ends : i <= j
data == SubSeq(buf, 1, fend - 1)
payload == S!kiss_unescape(data)

\* buf has no FEND before fend, and data is what lies there.
LEMMA FirstEnd ==
    ASSUME buf \in Frame, S!Ends # {}
    PROVE  /\ fend \in 1 .. Len(buf) /\ buf[fend] = S!FEND
           /\ \A k \in 1 .. fend - 1 : buf[k] # S!FEND
           /\ data \in Frame /\ Len(data) = fend - 1
           /\ \A k \in 1 .. fend - 1 : data[k] = buf[k]
           /\ payload \in Frame
<1>1. S!Ends \in SUBSET Nat
  BY DEF S!Ends, Frame
<1>2. \E i \in S!Ends : \A j \in S!Ends : i <= j
  BY <1>1, LeastNat
<1>3. fend \in S!Ends /\ \A j \in S!Ends : fend <= j
  BY <1>2 DEF fend
<1>4. fend \in 1 .. Len(buf) /\ buf[fend] = S!FEND
  BY <1>3 DEF S!Ends
<1>5. ASSUME NEW k \in 1 .. fend - 1 PROVE buf[k] # S!FEND
  <2>1. k \in 1 .. Len(buf) /\ ~(fend <= k)
    BY <1>4 DEF Frame
  <2> QED
    BY <1>3, <2>1 DEF S!Ends
<1>6. data \in Frame /\ Len(data) = fend - 1 /\ \A k \in 1 .. fend - 1 : data[k] = buf[k]
  BY <1>4, SubSeqProperties DEF data, Frame
<1> QED
  BY <1>4, <1>5, <1>6, UnescapeTyped DEF payload

\* The same with the names of the lemma.
LEMMA FrameIs ==
    ASSUME S!frame
    PROVE  /\ S!Ends # {} /\ reader = "running"
           /\ UNCHANGED <<submitted, handler, gone, joined, got, rest, line, reader, faults>>
           /\ \/ /\ state = "READING" /\ S!Invalid(data)
                 /\ buf' = <<>> /\ state' = "UNKNOWN" /\ calm' = Len(submitted)
                 /\ UNCHANGED <<published, queue>>
              \/ /\ ~(state = "READING" /\ S!Invalid(data))
                 /\ state' = "READING" /\ buf' = SubSeq(buf, fend + 1, Len(buf))
                 /\ UNCHANGED calm
                 /\ \/ /\ state = "READING" /\ payload # <<>> /\ payload[1] = 0
                       /\ S!inject(Tail(payload))
                    \/ /\ ~(state = "READING" /\ payload # <<>> /\ payload[1] = 0)
                       /\ UNCHANGED <<published, queue>>
BY DEF S!frame, fend, data, payload, S!Restart, S!Keep

\* The thread passes a frame on, or drops what it has, and no client misses it.
LEMMA FrameKeeps ==
    ASSUME Streams, OfSerial(S!frame)
    PROVE  Streams' /\ (Contract!Publish \/ UNCHANGED contractVars)
<1>0. S!frame /\ service = "serial" /\ service' = service /\ UNCHANGED hubOnly
  BY DEF OfSerial
<1>1. /\ S!Ends # {} /\ reader = "running"
      /\ UNCHANGED <<submitted, handler, gone, joined, got, rest, line, reader, faults>>
  BY <1>0, FrameIs
<1>2. buf \in Frame /\ published \in Seq(Frame) /\ queue \in [Client -> Seq(Frame)]
      /\ submitted \in Seq(Sent)
  BY DEF Streams, SerialPart, Shared
<1>3. fend \in 1 .. Len(buf) /\ data \in Frame /\ payload \in Frame
  BY <1>1, <1>2, FirstEnd
<1>4. buf' \in Frame /\ state' \in {"UNKNOWN", "READING"} /\ calm' \in 0 .. Len(submitted)
  <2>1. <<>> \in Frame /\ SubSeq(buf, fend + 1, Len(buf)) \in Frame
    BY <1>2, <1>3 DEF Frame
  <2>2. Len(submitted) \in 0 .. Len(submitted) /\ calm \in 0 .. Len(submitted)
    BY <1>2 DEF Streams, SerialPart
  <2> QED
    BY <1>0, <2>1, <2>2, FrameIs
<1>5. CASE UNCHANGED <<published, queue>>
  <2>1. SerialPart'
    BY <1>1, <1>4, <1>5 DEF Streams, SerialPart, S!OneWriter
  <2>2. HubPart' /\ Shared' /\ SerialStreams'
    BY <1>0, <1>1, <1>5 DEF Streams, HubPart, Shared, SerialStreams, hubOnly
  <2>3. UNCHANGED contractVars
    BY <1>1, <1>5 DEF contractVars, member
  <2> QED
    BY <1>0, <2>1, <2>2, <2>3 DEF Streams
<1>6. CASE payload # <<>> /\ S!inject(Tail(payload))
  <2> DEFINE f == Tail(payload)
  <2>1. f \in Frame
    BY <1>3, <1>6 DEF Frame
  <2> HIDE DEF f
  <2>2. published' = Append(published, f)
        /\ queue' = [c \in Client |-> IF handler[c] = "in" THEN Append(queue[c], f) ELSE queue[c]]
    BY <1>6 DEF S!inject, f
  <2>3. /\ published' \in Seq(Frame) /\ Len(published') = Len(published) + 1
        /\ published'[Len(published) + 1] = f
        /\ \A i \in 1 .. Len(published) : published'[i] = published[i]
    BY <1>2, <2>1, <2>2, AppendProperties
  <2>4. queue' \in [Client -> Seq(Frame)]
    BY <1>2, <2>1, <2>2
  <2>5. SerialPart'
    BY <1>1, <1>4, <2>4 DEF Streams, SerialPart, S!OneWriter
  <2>6. HubPart' /\ Shared'
    BY <1>0, <1>1, <2>3 DEF Streams, HubPart, Shared, hubOnly
  <2>7. SerialStreams'
    <3> SUFFICES ASSUME NEW c \in Client
                 PROVE  /\ handler[c] \in {"out", "in", "done"}
                        /\ handler[c] = "out" => got[c] = <<>> /\ queue'[c] = <<>> /\ c \notin gone
                        /\ handler[c] = "in" =>
                             Continues(queue'[c], joined[c] + Len(got[c]), published')
                        /\ handler[c] = "done" => c \in gone
      BY <1>1 DEF SerialStreams
    <3>1. SerialStreams
      BY <1>0 DEF Streams
    <3>2. CASE handler[c] = "in"
      <4> DEFINE q == queue[c]
                 n == joined[c] + Len(got[c])
      <4>1. Continues(q, n, published) /\ q \in Seq(Frame) /\ n \in Nat
        BY <1>2, <3>1, <3>2 DEF SerialStreams, Streams, Shared
      <4>2. queue'[c] = Append(q, f)
        BY <2>2, <3>2
      <4> HIDE DEF q, n
      <4>3. Continues(Append(q, f), n, published')
        <5>1. /\ Len(Append(q, f)) = Len(q) + 1 /\ Append(q, f)[Len(q) + 1] = f
              /\ \A i \in 1 .. Len(q) : Append(q, f)[i] = q[i]
          BY <4>1, <2>1, AppendProperties
        <5>2. n + Len(Append(q, f)) = Len(published')
          BY <4>1, <5>1, <2>3 DEF Continues
        <5>3. ASSUME NEW i \in 1 .. Len(q) + 1 PROVE Append(q, f)[i] = published'[n + i]
          <6>1. CASE i = Len(q) + 1
            BY <4>1, <5>1, <2>3, <6>1 DEF Continues
          <6>2. CASE i \in 1 .. Len(q)
            <7>1. n + i \in 1 .. Len(published)
              BY <4>1, <6>2 DEF Continues
            <7> QED
              BY <4>1, <5>1, <2>3, <6>2, <7>1 DEF Continues
          <6> QED
            BY <4>1, <6>1, <6>2
        <5> QED
          BY <5>1, <5>2, <5>3 DEF Continues
      <4> QED
        BY <3>2, <4>2, <4>3 DEF n
    <3>3. CASE handler[c] # "in"
      BY <2>2, <3>1, <3>3 DEF SerialStreams
    <3> QED
      BY <3>2, <3>3
  <2>8. Contract!Publish
    <3>1. SubSeq(published', 1, Len(published)) = published
      <4>1. SubSeq(published', 1, Len(published)) \in Seq(Frame)
            /\ Len(SubSeq(published', 1, Len(published))) = Len(published)
            /\ \A i \in 1 .. Len(published) :
                 SubSeq(published', 1, Len(published))[i] = published'[i]
        BY <1>2, <2>3, SubSeqProperties
      <4> QED
        BY <1>2, <2>3, <4>1, SeqEqual
    <3>2. UNCHANGED <<member, joined, got>>
      BY <1>1 DEF member
    <3> QED
      BY <2>3, <3>1, <3>2 DEF Contract!Publish
  <2> QED
    BY <1>0, <2>5, <2>6, <2>7, <2>8 DEF Streams
<1> QED
  BY <1>0, <1>5, <1>6, FrameIs

\* A client joins.
LEMMA StreamFramesKeeps ==
    ASSUME Streams, NEW c \in Client, OfSerial(S!StreamFrames(c))
    PROVE  Streams' /\ Contract!Join(c)
<1>1. /\ service = "serial" /\ service' = service
      /\ UNCHANGED <<hubOnly, submitted, published, gone, got, S!serialVars>>
      /\ handler[c] = "out" /\ handler' = [handler EXCEPT ![c] = "in"]
      /\ joined' = [joined EXCEPT ![c] = Len(published)]
  BY DEF OfSerial, S!StreamFrames
<1>2. SerialPart' /\ HubPart'
  BY <1>1 DEF Streams, SerialPart, HubPart, hubOnly, S!serialVars, S!readVars, S!faultVars, S!OneWriter
<1>3. Shared /\ SerialStreams /\ Len(published) \in Nat
  BY <1>1 DEF Streams, Shared
<1>4. Shared'
  BY <1>1, <1>3 DEF Shared
<1>5. c \notin gone /\ got[c] = <<>> /\ queue[c] = <<>>
  BY <1>1, <1>3 DEF SerialStreams
<1>6. SerialStreams'
  <2> SUFFICES ASSUME NEW d \in Client
               PROVE  /\ handler'[d] \in {"out", "in", "done"}
                      /\ handler'[d] = "out" => got[d] = <<>> /\ queue[d] = <<>> /\ d \notin gone
                      /\ handler'[d] = "in" =>
                           Continues(queue[d], joined'[d] + Len(got[d]), published)
                      /\ handler'[d] = "done" => d \in gone
    BY <1>1 DEF SerialStreams, S!serialVars
  <2>1. CASE d = c
    <3>1. handler'[c] = "in" /\ joined'[c] = Len(published)
      BY <1>1, <1>3 DEF Shared
    <3>2. Continues(<<>>, Len(published), published)
      BY <1>3 DEF Continues
    <3>3. Len(published) + Len(<<>>) = Len(published)
      BY <1>3
    <3> QED
      BY <2>1, <1>5, <3>1, <3>2, <3>3
  <2>2. CASE d # c
    <3>1. handler'[d] = handler[d] /\ joined'[d] = joined[d]
      BY <1>1, <1>3, <2>2 DEF Shared
    <3> QED
      BY <1>3, <3>1 DEF SerialStreams
  <2> QED
    BY <2>1, <2>2
<1>7. Contract!Join(c)
  <2>1. member[c] = "out"
    BY <1>1, <1>5 DEF member
  <2>2. member' = [member EXCEPT ![c] = "in"]
    <3> DEFINE view(d) == CASE d \in gone                        -> "gone"
                            [] handler[d] \in {"out", "inserting"} -> "out"
                            [] OTHER                             -> "in"
    <3>1. member = [d \in Client |-> view(d)] /\ member' = [d \in Client |-> view(d)']
      BY DEF member
    <3>2. ASSUME NEW d \in Client PROVE view(d)' = IF d = c THEN "in" ELSE view(d)
      <4>1. handler'[d] = IF d = c THEN "in" ELSE handler[d]
        BY <1>1, <1>3 DEF Shared
      <4> QED
        BY <1>1, <1>5, <4>1
    <3> HIDE DEF view
    <3> QED
      BY <3>1, <3>2
  <2> QED
    BY <1>1, <2>1, <2>2 DEF Contract!Join
<1> QED
  BY <1>1, <1>2, <1>4, <1>6, <1>7 DEF Streams

\* A client is handed a frame, unless it has gone.
LEMMA StreamFramesWriteKeeps ==
    ASSUME Streams, NEW c \in Client, OfSerial(S!StreamFrames_write(c))
    PROVE  Streams' /\ (Contract!Deliver(c) \/ UNCHANGED contractVars)
<1>1. /\ service = "serial" /\ service' = service /\ handler[c] = "in" /\ queue[c] # <<>>
      /\ UNCHANGED <<hubOnly, submitted, published, gone, joined, rest, line, S!readVars, S!faultVars>>
  BY DEF OfSerial, S!StreamFrames_write
<1>2. Shared /\ SerialStreams /\ queue \in [Client -> Seq(Frame)] /\ queue[c] \in Seq(Frame)
      /\ got[c] \in Seq(Frame) /\ joined[c] \in Nat /\ published \in Seq(Frame)
  BY <1>1 DEF Streams, Shared, SerialPart
<1>3. Continues(queue[c], joined[c] + Len(got[c]), published)
  BY <1>1, <1>2 DEF SerialStreams
<1>4. HubPart'
  BY <1>1 DEF Streams, HubPart, hubOnly
<1>5. queue' \in [Client -> Seq(Frame)] => SerialPart'
  BY <1>1 DEF Streams, SerialPart, S!readVars, S!faultVars, S!OneWriter
<1>6. CASE c \in gone
  <2>1. handler' = [handler EXCEPT ![c] = "done"] /\ queue' = [queue EXCEPT ![c] = <<>>]
        /\ UNCHANGED got
    BY <1>6 DEF OfSerial, S!StreamFrames_write
  <2>2. queue' \in [Client -> Seq(Frame)]
    BY <1>2, <2>1
  <2>3. Shared'
    BY <1>1, <1>2, <2>1 DEF Shared
  <2>4. SerialStreams'
    <3> SUFFICES ASSUME NEW d \in Client
                 PROVE  /\ handler'[d] \in {"out", "in", "done"}
                        /\ handler'[d] = "out" => got[d] = <<>> /\ queue'[d] = <<>> /\ d \notin gone
                        /\ handler'[d] = "in" =>
                             Continues(queue'[d], joined[d] + Len(got[d]), published)
                        /\ handler'[d] = "done" => d \in gone
      BY <1>1, <2>1 DEF SerialStreams
    <3>1. CASE d = c
      BY <1>2, <1>6, <2>1, <3>1 DEF Shared
    <3>2. CASE d # c
      <4>1. queue'[d] = queue[d] /\ handler'[d] = handler[d]
        BY <1>2, <2>1, <3>2 DEF Shared
      <4> QED
        BY <1>2, <4>1 DEF SerialStreams
    <3> QED
      BY <3>1, <3>2
  <2>5. UNCHANGED contractVars
    BY <1>1, <1>2, <1>6, <2>1 DEF contractVars, member, Shared
  <2> QED
    BY <1>1, <1>4, <1>5, <2>2, <2>3, <2>4, <2>5 DEF Streams
<1>7. CASE c \notin gone
  <2> DEFINE q == queue[c]
             g == got[c]
             n == joined[c] + Len(g)
  <2>1. got' = [got EXCEPT ![c] = Append(g, Head(q))] /\ queue' = [queue EXCEPT ![c] = Tail(q)]
        /\ UNCHANGED handler
    BY <1>7 DEF OfSerial, S!StreamFrames_write
  <2>2. q \in Seq(Frame) /\ q # <<>> /\ g \in Seq(Frame) /\ n \in Nat
        /\ Continues(q, n, published)
    BY <1>1, <1>2, <1>3
  <2> HIDE DEF q
  <2>3. /\ Head(q) = q[1] /\ Head(q) \in Frame /\ Tail(q) \in Seq(Frame)
        /\ Len(q) \in Nat \ {0} /\ Len(Tail(q)) = Len(q) - 1
        /\ \A i \in 1 .. Len(q) - 1 : Tail(q)[i] = q[i + 1]
    BY <2>2, HeadTailProperties, EmptySeq
  <2> DEFINE h == Head(q)
  <2>4. Append(g, h) \in Seq(Frame) /\ Len(Append(g, h)) = Len(g) + 1
    BY <2>2, <2>3, AppendProperties
  <2>5. queue' \in [Client -> Seq(Frame)] /\ got' \in [Client -> Seq(Frame)]
    BY <1>2, <2>1, <2>3, <2>4 DEF Shared
  <2>6. Shared'
    BY <1>1, <1>2, <2>1, <2>5 DEF Shared
  <2>7. n + 1 \in 1 .. Len(published) /\ h = published[n + 1]
    BY <2>2, <2>3 DEF Continues
  <2>8. Continues(Tail(q), n + 1, published)
    <3>1. n + 1 + Len(Tail(q)) = Len(published)
      BY <2>2, <2>3 DEF Continues
    <3>2. ASSUME NEW i \in 1 .. Len(Tail(q)) PROVE Tail(q)[i] = published[n + 1 + i]
      <4>1. Tail(q)[i] = q[i + 1] /\ i + 1 \in 1 .. Len(q) /\ n + (i + 1) = n + 1 + i
        BY <2>2, <2>3
      <4>2. q[i + 1] = published[n + (i + 1)]
        BY <2>2, <4>1 DEF Continues
      <4> QED
        BY <4>1, <4>2
    <3> QED
      BY <3>1, <3>2 DEF Continues
  <2>9. SerialStreams'
    <3> SUFFICES ASSUME NEW d \in Client
                 PROVE  /\ handler[d] \in {"out", "in", "done"}
                        /\ handler[d] = "out" => got'[d] = <<>> /\ queue'[d] = <<>> /\ d \notin gone
                        /\ handler[d] = "in" =>
                             Continues(queue'[d], joined[d] + Len(got'[d]), published)
                        /\ handler[d] = "done" => d \in gone
      BY <1>1, <2>1 DEF SerialStreams
    <3>1. CASE d = c
      <4>1. queue'[c] = Tail(q) /\ got'[c] = Append(g, h)
        BY <1>2, <2>1 DEF Shared
      <4>2. joined[c] + Len(got'[c]) = n + 1
        BY <1>2, <2>2, <2>4, <4>1
      <4> QED
        BY <1>1, <2>8, <3>1, <4>1, <4>2
    <3>2. CASE d # c
      <4>1. queue'[d] = queue[d] /\ got'[d] = got[d]
        BY <1>2, <2>1, <3>2 DEF Shared
      <4> QED
        BY <1>2, <4>1 DEF SerialStreams
    <3> QED
      BY <3>1, <3>2
  <2>10. Contract!Deliver(c)
    <3>1. member[c] = "in" /\ UNCHANGED <<published, member, joined>>
      BY <1>1, <1>7, <2>1 DEF member
    <3>2. n < Len(published)
      BY <2>2, <2>7
    <3>3. got' = [got EXCEPT ![c] = Append(@, published[n + 1])]
      BY <2>1, <2>7
    <3> QED
      BY <3>1, <3>2, <3>3 DEF Contract!Deliver
  <2> QED
    BY <1>1, <1>4, <1>5, <2>5, <2>6, <2>9, <2>10 DEF Streams
<1> QED
  BY <1>6, <1>7

\* A client goes.
LEMMA SerialCancelsKeeps ==
    ASSUME Streams, NEW c \in Client, OfSerial(S!client_cancels(c))
    PROVE  Streams' /\ Contract!Leave({c})
<1>1. /\ service = "serial" /\ service' = service
      /\ UNCHANGED <<hubOnly, submitted, published, handler, joined, got, S!serialVars>>
      /\ handler[c] = "in" /\ gone' = gone \union {c}
  BY DEF OfSerial, S!client_cancels
<1>2. SerialPart' /\ HubPart' /\ Shared'
  BY <1>1 DEF Streams, SerialPart, HubPart, Shared, hubOnly, S!serialVars, S!readVars, S!faultVars, S!OneWriter
<1>3. SerialStreams'
  BY <1>1 DEF Streams, SerialStreams, S!serialVars
<1>4. member' = [d \in Client |-> IF d \in {c} THEN "gone" ELSE member[d]]
  BY <1>1 DEF member
<1> QED
  BY <1>1, <1>2, <1>3, <1>4 DEF Streams, Contract!Leave

\* Every step of the serial service is one of the contract, or none.
LEMMA SerialStep ==
    ASSUME Streams, OfSerial(S!Next)
    PROVE  Streams' /\ (Contract!Next \/ UNCHANGED contractVars)
<1>1. ASSUME NEW s \in Sender, OfSerial(S!Send(s)) \/ OfSerial(S!Send_write(s))
                                 \/ OfSerial(S!Send_throws(s))
      PROVE  Streams' /\ UNCHANGED contractVars
  BY <1>1, SendKeeps, SendWriteKeeps, SendThrowsKeeps
<1>2. ASSUME OfSerial(S!read \/ S!read_fails \/ S!read_eof)
      PROVE  Streams' /\ UNCHANGED contractVars
  BY <1>2, ReadKeeps
<1>3. ASSUME OfSerial(S!frame)
      PROVE  Streams' /\ (Contract!Next \/ UNCHANGED contractVars)
  BY <1>3, FrameKeeps DEF Contract!Next
<1>4. ASSUME NEW c \in Client, OfSerial(S!StreamFrames(c)) \/ OfSerial(S!StreamFrames_write(c))
      PROVE  Streams' /\ (Contract!Next \/ UNCHANGED contractVars)
  BY <1>4, StreamFramesKeeps, StreamFramesWriteKeeps DEF Contract!Next
<1>5. ASSUME NEW c \in Client, OfSerial(S!client_cancels(c))
      PROVE  Streams' /\ Contract!Next
  <2>1. {c} \in SUBSET Client
    OBVIOUS
  <2> QED
    BY <1>5, <2>1, SerialCancelsKeeps DEF Contract!Next
<1> QED
  BY <1>1, <1>2, <1>3, <1>4, <1>5 DEF OfSerial, S!Next, S!Progress

------------------------------------------------------------------------------
(* The hub.                                                                *)

\* What a client that is on the hub's list has been handed.
HubClient(c) ==
    /\ c \in clients <=> handler[c] \in {"in", "erasing"}
    /\ handler[c] \in {"out", "inserting"} => got[c] = <<>> /\ c \notin gone
    /\ handler[c] \in {"erasing", "done"} => c \in gone
    /\ handler[c] = "inserting" => ~sending
    /\ handler[c] = "in" /\ c \notin gone =>
         joined[c] + Len(got[c]) + (IF c \in todo THEN 1 ELSE 0) = Len(published)

\* A step that leaves what the hub shares with nobody else.
LEMMA HubQuiet ==
    ASSUME Streams, service = "hub", UNCHANGED <<service, serialOnly>>
    PROVE  SerialPart' /\ Shared /\ HubPart /\ HubStreams /\ service' = "hub"
           /\ published \in Seq(Frame) /\ Len(published) \in Nat
           /\ \A c \in Client : HubClient(c) /\ Len(got[c]) \in Nat /\ joined[c] \in Nat
BY DEF Streams, SerialPart, Shared, HubStreams, HubClient, serialOnly, S!OneWriter

\* A client's entry is put on the list.
LEMMA HubJoins ==
    ASSUME Streams, NEW c \in Client, OfHub(H!StreamFrames(c) \/ H!StreamFrames_inserted(c))
    PROVE  Streams' /\ (Contract!Join(c) \/ UNCHANGED contractVars)
<1>0. service = "hub" /\ UNCHANGED <<service, serialOnly>>
  BY DEF OfHub
<1>1. SerialPart' /\ Shared /\ HubPart /\ HubStreams /\ service' = "hub"
      /\ Len(published) \in Nat /\ \A d \in Client : HubClient(d)
  BY <1>0, HubQuiet
<1>2. CASE H!StreamFrames(c)
  <2>1. /\ handler[c] = "out" /\ ~sending /\ handler' = [handler EXCEPT ![c] = "inserting"]
        /\ UNCHANGED <<published, gone, joined, got, clients, sending, todo>>
    BY <1>2 DEF H!StreamFrames, H!hubVars, H!Free
  <2>2. HubPart' /\ Shared'
    BY <1>0, <1>1, <2>1 DEF HubPart, Shared
  <2>3. ASSUME NEW d \in Client PROVE HubClient(d)'
    <3>1. handler'[d] = IF d = c THEN "inserting" ELSE handler[d]
      BY <1>1, <2>1 DEF Shared
    <3>2. HubClient(d)
      BY <1>1
    <3> QED
      BY <2>1, <3>1, <3>2 DEF HubClient
  <2>4. HubStreams'
    BY <1>1, <2>1, <2>3 DEF HubStreams, HubClient
  <2>5. UNCHANGED contractVars
    BY <1>1, <2>1 DEF contractVars, member, Shared
  <2> QED
    BY <1>1, <2>2, <2>4, <2>5 DEF Streams
<1>3. CASE H!StreamFrames_inserted(c)
  <2>1. /\ handler[c] = "inserting" /\ handler' = [handler EXCEPT ![c] = "in"]
        /\ clients' = clients \union {c} /\ joined' = [joined EXCEPT ![c] = Len(published)]
        /\ UNCHANGED <<published, gone, got, sending, todo>>
    BY <1>3 DEF H!StreamFrames_inserted
  <2>2. HubPart' /\ Shared'
    BY <1>0, <1>1, <2>1 DEF HubPart, Shared
  <2>3. got[c] = <<>> /\ c \notin gone /\ c \notin clients /\ c \notin todo
    BY <1>1, <2>1 DEF HubClient, HubPart
  <2>4. ASSUME NEW d \in Client PROVE HubClient(d)'
    <3>1. /\ handler'[d] = IF d = c THEN "in" ELSE handler[d]
          /\ joined'[d] = IF d = c THEN Len(published) ELSE joined[d]
      BY <1>1, <2>1 DEF Shared
    <3>2. HubClient(d)
      BY <1>1
    <3>3. CASE d = c
      <4>1. joined'[c] + Len(got[c]) + 0 = Len(published)
        BY <1>1, <2>3, <3>1, <3>3
      <4> QED
        BY <2>1, <2>3, <3>1, <3>3, <4>1 DEF HubClient
    <3>4. CASE d # c
      BY <2>1, <3>1, <3>2, <3>4 DEF HubClient
    <3> QED
      BY <3>3, <3>4
  <2>5. HubStreams'
    BY <1>1, <2>1, <2>4 DEF HubStreams, HubClient
  <2>6. Contract!Join(c)
    <3>1. member[c] = "out"
      BY <2>1, <2>3 DEF member
    <3>2. member' = [member EXCEPT ![c] = "in"]
      <4> DEFINE view(d) == CASE d \in gone                        -> "gone"
                              [] handler[d] \in {"out", "inserting"} -> "out"
                              [] OTHER                             -> "in"
      <4>1. member = [d \in Client |-> view(d)] /\ member' = [d \in Client |-> view(d)']
        BY DEF member
      <4>2. ASSUME NEW d \in Client PROVE view(d)' = IF d = c THEN "in" ELSE view(d)
        <5>1. handler'[d] = IF d = c THEN "in" ELSE handler[d]
          BY <1>1, <2>1 DEF Shared
        <5> QED
          BY <2>1, <2>3, <5>1
      <4> HIDE DEF view
      <4> QED
        BY <4>1, <4>2
    <3> QED
      BY <2>1, <3>1, <3>2 DEF Contract!Join
  <2> QED
    BY <1>1, <2>2, <2>5, <2>6 DEF Streams
<1> QED
  BY <1>2, <1>3 DEF OfHub

\* A client goes, and its entry is erased.
LEMMA HubLeaves ==
    ASSUME Streams, NEW c \in Client,
           OfHub(H!client_cancels(c) \/ H!StreamFrames_cancelled(c) \/ H!StreamFrames_erased(c)),
           ~H!Torn
    PROVE  Streams' /\ (Contract!Leave({c}) \/ UNCHANGED contractVars)
<1>0. service = "hub" /\ UNCHANGED <<service, serialOnly>>
  BY DEF OfHub
<1>1. SerialPart' /\ Shared /\ HubPart /\ HubStreams /\ service' = "hub"
      /\ Len(published) \in Nat /\ \A d \in Client : HubClient(d)
  BY <1>0, HubQuiet
<1>2. CASE H!client_cancels(c)
  <2>1. /\ handler[c] = "in" /\ c \notin gone /\ gone' = gone \union {c}
        /\ UNCHANGED <<published, handler, joined, got, clients, sending, todo>>
    BY <1>2 DEF H!client_cancels, H!hubVars
  <2>2. HubPart' /\ Shared'
    BY <1>0, <1>1, <2>1 DEF HubPart, Shared
  <2>3. HubStreams'
    BY <1>1, <2>1 DEF HubStreams
  <2>4. Contract!Leave({c})
    <3>1. member' = [d \in Client |-> IF d \in {c} THEN "gone" ELSE member[d]]
      BY <2>1 DEF member
    <3> QED
      BY <2>1, <3>1 DEF Contract!Leave
  <2> QED
    BY <1>1, <2>2, <2>3, <2>4 DEF Streams
<1>3. CASE H!StreamFrames_cancelled(c)
  <2>1. /\ handler[c] = "in" /\ c \in gone /\ handler' = [handler EXCEPT ![c] = "erasing"]
        /\ UNCHANGED <<published, gone, joined, got, clients, sending, todo>>
    BY <1>3 DEF H!StreamFrames_cancelled, H!hubVars
  <2>2. HubPart' /\ Shared'
    BY <1>0, <1>1, <2>1 DEF HubPart, Shared
  <2>3. ASSUME NEW d \in Client PROVE HubClient(d)'
    <3>1. handler'[d] = IF d = c THEN "erasing" ELSE handler[d]
      BY <1>1, <2>1 DEF Shared
    <3>2. HubClient(d)
      BY <1>1
    <3> QED
      BY <2>1, <3>1, <3>2 DEF HubClient
  <2>4. HubStreams'
    BY <1>1, <2>1, <2>3 DEF HubStreams, HubClient
  <2>5. UNCHANGED contractVars
    BY <1>1, <2>1 DEF contractVars, member, Shared
  <2> QED
    BY <1>1, <2>2, <2>4, <2>5 DEF Streams
<1>4. CASE H!StreamFrames_erased(c)
  <2>1. /\ handler[c] = "erasing" /\ handler' = [handler EXCEPT ![c] = "done"]
        /\ clients' = clients \ {c}
        /\ UNCHANGED <<published, gone, joined, got, sending, todo>>
    BY <1>4 DEF H!StreamFrames_erased
  <2>2. ~sending
    BY <2>1 DEF H!Torn
  <2>3. todo = {} /\ c \in gone
    BY <1>1, <2>1, <2>2 DEF HubStreams
  <2>4. HubPart' /\ Shared'
    BY <1>0, <1>1, <2>1, <2>3 DEF HubPart, Shared
  <2>5. ASSUME NEW d \in Client PROVE HubClient(d)'
    <3>1. handler'[d] = IF d = c THEN "done" ELSE handler[d]
      BY <1>1, <2>1 DEF Shared
    <3>2. HubClient(d)
      BY <1>1
    <3> QED
      BY <2>1, <2>3, <3>1, <3>2 DEF HubClient
  <2>6. HubStreams'
    BY <1>1, <2>1, <2>5 DEF HubStreams, HubClient
  <2>7. UNCHANGED contractVars
    BY <1>1, <2>1, <2>3 DEF contractVars, member, Shared
  <2> QED
    BY <1>1, <2>4, <2>6, <2>7 DEF Streams
<1> QED
  BY <1>2, <1>3, <1>4 DEF OfHub

\* A Send begins, and takes the list as it is.
LEMMA HubSendKeeps ==
    ASSUME Streams, OfHub(H!Send)
    PROVE  Streams' /\ Contract!Publish
<1>0. service = "hub" /\ UNCHANGED <<service, serialOnly>>
  BY DEF OfHub
<1>1. SerialPart' /\ Shared /\ HubPart /\ HubStreams /\ service' = "hub"
      /\ published \in Seq(Frame) /\ Len(published) \in Nat
      /\ \A d \in Client : HubClient(d) /\ Len(got[d]) \in Nat /\ joined[d] \in Nat
  BY <1>0, HubQuiet
<1> DEFINE f == Payload[Len(published) + 1]
<1>2. /\ ~sending /\ Len(published) < Len(Payload)
      /\ published' = Append(published, f) /\ sending' = TRUE /\ todo' = clients
      /\ UNCHANGED <<handler, gone, joined, got, clients>>
      /\ \A d \in Client : handler[d] # "inserting"
  BY DEF OfHub, H!Send, H!Free
<1>3. f \in Frame
  <2>1. Len(published) + 1 \in 1 .. Len(Payload)
    BY <1>1, <1>2, Payloads
  <2> QED
    BY <2>1, Payloads
<1> HIDE DEF f
<1>4. /\ published' \in Seq(Frame) /\ Len(published') = Len(published) + 1
      /\ \A i \in 1 .. Len(published) : published'[i] = published[i]
  BY <1>1, <1>2, <1>3, AppendProperties
<1>5. HubPart' /\ Shared'
  BY <1>0, <1>1, <1>2, <1>4 DEF HubPart, Shared
<1>6. ASSUME NEW d \in Client PROVE HubClient(d)'
  <2>1. HubClient(d) /\ d \notin todo /\ Len(got[d]) \in Nat /\ joined[d] \in Nat
    BY <1>1, <1>2 DEF HubStreams
  <2>2. handler[d] = "in" => d \in todo'
    BY <1>2, <2>1 DEF HubClient
  <2>3. handler[d] = "in" /\ d \notin gone => joined[d] + Len(got[d]) = Len(published)
    BY <2>1 DEF HubClient
  <2>4. handler[d] = "in" /\ d \notin gone =>
          joined[d] + Len(got[d]) + (IF d \in todo' THEN 1 ELSE 0) = Len(published')
    BY <1>1, <1>4, <2>1, <2>2, <2>3
  <2> QED
    BY <1>2, <2>1, <2>4 DEF HubClient
<1>7. HubStreams'
  BY <1>1, <1>2, <1>4, <1>6 DEF HubStreams, HubClient
<1>8. Contract!Publish
  <2>1. SubSeq(published', 1, Len(published)) = published
    <3>1. SubSeq(published', 1, Len(published)) \in Seq(Frame)
          /\ Len(SubSeq(published', 1, Len(published))) = Len(published)
          /\ \A i \in 1 .. Len(published) :
               SubSeq(published', 1, Len(published))[i] = published'[i]
      BY <1>1, <1>4, SubSeqProperties
    <3> QED
      BY <1>1, <1>4, <3>1, SeqEqual
  <2>2. UNCHANGED <<member, joined, got>>
    BY <1>2 DEF member
  <2> QED
    BY <1>4, <2>1, <2>2 DEF Contract!Publish
<1> QED
  BY <1>1, <1>5, <1>7, <1>8 DEF Streams

\* It writes to one client after another, and ends.
LEMMA HubWriteKeeps ==
    ASSUME Streams, NEW c, OfHub(H!Send_write(c))
    PROVE  Streams' /\ c \in Client /\ (Contract!Deliver(c) \/ UNCHANGED contractVars)
<1>0. service = "hub" /\ UNCHANGED <<service, serialOnly>>
  BY DEF OfHub
<1>1. SerialPart' /\ Shared /\ HubPart /\ HubStreams /\ service' = "hub"
      /\ published \in Seq(Frame) /\ Len(published) \in Nat
      /\ \A d \in Client : HubClient(d) /\ Len(got[d]) \in Nat /\ joined[d] \in Nat
  BY <1>0, HubQuiet
<1>2. /\ c \in todo /\ todo' = todo \ {c}
      /\ got' = IF c \in gone THEN got
                ELSE [got EXCEPT ![c] = Append(@, published[Len(published)])]
      /\ UNCHANGED <<published, handler, gone, joined, clients, sending>>
  BY DEF OfHub, H!Send_write
<1>3. c \in Client /\ sending /\ Len(published) \in 1 .. Len(published)
  BY <1>1, <1>2 DEF HubPart, HubStreams
<1> DEFINE f == published[Len(published)]
<1>4. f \in Frame
  BY <1>1, <1>3, ElementOfSeq
<1> HIDE DEF f
<1>5. handler[c] \in {"in", "erasing"} /\ HubClient(c) /\ got[c] \in Seq(Frame)
  BY <1>1, <1>2, <1>3 DEF HubClient, HubPart, Shared
<1>6. HubPart'
  BY <1>1, <1>2 DEF HubPart
<1>7. CASE c \in gone
  <2>1. UNCHANGED got
    BY <1>2, <1>7
  <2>2. Shared'
    BY <1>0, <1>1, <1>2, <2>1 DEF Shared
  <2>3. HubStreams'
    BY <1>1, <1>2, <1>7, <2>1 DEF HubStreams
  <2>4. UNCHANGED contractVars
    BY <1>2, <2>1 DEF contractVars, member
  <2> QED
    BY <1>1, <1>3, <1>6, <2>2, <2>3, <2>4 DEF Streams
<1>8. CASE c \notin gone
  <2>1. got' = [got EXCEPT ![c] = Append(got[c], f)] /\ handler[c] = "in"
    BY <1>2, <1>5, <1>8 DEF f, HubClient
  <2>2. Append(got[c], f) \in Seq(Frame) /\ Len(Append(got[c], f)) = Len(got[c]) + 1
    BY <1>4, <1>5, AppendProperties
  <2>3. Shared'
    BY <1>0, <1>1, <1>2, <2>1, <2>2 DEF Shared
  <2>4. joined[c] + Len(got[c]) + 1 = Len(published)
    BY <1>2, <1>5, <1>8, <2>1 DEF HubClient
  <2>5. ASSUME NEW d \in Client PROVE HubClient(d)'
    <3>1. HubClient(d)
      BY <1>1
    <3>2. CASE d = c
      <4>1. got'[c] = Append(got[c], f) /\ c \notin todo'
        BY <1>1, <1>2, <1>3, <2>1 DEF Shared
      <4>2. joined[c] + Len(got'[c]) + 0 = Len(published)
        BY <1>1, <1>3, <2>2, <2>4, <4>1
      <4> QED
        BY <1>2, <1>5, <2>1, <3>1, <3>2, <4>1, <4>2 DEF HubClient
    <3>3. CASE d # c
      <4>1. got'[d] = got[d] /\ (d \in todo' <=> d \in todo)
        BY <1>1, <1>2, <1>3, <2>1, <3>3 DEF Shared
      <4> QED
        BY <1>2, <3>1, <4>1 DEF HubClient
    <3> QED
      BY <3>2, <3>3
  <2>6. HubStreams'
    BY <1>1, <1>2, <2>5 DEF HubStreams, HubClient
  <2>7. Contract!Deliver(c)
    <3>1. member[c] = "in" /\ UNCHANGED <<published, member, joined>>
      BY <1>2, <1>3, <1>8, <2>1 DEF member
    <3>2. joined[c] + Len(got[c]) < Len(published)
      BY <1>1, <1>3, <2>4
    <3>3. got' = [got EXCEPT ![c] = Append(@, published[joined[c] + Len(@) + 1])]
      BY <2>1, <2>4 DEF f
    <3> QED
      BY <3>1, <3>2, <3>3 DEF Contract!Deliver
  <2> QED
    BY <1>1, <1>3, <1>6, <2>3, <2>6, <2>7 DEF Streams
<1> QED
  BY <1>7, <1>8

\* The Send ends.
LEMMA HubEndKeeps ==
    ASSUME Streams, OfHub(H!Send_end)
    PROVE  Streams' /\ UNCHANGED contractVars
<1>0. service = "hub" /\ UNCHANGED <<service, serialOnly>>
  BY DEF OfHub
<1>1. SerialPart' /\ Shared /\ HubPart /\ HubStreams /\ service' = "hub"
  BY <1>0, HubQuiet
<1>2. todo = {} /\ sending' = FALSE
      /\ UNCHANGED <<published, handler, gone, joined, got, clients, todo>>
  BY DEF OfHub, H!Send_end
<1>3. HubPart' /\ Shared'
  BY <1>0, <1>1, <1>2 DEF HubPart, Shared
<1>4. HubStreams'
  BY <1>1, <1>2 DEF HubStreams
<1>5. UNCHANGED contractVars
  BY <1>2 DEF contractVars, member
<1> QED
  BY <1>1, <1>3, <1>4, <1>5 DEF Streams

\* Every step of the hub is one of the contract, or none.
LEMMA HubStep ==
    ASSUME Streams, OfHub(H!Next)
    PROVE  Streams' /\ (Contract!Next \/ UNCHANGED contractVars)
<1>0. ~H!Torn
  BY DEF OfHub, H!Next, H!Progress
<1>1. ASSUME NEW c \in Client,
             OfHub(H!StreamFrames(c)) \/ OfHub(H!StreamFrames_inserted(c)) \/ OfHub(H!Send_write(c))
      PROVE  Streams' /\ (Contract!Next \/ UNCHANGED contractVars)
  BY <1>1, HubJoins, HubWriteKeeps DEF Contract!Next, OfHub
<1>2. ASSUME NEW c \in Client,
             OfHub(H!client_cancels(c)) \/ OfHub(H!StreamFrames_cancelled(c))
                                        \/ OfHub(H!StreamFrames_erased(c))
      PROVE  Streams' /\ (Contract!Next \/ UNCHANGED contractVars)
  <2>1. {c} \in SUBSET Client
    OBVIOUS
  <2> QED
    BY <1>0, <1>2, <2>1, HubLeaves DEF Contract!Next, OfHub
<1>3. ASSUME OfHub(H!Send) \/ OfHub(H!Send_end)
      PROVE  Streams' /\ (Contract!Next \/ UNCHANGED contractVars)
  BY <1>3, HubSendKeeps, HubEndKeeps DEF Contract!Next
<1> QED
  BY <1>1, <1>2, <1>3 DEF OfHub, H!Next, H!Progress

------------------------------------------------------------------------------
\* A step that changes nothing.
LEMMA StreamsIdle ==
    ASSUME Streams, UNCHANGED vars
    PROVE  Streams' /\ UNCHANGED contractVars
BY DEF Streams, SerialPart, HubPart, Shared, SerialStreams, HubStreams, S!OneWriter, vars,
       serialOnly, hubOnly, contractVars, member

\* Every step of either program is one of the contract, or none.
LEMMA StreamsKept ==
    ASSUME Streams, [Next]_vars
    PROVE  Streams' /\ (Contract!Next \/ UNCHANGED contractVars)
BY SerialStep, HubStep, StreamsIdle DEF Next

\* What each client has been handed, what its queue holds and what was published
\* fit together, whichever of the two programs it is.
THEOREM StreamsHold == FairSpec => []Streams
<1>1. Init => Streams
  BY StreamsBegin
<1>2. Streams /\ [Next]_vars => Streams'
  BY StreamsKept
<1> QED
  BY <1>1, <1>2, PTL DEF FairSpec

\* Both programs, the hub and the serial service, implement the one contract: each
\* client is handed all frames from the moment it joined, in order, and no others.
THEOREM ContractKept == FairSpec => KeepsContract
<1>1. Init => Contract!Init
  BY StreamsBegin
<1>2. Streams /\ [Next]_vars => [Contract!Next]_(Contract!vars)
  BY StreamsKept DEF contractVars, Contract!vars
<1> QED
  BY <1>1, <1>2, StreamsHold, PTL DEF FairSpec, KeepsContract, Contract!Spec

------------------------------------------------------------------------------
(* The octets on the serial line.                                          *)

\* What the Send that is writing has still to write.
Writer(r) == IF \E s \in Sender : r[s] # <<>> THEN r[CHOOSE s \in Sender : r[s] # <<>>] ELSE <<>>

\* Writer finds the one Send that has octets left.
LEMMA WriterIs ==
    ASSUME NEW r \in [Sender -> Frame]
    PROVE  /\ Writer(r) \in Frame
           /\ (\A s \in Sender : r[s] = <<>>) => Writer(r) = <<>>
           /\ \A s \in Sender : (\A t \in Sender : t # s => r[t] = <<>>) => Writer(r) = r[s]
<1>1. <<>> \in Frame
  BY DEF Frame
<1>2. CASE \E s \in Sender : r[s] # <<>>
  <2> DEFINE c == CHOOSE s \in Sender : r[s] # <<>>
  <2>1. c \in Sender /\ r[c] # <<>> /\ Writer(r) = r[c]
    BY <1>2 DEF Writer
  <2> HIDE DEF c
  <2> QED
    BY <2>1
<1>3. CASE ~\E s \in Sender : r[s] # <<>>
  BY <1>1, <1>3 DEF Writer
<1> QED
  BY <1>2, <1>3

\* What has been written and not yet cut into frames, and with what has still to
\* be written.
Here == buf \o line
Ahead == Here \o Writer(rest)

\* The octets that are not yet written are of the last Send.
WritesLast(own, a, b, n) == a < b => n > 0 /\ \A p \in a + 1 .. b : own[p] = n

\* f names the Send of each frame that was passed on, and those whose octets are
\* still there are later ones.
Named(sub, pub, f, own, b) ==
    /\ f \in [1 .. Len(pub) -> 1 .. Len(sub)]
    /\ \A i \in 1 .. Len(pub) :
          /\ \A j \in 1 .. i - 1 : f[j] < f[i]
          /\ Carried(sub[f[i]], pub[i])
          /\ \A p \in 1 .. b : f[i] < own[p]

Traced(l, own, off, f) ==
    /\ Labelled(l, submitted, Ahead, own, off)
    /\ WritesLast(own, Len(Here), Len(Ahead), Len(submitted))
    /\ state = "READING" /\ Len(Ahead) > 0 => Resumed(l, own, off, 1)
    /\ Named(submitted, published, f, own, Len(Ahead))

Trace == \E l \in Leftover, own \in Seq(Nat), off \in Seq(Nat) : \E f : Traced(l, own, off, f)

\* The types of what is ahead.
LEMMA AheadIs ==
    ASSUME NEW b \in Frame, NEW o \in Frame, NEW r \in [Sender -> Frame]
    PROVE  /\ b \o o \in Frame /\ Len(b \o o) = Len(b) + Len(o)
           /\ (b \o o) \o Writer(r) \in Frame
           /\ Len((b \o o) \o Writer(r)) = Len(b \o o) + Len(Writer(r))
           /\ Len(b) \in Nat /\ Len(o) \in Nat /\ Len(Writer(r)) \in Nat
<1> DEFINE t == Writer(r)
           h == b \o o
<1>1. t \in Seq(S!Octet) /\ b \in Seq(S!Octet) /\ o \in Seq(S!Octet)
  BY WriterIs DEF Frame
<1>2. h \in Seq(S!Octet) /\ Len(h) = Len(b) + Len(o)
  BY <1>1, ConcatProperties
<1> HIDE DEF t, h
<1>3. h \o t \in Seq(S!Octet) /\ Len(h \o t) = Len(h) + Len(t)
  BY <1>1, <1>2, ConcatProperties
<1> QED
  BY <1>1, <1>2, <1>3 DEF Frame, t, h

------------------------------------------------------------------------------
\* At the start there are only the octets that were left over.
LEMMA TraceBegins == Init /\ service = "serial" => Trace
<1> SUFFICES ASSUME Init, service = "serial" PROVE Trace
  OBVIOUS
<1>1. /\ line \in Leftover /\ buf = <<>> /\ rest = [s \in Sender |-> <<>>]
      /\ submitted = <<>> /\ published = <<>> /\ state = "UNKNOWN"
  BY DEF Init, S!Init
<1> DEFINE own == [p \in 1 .. Len(line) |-> 0]
           off == [p \in 1 .. Len(line) |-> p]
           f == [i \in 1 .. 0 |-> 0]
<1>2. line \in Frame /\ line \in Seq(S!Octet) /\ Len(line) \in Nat
  BY <1>1, LeftoverAssumption DEF Frame
<1>3. Writer(rest) = <<>>
  BY <1>1 DEF Writer
<1>4. Here = line /\ Ahead = line
  BY <1>1, <1>2, <1>3, FrontOfConcat DEF Here, Ahead
<1>5. own \in Seq(Nat) /\ off \in Seq(Nat) /\ Len(own) = Len(line) /\ Len(off) = Len(line)
      /\ \A p \in 1 .. Len(line) : own[p] = 0 /\ off[p] = p
  BY <1>2
<1> HIDE DEF own, off
<1>6. \A k : Text(line, submitted, 0) = line
  BY DEF Text
<1>7. Labelled(line, submitted, line, own, off)
  <2>1. Len(submitted) = 0
    BY <1>1
  <2>2. ASSUME NEW p \in 1 .. Len(line) - 1 PROVE Follows(line, submitted, own, off, p)
    <3>1. p \in 1 .. Len(line) /\ p + 1 \in 1 .. Len(line)
      BY <1>2
    <3> QED
      BY <1>5, <3>1 DEF Follows
  <2>3. Len(line) > 0 => Ended(line, submitted, own[Len(line)], off[Len(line)])
    BY <1>2, <1>5, <1>6 DEF Ended
  <2> QED
    BY <1>2, <1>5, <1>6, <2>1, <2>2, <2>3 DEF Labelled
<1>8. WritesLast(own, Len(Here), Len(Ahead), Len(submitted))
  BY <1>2, <1>4 DEF WritesLast
<1>9. Named(submitted, published, f, own, Len(Ahead))
  BY <1>1 DEF Named
<1>10. Traced(line, own, off, f)
  BY <1>1, <1>4, <1>7, <1>8, <1>9 DEF Traced
<1> QED
  BY <1>1, <1>5, <1>10 DEF Trace

\* Octets that are moved on.
LEMMA TraceMoves ==
    ASSUME Trace, UNCHANGED <<submitted, published, state>>, Ahead' = Ahead,
           Len(Here) \in Nat, Len(Here') \in Nat, Len(Ahead) \in Nat, Len(Here') >= Len(Here)
    PROVE  Trace'
<1>1. PICK l \in Leftover, own \in Seq(Nat), off \in Seq(Nat) : \E f : Traced(l, own, off, f)
  BY DEF Trace
<1>2. PICK f : Traced(l, own, off, f)
  BY <1>1
<1>3. WritesLast(own, Len(Here'), Len(Ahead), Len(submitted))
  BY <1>2 DEF Traced, WritesLast
<1>4. Traced(l, own, off, f)'
  BY <1>2, <1>3 DEF Traced
<1> QED
  BY <1>4 DEF Trace

\* Octets that the reader has done with.
LEMMA Dropped ==
    ASSUME NEW l \in Leftover, NEW own \in Seq(Nat), NEW off \in Seq(Nat), NEW f,
           Traced(l, own, off, f), Ahead \in Frame, submitted \in Seq(Sent),
           NEW n \in 0 .. Len(Ahead), n <= Len(Here), Len(Here) \in Nat,
           Ahead' = SubSeq(Ahead, n + 1, Len(Ahead)), Len(Here') = Len(Here) - n,
           state' # "READING" \/ (n > 0 /\ Ahead[n] = S!FEND)
    PROVE  \E own1 \in Seq(Nat), off1 \in Seq(Nat) :
              /\ \A p \in 1 .. Len(Ahead') : own1[p] = own[n + p] /\ n + p \in n + 1 .. Len(Ahead)
              /\ Labelled(l, submitted, Ahead', own1, off1)
              /\ WritesLast(own1, Len(Here'), Len(Ahead'), Len(submitted))
              /\ state' = "READING" /\ Len(Ahead') > 0 => Resumed(l, own1, off1, 1)
              /\ Named(submitted, published, f, own1, Len(Ahead'))
<1> DEFINE w == Ahead
           m == Len(w)
           v == SubSeq(w, n + 1, m)
           own1 == SubSeq(own, n + 1, m)
           off1 == SubSeq(off, n + 1, m)
<1>3. w \in Frame /\ m \in Nat /\ Len(own) = m /\ Len(off) = m
  BY DEF Traced, Labelled, Frame
<1>4. Labelled(l, submitted, w, own, off)
  BY DEF Traced
<1>5. Labelled(l, submitted, v, own1, off1)
  BY <1>3, <1>4, DropLabels
<1>6. Len(v) = m - n
  BY <1>3 DEF Frame
<1>7. own1 \in Seq(Nat) /\ \A p \in 1 .. m - n : own1[p] = own[n + p]
  <2>1. own1 = SubSeq(own, n + 1, Len(own)) /\ n \in 0 .. Len(own)
    BY <1>3
  <2> HIDE DEF own1, m, w
  <2>2. SubSeq(own, n + 1, Len(own)) \in Seq(Nat)
        /\ \A p \in 1 .. Len(own) - n : SubSeq(own, n + 1, Len(own))[p] = own[n + p]
    BY <2>1, DropIs
  <2> QED
    BY <1>3, <2>1, <2>2
<1>8. off1 \in Seq(Nat) /\ \A p \in 1 .. m - n : off1[p] = off[n + p]
  <2>1. off1 = SubSeq(off, n + 1, Len(off)) /\ n \in 0 .. Len(off)
    BY <1>3
  <2> HIDE DEF off1, m, w
  <2>2. SubSeq(off, n + 1, Len(off)) \in Seq(Nat)
        /\ \A p \in 1 .. Len(off) - n : SubSeq(off, n + 1, Len(off))[p] = off[n + p]
    BY <2>1, DropIs
  <2> QED
    BY <1>3, <2>1, <2>2
<1>9. Ahead' = v /\ n \in 0 .. m
  OBVIOUS
<1> HIDE DEF w, m, v, own1, off1
<1>10. WritesLast(own1, Len(Here'), Len(v), Len(submitted))
  <2>1. WritesLast(own, Len(Here), m, Len(submitted))
    BY DEF Traced, m, w
  <2> SUFFICES ASSUME Len(Here) - n < m - n
               PROVE  Len(submitted) > 0 /\ \A p \in (Len(Here) - n) + 1 .. m - n : own1[p] = Len(submitted)
    BY <1>6 DEF WritesLast
  <2>2. Len(Here) < m
    BY <1>3
  <2>3. Len(submitted) > 0 /\ \A p \in Len(Here) + 1 .. m : own[p] = Len(submitted)
    BY <2>1, <2>2 DEF WritesLast
  <2>4. ASSUME NEW p \in (Len(Here) - n) + 1 .. m - n PROVE own1[p] = Len(submitted)
    <3>1. p \in 1 .. m - n /\ n + p \in Len(Here) + 1 .. m
      BY <1>3
    <3> QED
      BY <1>7, <2>3, <3>1
  <2> QED
    BY <2>3, <2>4
<1>11. ASSUME state' = "READING", Len(v) > 0 PROVE Resumed(l, own1, off1, 1)
  <2>1. n \in 1 .. m - 1 /\ w[n] = S!FEND /\ 1 \in 1 .. m - n
    BY <1>3, <1>6, <1>11 DEF w, m
  <2>2. Resumed(l, own, off, n + 1)
    BY <1>3, <1>4, <2>1, AfterFend DEF m
  <2>3. own1[1] = own[n + 1] /\ off1[1] = off[n + 1]
    BY <1>7, <1>8, <2>1
  <2> QED
    BY <2>2, <2>3 DEF Resumed
<1>13. \A p \in 1 .. Len(v) : own1[p] = own[n + p] /\ n + p \in n + 1 .. m
  <2> SUFFICES ASSUME NEW p \in 1 .. Len(v) PROVE own1[p] = own[n + p] /\ n + p \in n + 1 .. m
    OBVIOUS
  <2>1. p \in 1 .. m - n
    BY <1>6
  <2>2. n + p \in n + 1 .. m
    BY <1>3, <1>9, <2>1
  <2> QED
    BY <1>7, <2>1, <2>2
<1>12. Named(submitted, published, f, own1, Len(v))
  <2>1. Named(submitted, published, f, own, m)
    BY DEF Traced, m, w
  <2>2. ASSUME NEW i \in 1 .. Len(published), NEW p \in 1 .. Len(v) PROVE f[i] < own1[p]
    <3>0. own1[p] = own[n + p] /\ n + p \in n + 1 .. m
      BY <1>13
    <3>1. own1[p] = own[n + p] /\ n + p \in 1 .. m
      BY <1>3, <1>9, <3>0
    <3> QED
      BY <2>1, <3>1 DEF Named
  <2> QED
    BY <2>1, <2>2 DEF Named
<1> QED
  BY <1>5, <1>7, <1>8, <1>9, <1>10, <1>11, <1>12, <1>13 DEF m, w

\* The reader drops octets and passes nothing on.
LEMMA TraceDrops ==
    ASSUME Trace, Ahead \in Frame, UNCHANGED <<submitted, published>>, submitted \in Seq(Sent),
           NEW n \in 0 .. Len(Ahead), n <= Len(Here), Len(Here) \in Nat,
           Ahead' = SubSeq(Ahead, n + 1, Len(Ahead)), Len(Here') = Len(Here) - n,
           state' # "READING" \/ (n > 0 /\ Ahead[n] = S!FEND)
    PROVE  Trace'
<1>1. PICK l \in Leftover, own \in Seq(Nat), off \in Seq(Nat) : \E f : Traced(l, own, off, f)
  BY DEF Trace
<1>2. PICK f : Traced(l, own, off, f)
  BY <1>1
<1>3. PICK own1 \in Seq(Nat), off1 \in Seq(Nat) :
      /\ Labelled(l, submitted, Ahead', own1, off1)
      /\ WritesLast(own1, Len(Here'), Len(Ahead'), Len(submitted))
      /\ state' = "READING" /\ Len(Ahead') > 0 => Resumed(l, own1, off1, 1)
      /\ Named(submitted, published, f, own1, Len(Ahead'))
  BY <1>2, Dropped
<1>4. Traced(l, own1, off1, f)'
  BY <1>3 DEF Traced
<1> QED
  BY <1>3, <1>4 DEF Trace

\* It drops a frame that it passes on.
LEMMA TracePublishes ==
    ASSUME Trace, Ahead \in Frame, UNCHANGED submitted, submitted \in Seq(Sent),
           NEW n \in 1 .. Len(Ahead), n <= Len(Here), Len(Here) \in Nat,
           Ahead' = SubSeq(Ahead, n + 1, Len(Ahead)), Len(Here') = Len(Here) - n,
           Ahead[n] = S!FEND, state = "READING",
           \A p \in 1 .. n - 1 : Ahead[p] # S!FEND,
           NEW d \in Frame, Len(d) = n - 1, \A p \in 1 .. n - 1 : d[p] = Ahead[p],
           ~S!Invalid(d), S!kiss_unescape(d) # <<>>, S!kiss_unescape(d)[1] = 0,
           published \in Seq(Frame), Tail(S!kiss_unescape(d)) \in Frame,
           published' = Append(published, Tail(S!kiss_unescape(d)))
    PROVE  Trace'
<1>1. PICK l \in Leftover, own \in Seq(Nat), off \in Seq(Nat) : \E f : Traced(l, own, off, f)
  BY DEF Trace
<1>2. PICK f : Traced(l, own, off, f)
  BY <1>1
<1> DEFINE out == Tail(S!kiss_unescape(d))
           r == Len(published)
<1>3. Len(Ahead) \in Nat /\ n > 0 /\ n \in 0 .. Len(Ahead) /\ Len(Ahead) > 0 /\ 1 \in 1 .. Len(Ahead)
  BY DEF Frame
<1>4. PICK own1 \in Seq(Nat), off1 \in Seq(Nat) :
      /\ \A p \in 1 .. Len(Ahead') : own1[p] = own[n + p] /\ n + p \in n + 1 .. Len(Ahead)
      /\ Labelled(l, submitted, Ahead', own1, off1)
      /\ WritesLast(own1, Len(Here'), Len(Ahead'), Len(submitted))
      /\ state' = "READING" /\ Len(Ahead') > 0 => Resumed(l, own1, off1, 1)
      /\ Named(submitted, published, f, own1, Len(Ahead'))
  BY <1>2, <1>3, Dropped
<1>5. Labelled(l, submitted, Ahead, own, off) /\ Resumed(l, own, off, 1)
      /\ Named(submitted, published, f, own, Len(Ahead))
  BY <1>2, <1>3 DEF Traced
<1>6. /\ own[1] \in 1 .. Len(submitted)
      /\ Carried(submitted[own[1]], out)
      /\ \A p \in n + 1 .. Len(Ahead) : own[p] > own[1]
  BY <1>5, CutFrame
<1> HIDE DEF out
<1>11. PICK f1 : f1 = [i \in 1 .. r + 1 |-> IF i <= r THEN f[i] ELSE own[1]]
  OBVIOUS
<1>7. /\ r \in Nat /\ Len(published') = r + 1 /\ published'[r + 1] = out
      /\ \A i \in 1 .. r : published'[i] = published[i]
  BY AppendProperties DEF out
<1>8. /\ \A i \in 1 .. r : f[i] \in 1 .. Len(submitted) /\ f[i] < own[1]
  BY <1>3, <1>5 DEF Named
<1>9. Named(submitted, published', f1, own1, Len(Ahead'))
  <2> HIDE DEF r
  <2>1. f1 \in [1 .. r + 1 -> 1 .. Len(submitted)]
    <3>1. ASSUME NEW i \in 1 .. r + 1 PROVE (IF i <= r THEN f[i] ELSE own[1]) \in 1 .. Len(submitted)
      <4>1. CASE i <= r
        BY <1>7, <1>8, <4>1
      <4>2. CASE ~(i <= r)
        BY <1>6, <4>2
      <4> QED
        BY <4>1, <4>2
    <3> QED
      BY <1>11, <3>1
  <2>2. (\A i \in 1 .. r : f1[i] = f[i]) /\ f1[r + 1] = own[1]
    BY <1>7, <1>11
  <2>3. ASSUME NEW i \in 1 .. r + 1
        PROVE  /\ \A j \in 1 .. i - 1 : f1[j] < f1[i]
               /\ Carried(submitted[f1[i]], published'[i])
               /\ \A p \in 1 .. Len(Ahead') : f1[i] < own1[p]
    <3>1. CASE i \in 1 .. r
      <4>1. ASSUME NEW j \in 1 .. i - 1 PROVE f1[j] < f1[i]
        <5>1. j \in 1 .. r
          BY <1>7, <3>1
        <5>2. f[j] < f[i]
          BY <1>5, <3>1 DEF Named, r
        <5> QED
          BY <2>2, <3>1, <5>1, <5>2
      <4>2. Carried(submitted[f[i]], published[i]) /\ \A p \in 1 .. Len(Ahead') : f[i] < own1[p]
        BY <1>4, <3>1 DEF Named, r
      <4> QED
        BY <1>7, <2>2, <3>1, <4>1, <4>2
    <3>2. CASE i = r + 1
      <4>1. ASSUME NEW j \in 1 .. i - 1 PROVE f1[j] < f1[i]
        <5>1. j \in 1 .. r
          BY <1>7, <3>2
        <5> QED
          BY <1>8, <2>2, <3>2, <5>1
      <4>2. ASSUME NEW p \in 1 .. Len(Ahead') PROVE own[1] < own1[p]
        <5>1. own1[p] = own[n + p] /\ n + p \in n + 1 .. Len(Ahead)
          BY <1>4
        <5>2. own[n + p] > own[1] /\ own[1] \in Nat /\ own1[p] \in Nat
          <6>1. own[n + p] > own[1]
            BY <1>6, <5>1
          <6>2. Len(own) = Len(Ahead) /\ Len(own1) = Len(Ahead')
            BY <1>4, <1>5 DEF Labelled
          <6>3. n + p \in 1 .. Len(Ahead)
            <7>1. n + p \in n + 1 .. Len(Ahead)
              BY <5>1
            <7>2. n \in Nat
              BY <1>3
            <7> QED
              BY <1>3, <7>1, <7>2
          <6> QED
            BY <1>3, <5>1, <6>1, <6>2, <6>3, ElementOfSeq
        <5> QED
          BY <5>1, <5>2
      <4> QED
        BY <1>6, <1>7, <2>2, <3>2, <4>1, <4>2
    <3> QED
      BY <1>7, <3>1, <3>2
  <2> QED
    BY <1>7, <2>1, <2>3 DEF Named
<1>10. Traced(l, own1, off1, f1)'
  BY <1>4, <1>9 DEF Traced
<1> QED
  BY <1>4, <1>10 DEF Trace

\* The types of what the reader and the senders work on.
LEMMA AheadTyped ==
    ASSUME SerialPart
    PROVE  /\ buf \in Frame /\ line \in Frame /\ rest \in [Sender -> Frame]
           /\ Here \in Frame /\ Len(Here) = Len(buf) + Len(line)
           /\ Writer(rest) \in Frame /\ Ahead \in Frame
           /\ Len(Ahead) = Len(Here) + Len(Writer(rest))
           /\ Len(buf) \in Nat /\ Len(line) \in Nat /\ Len(Here) \in Nat /\ Len(Ahead) \in Nat
           /\ Len(Writer(rest)) \in Nat
           /\ submitted \in Seq(Sent) /\ Len(submitted) \in Nat
<1>1. buf \in Frame /\ line \in Frame /\ rest \in [Sender -> Frame] /\ submitted \in Seq(Sent)
  BY DEF SerialPart
<1>2. Writer(rest) \in Frame
  BY <1>1, WriterIs
<1>3. /\ Here \in Frame /\ Len(Here) = Len(buf) + Len(line) /\ Ahead \in Frame
      /\ Len(Ahead) = Len(Here) + Len(Writer(rest))
      /\ Len(buf) \in Nat /\ Len(line) \in Nat /\ Len(Writer(rest)) \in Nat
  BY <1>1, AheadIs DEF Here, Ahead
<1> QED
  BY <1>1, <1>2, <1>3

\* A Send begins.
LEMMA SendTraced ==
    ASSUME Streams, Trace, NEW s \in Sender, OfSerial(S!Send(s))
    PROVE  Trace'
<1>0. SerialPart
  BY DEF Streams
<1>1. PICK l \in Leftover, own \in Seq(Nat), off \in Seq(Nat) : \E f : Traced(l, own, off, f)
  BY DEF Trace
<1>2. PICK f : Traced(l, own, off, f)
  BY <1>1
<1> DEFINE p == S!upcoming
           x == S!KissFrame(p)
           n == Len(submitted) + 1
           a == Len(Ahead)
           b == Len(x)
<1>3. p \in Range(Payload) /\ p \in Frame /\ x \in Frame /\ x # <<>> /\ b \in Nat \ {0}
  <2>1. n \in 1 .. Len(Payload)
    BY <1>0, AheadTyped, Payloads DEF OfSerial, S!Send
  <2>2. p \in Range(Payload) /\ p \in Frame
    BY <2>1, Payloads DEF S!upcoming
  <2>3. x \in Frame /\ Len(x) = Len(S!kiss_escape(p)) + 3 /\ Len(S!kiss_escape(p)) \in Nat
    BY <2>2, KissShape
  <2>4. x # <<>>
    BY <2>3, EmptySeq
  <2> QED
    BY <2>2, <2>3, <2>4
<1>4. /\ \A t \in Sender : rest[t] = <<>>
      /\ submitted' = Append(submitted, [payload |-> p, whole |-> TRUE])
      /\ rest' = [rest EXCEPT ![s] = x]
      /\ UNCHANGED <<published, line, buf, state>>
  BY DEF OfSerial, S!Send, S!readVars, S!clientVars
<1>5. Writer(rest) = <<>> /\ Writer(rest') = x
  <2>1. rest \in [Sender -> Frame] /\ rest' \in [Sender -> Frame]
    BY <1>0, <1>3, <1>4, AheadTyped
  <2>2. rest'[s] = x /\ \A t \in Sender : t # s => rest'[t] = <<>>
    BY <1>4, <2>1
  <2> QED
    BY <1>4, <2>1, <2>2, WriterIs
<1>6. Here' = Here /\ Ahead = Here /\ Ahead' = Ahead \o x
  <2>1. Here' = Here
    BY <1>4 DEF Here
  <2>2. Here \o <<>> = Here
    BY <1>0, AheadTyped, FrontOfConcat DEF Frame
  <2> QED
    BY <1>5, <2>1, <2>2 DEF Ahead
<1>7. a \in Nat /\ n \in Nat \ {0} /\ Ahead \in Frame /\ submitted \in Seq(Sent) /\ a = Len(Here)
  BY <1>0, <1>6, AheadTyped
<1>9. Labelled(l, submitted, Ahead, own, off)
  BY <1>2 DEF Traced
<1>8. PICK own1 \in Seq(Nat), off1 \in Seq(Nat) :
        /\ Labelled(l, WithSend(submitted, p), Ahead \o x, own1, off1)
        /\ \A q \in 1 .. a : own1[q] = own[q] /\ off1[q] = off[q]
        /\ \A i \in 1 .. b : own1[a + i] = n /\ off1[a + i] = i
  <2> HIDE DEF p, x, n, a, b
  <2>1. PICK w, sub : w = Ahead /\ sub = submitted
    OBVIOUS
  <2>2. p \in Range(Payload) /\ sub \in Seq(Sent) /\ w \in Frame
    BY <1>3, <1>7, <2>1
  <2>3. Labelled(l, sub, w, own, off)
    BY <1>9, <2>1
  <2>4. \E own1, off1 : Appended(l, sub, w, own, off, p, own1, off1)
    BY <2>2, <2>3, AppendLabels
  <2>5. PICK own1, off1 : Appended(l, sub, w, own, off, p, own1, off1)
    BY <2>4
  <2> QED
    BY <2>1, <2>5 DEF Appended, x, n, a, b
<1>10. Labelled(l, submitted', Ahead', own1, off1)
  BY <1>4, <1>6, <1>8 DEF WithSend
<1>12. Len(Ahead') = a + b
  <2>1. Len(Ahead \o x) = Len(Ahead) + Len(x)
    BY <1>3, <1>7, ConcatProperties DEF Frame
  <2> QED
    BY <1>6, <2>1
<1>13. /\ \A q \in 1 .. a : own1[q] = own[q] /\ off1[q] = off[q]
       /\ \A q \in a + 1 .. a + b : own1[q] = n
  <2> HIDE DEF a, b, n
  <2> SUFFICES ASSUME NEW q \in a + 1 .. a + b PROVE own1[q] = n
    BY <1>8
  <2> DEFINE i == q - a
  <2>1. i \in 1 .. b /\ q = a + i
    BY <1>3, <1>7
  <2> HIDE DEF i
  <2> QED
    BY <1>8, <2>1
<1>14. submitted' \in Seq(Sent) /\ Len(submitted') = n /\ \A j \in 1 .. Len(submitted) : submitted'[j] = submitted[j]
  <2>1. [payload |-> p, whole |-> TRUE] \in Sent
    BY <1>3 DEF Sent
  <2> HIDE DEF p
  <2> QED
    BY <1>4, <1>7, <2>1, AppendProperties
<1> HIDE DEF a, b, x, p
<1>15. WritesLast(own1, Len(Here'), Len(Ahead'), Len(submitted'))
  BY <1>6, <1>7, <1>12, <1>13, <1>14 DEF WritesLast
<1>16. ASSUME state' = "READING", Len(Ahead') > 0 PROVE Resumed(l, own1, off1, 1)
  <2>1. CASE a = 0
    <3>1. own1[1] = n /\ off1[1] = 1
      <4>1. 1 \in 1 .. b /\ a + 1 = 1
        BY <1>3, <2>1
      <4> QED
        BY <1>8, <4>1
    <3> QED
      BY <1>7, <3>1 DEF Resumed
  <2>2. CASE a # 0
    <3>1. 1 \in 1 .. a
      BY <1>7, <2>2
    <3>2. Resumed(l, own, off, 1)
      BY <1>2, <1>4, <1>7, <1>16, <2>2 DEF Traced, a
    <3> QED
      BY <1>13, <3>1, <3>2 DEF Resumed
  <2> QED
    BY <2>1, <2>2
<1>17. Named(submitted', published, f, own1, Len(Ahead'))
  <2>1. Named(submitted, published, f, own, a)
    BY <1>2 DEF Traced, a
  <2>2. f \in [1 .. Len(published) -> 1 .. n]
    <3>1. \A i \in 1 .. Len(published) : f[i] \in 1 .. n
      <4>1. \A i \in 1 .. Len(published) : f[i] \in 1 .. Len(submitted)
        BY <2>1 DEF Named
      <4>2. Len(submitted) \in Nat
        BY <1>0, AheadTyped
      <4> QED
        BY <4>1, <4>2
    <3> QED
      BY <2>1, <3>1 DEF Named
  <2>3. ASSUME NEW i \in 1 .. Len(published)
        PROVE  /\ \A j \in 1 .. i - 1 : f[j] < f[i]
               /\ Carried(submitted'[f[i]], published[i])
               /\ \A q \in 1 .. a + b : f[i] < own1[q]
    <3>1. f[i] \in 1 .. Len(submitted) /\ (\A j \in 1 .. i - 1 : f[j] < f[i])
          /\ Carried(submitted[f[i]], published[i]) /\ \A q \in 1 .. a : f[i] < own[q]
      BY <2>1 DEF Named
    <3>2. submitted'[f[i]] = submitted[f[i]]
      BY <1>14, <3>1
    <3>3. ASSUME NEW q \in 1 .. a + b PROVE f[i] < own1[q]
      <4>1. CASE q \in 1 .. a
        BY <1>13, <3>1, <4>1
      <4>2. CASE q \in a + 1 .. a + b
        BY <1>7, <1>13, <3>1, <4>2
      <4> QED
        BY <1>3, <1>7, <4>1, <4>2
    <3> QED
      BY <3>1, <3>2, <3>3
  <2> HIDE DEF n
  <2> QED
    BY <1>12, <1>14, <2>2, <2>3 DEF Named
<1>18. Traced(l, own1, off1, f)'
  BY <1>4, <1>10, <1>15, <1>16, <1>17 DEF Traced
<1> QED
  BY <1>18 DEF Trace

\* A Send writes, and the octets it writes are where they were.
LEMMA SendWriteTraced ==
    ASSUME Streams, Trace, NEW s \in Sender, OfSerial(S!Send_write(s))
    PROVE  Trace'
<1>0. SerialPart
  BY DEF Streams
<1>1. PICK n \in 1 .. Len(rest[s]) :
         /\ line' = line \o SubSeq(rest[s], 1, n)
         /\ rest' = [rest EXCEPT ![s] = SubSeq(@, n + 1, Len(@))]
  BY DEF OfSerial, S!Send_write
<1>2. UNCHANGED <<submitted, published, state, buf>>
  BY DEF OfSerial, S!Send_write, S!readVars, S!clientVars
<1> DEFINE r == rest[s]
           x == SubSeq(r, 1, n)
           y == SubSeq(r, n + 1, Len(r))
<1>3. r \in Seq(S!Octet) /\ Len(r) \in Nat /\ buf \in Seq(S!Octet) /\ line \in Seq(S!Octet)
      /\ rest \in [Sender -> Frame]
  BY <1>0, AheadTyped DEF Frame
<1>4. r # <<>> /\ x \in Seq(S!Octet) /\ y \in Seq(S!Octet) /\ Len(x) = n
  BY <1>3
<1>5. x \o y = r
  <2>1. x \o y = SubSeq(r, 1, Len(r))
    BY <1>3, ConcatAdjacentSubSeq
  <2> QED
    BY <1>3, <2>1, SubSeqFull
<1> HIDE DEF x, y
<1>6. \A t \in Sender : t # s => rest[t] = <<>>
  BY <1>0, <1>4 DEF SerialPart, S!OneWriter
<1>7. Writer(rest) = r
  BY <1>3, <1>6, WriterIs
<1>8. Writer(rest') = y
  <2>1. rest' \in [Sender -> Frame]
    BY <1>1, <1>3, <1>4 DEF Frame, y
  <2>2. rest'[s] = y /\ \A t \in Sender : t # s => rest'[t] = <<>>
    BY <1>1, <1>3, <1>6 DEF y
  <2> QED
    BY <2>1, <2>2, WriterIs
<1> HIDE DEF r
<1>9. Here' = Here \o x /\ Here \in Seq(S!Octet)
  <2>1. Here' = buf \o (line \o x)
    BY <1>1, <1>2 DEF Here, x, r
  <2>2. buf \o (line \o x) = (buf \o line) \o x
    <3>1. buf \in Seq(S!Octet) /\ line \in Seq(S!Octet) /\ x \in Seq(S!Octet)
      BY <1>3, <1>4
    <3>2. \A p, q, t \in Seq(S!Octet) : (p \o q) \o t = p \o (q \o t)
      BY Regroup
    <3>3. (buf \o line) \o x = buf \o (line \o x)
      BY <3>1, <3>2, Zenon
    <3> QED
      BY <3>3
  <2> QED
    BY <1>0, <2>1, <2>2, AheadTyped DEF Here, Frame
<1>10. Ahead' = Ahead
  <2>1. (Here \o x) \o y = Here \o (x \o y)
    BY <1>4, <1>9, Regroup
  <2> QED
    BY <1>5, <1>7, <1>8, <1>9, <2>1 DEF Ahead
<1>11. Len(Here') = Len(Here) + Len(x)
  BY <1>4, <1>9, ConcatProperties
<1>12. Len(Here) \in Nat /\ Len(Ahead) \in Nat /\ Len(Here') \in Nat /\ Len(Here') >= Len(Here)
  BY <1>0, <1>4, <1>11, AheadTyped
<1> QED
  BY <1>2, <1>10, <1>12, TraceMoves

\* A Send that fails leaves what it has written.
LEMMA SendThrowsTraced ==
    ASSUME Streams, Trace, NEW s \in Sender, OfSerial(S!Send_throws(s))
    PROVE  Trace'
<1>0. SerialPart
  BY DEF Streams
<1>1. PICK l \in Leftover, own \in Seq(Nat), off \in Seq(Nat) : \E f : Traced(l, own, off, f)
  BY DEF Trace
<1>2. PICK f : Traced(l, own, off, f)
  BY <1>1
<1>3. /\ rest[s] # <<>>
      /\ submitted' = [submitted EXCEPT ![Len(submitted)].whole = FALSE]
      /\ rest' = [rest EXCEPT ![s] = <<>>]
      /\ UNCHANGED <<published, line, buf, state>>
  BY DEF OfSerial, S!Send_throws, S!readVars, S!clientVars
<1>4. Writer(rest) = rest[s] /\ Writer(rest') = <<>>
  <2>1. rest \in [Sender -> Frame] /\ <<>> \in Frame
    BY <1>0, AheadTyped DEF Frame
  <2>2. \A t \in Sender : t # s => rest[t] = <<>>
    BY <1>0, <1>3 DEF SerialPart, S!OneWriter
  <2>3. rest' \in [Sender -> Frame] /\ \A t \in Sender : rest'[t] = <<>>
    BY <1>3, <2>1, <2>2
  <2> QED
    BY <2>1, <2>2, <2>3, WriterIs
<1> DEFINE m == Len(Here)
           w == Ahead
           n == Len(submitted)
<1>5. w \in Frame /\ m \in Nat /\ Len(w) \in Nat /\ m < Len(w) /\ n \in Nat /\ submitted \in Seq(Sent)
      /\ Here \in Frame
  <2>1. Writer(rest) \in Frame /\ Writer(rest) # <<>>
    BY <1>0, <1>3, <1>4, AheadTyped
  <2>2. Len(Writer(rest)) # 0
    BY <2>1, EmptySeq DEF Frame
  <2> QED
    BY <1>0, <2>2, AheadTyped
<1>6. Here' = Here /\ Ahead' = Here /\ Here = SubSeq(w, 1, m)
  <2>1. Here' = Here
    BY <1>3 DEF Here
  <2>2. Here \in Seq(S!Octet) /\ Writer(rest) \in Seq(S!Octet)
    BY <1>0, AheadTyped DEF Frame
  <2>3. Here \o <<>> = Here
    BY <2>2, FrontOfConcat
  <2>4. Here = SubSeq(Here \o Writer(rest), 1, Len(Here))
    BY <2>2, FrontOfConcat
  <2> QED
    BY <1>4, <2>1, <2>3, <2>4 DEF Ahead
<1>7. Labelled(l, submitted, w, own, off) /\ n > 0 /\ \A p \in m + 1 .. Len(w) : own[p] = n
  BY <1>2, <1>5 DEF Traced, WritesLast
<1>8. PICK own1, off1 : own1 = SubSeq(own, 1, m) /\ off1 = SubSeq(off, 1, m)
  OBVIOUS
<1>9. Labelled(l, submitted', Ahead', own1, off1)
  <2>1. Labelled(l, [submitted EXCEPT ![n].whole = FALSE], SubSeq(w, 1, m), SubSeq(own, 1, m),
                 SubSeq(off, 1, m))
    <3> HIDE DEF m, w
    <3> QED
      BY <1>5, <1>7, CutLabels
  <2> QED
    BY <1>3, <1>6, <1>8, <2>1
<1>10. own1 \in Seq(Nat) /\ off1 \in Seq(Nat)
  BY <1>9 DEF Labelled
<1>11. \A p \in 1 .. m : own1[p] = own[p] /\ off1[p] = off[p]
  <2>1. Len(own) = Len(w) /\ Len(off) = Len(w)
    BY <1>7 DEF Labelled
  <2> HIDE DEF m, w
  <2>2. \A p \in 1 .. m : own1[p] = own[p]
    BY <1>5, <1>8, <2>1
  <2>3. \A p \in 1 .. m : off1[p] = off[p]
    BY <1>5, <1>8, <2>1
  <2> QED
    BY <2>2, <2>3
<1>12. submitted' \in Seq(Sent) /\ Len(submitted') = n
       /\ \A j \in 1 .. n : j # n => submitted'[j] = submitted[j]
  <2> DEFINE x == [submitted[n] EXCEPT !.whole = FALSE]
  <2>1. n \in 1 .. Len(submitted)
    BY <1>5, <1>7
  <2>2. submitted' = [submitted EXCEPT ![n] = x]
    BY <1>3
  <2>3. x \in Sent
    <3>1. submitted[n] \in Sent
      BY <1>5, <2>1, ElementOfSeq
    <3> QED
      BY <3>1 DEF Sent
  <2> HIDE DEF x
  <2>4. Len([submitted EXCEPT ![n] = x]) = n /\ [submitted EXCEPT ![n] = x] \in Seq(Sent)
        /\ \A j \in 1 .. n : [submitted EXCEPT ![n] = x][j] = IF j = n THEN x ELSE submitted[j]
    BY <1>5, <2>1, <2>3, ExceptSeq
  <2> QED
    BY <2>2, <2>4
<1> HIDE DEF m, w, n
<1>13. WritesLast(own1, Len(Here'), Len(Ahead'), Len(submitted'))
  BY <1>5, <1>6 DEF WritesLast, m
<1>14. ASSUME state' = "READING", Len(Ahead') > 0 PROVE Resumed(l, own1, off1, 1)
  <2>1. 1 \in 1 .. m /\ Len(Ahead) > 0
    BY <1>5, <1>6, <1>14 DEF m, w
  <2>2. Resumed(l, own, off, 1)
    BY <1>2, <1>3, <1>14, <2>1 DEF Traced
  <2> QED
    BY <1>11, <2>1, <2>2 DEF Resumed
<1>15. Named(submitted', published, f, own1, Len(Ahead'))
  <2>1. Named(submitted, published, f, own, Len(w))
    BY <1>2 DEF Traced, w
  <2>2. ASSUME NEW i \in 1 .. Len(published)
        PROVE  /\ f[i] \in 1 .. n
               /\ \A j \in 1 .. i - 1 : f[j] < f[i]
               /\ Carried(submitted'[f[i]], published[i])
               /\ \A q \in 1 .. m : f[i] < own1[q]
    <3>1. f[i] \in 1 .. n /\ (\A j \in 1 .. i - 1 : f[j] < f[i])
          /\ Carried(submitted[f[i]], published[i]) /\ \A q \in 1 .. Len(w) : f[i] < own[q]
      BY <2>1 DEF Named, n
    <3>2. f[i] < n
      <4>1. Len(w) \in m + 1 .. Len(w) /\ Len(w) \in 1 .. Len(w)
        BY <1>5
      <4> QED
        BY <1>7, <3>1, <4>1
    <3>3. submitted'[f[i]] = submitted[f[i]]
      BY <1>5, <1>12, <3>1, <3>2
    <3>4. ASSUME NEW q \in 1 .. m PROVE f[i] < own1[q]
      <4>1. q \in 1 .. Len(w)
        BY <1>5
      <4> QED
        BY <1>11, <3>1, <4>1
    <3> QED
      BY <3>1, <3>3, <3>4
  <2>3. f \in [1 .. Len(published) -> 1 .. n]
    BY <2>1 DEF Named, n
  <2> QED
    BY <1>6, <1>12, <2>2, <2>3 DEF Named, m
<1>16. Traced(l, own1, off1, f)'
  BY <1>3, <1>9, <1>13, <1>14, <1>15 DEF Traced
<1> QED
  BY <1>10, <1>16 DEF Trace

\* Octets dropped from buf are dropped from all that lies ahead.
LEMMA BufDropped ==
    ASSUME SerialPart, UNCHANGED <<line, rest>>,
           NEW n \in 0 .. Len(buf), buf' = SubSeq(buf, n + 1, Len(buf))
    PROVE  /\ Ahead' = SubSeq(Ahead, n + 1, Len(Ahead)) /\ Len(Here') = Len(Here) - n
           /\ n \in 0 .. Len(Ahead) /\ n <= Len(Here) /\ Len(Here) \in Nat
           /\ \A p \in 1 .. Len(buf) : Ahead[p] = buf[p]
<1>1. buf \in Frame /\ line \in Frame /\ Writer(rest) \in Frame /\ Here \in Frame
      /\ Len(buf) \in Nat /\ Len(line) \in Nat /\ Len(Here) \in Nat /\ Len(Writer(rest)) \in Nat
      /\ Len(Here) = Len(buf) + Len(line) /\ Len(Ahead) = Len(Here) + Len(Writer(rest))
  BY AheadTyped
<1>2. n \in 0 .. Len(Here)
  BY <1>1
<1>3. Here' = SubSeq(Here, n + 1, Len(Here))
  <2>1. SubSeq(buf \o line, n + 1, Len(buf \o line)) = SubSeq(buf, n + 1, Len(buf)) \o line
    BY <1>1, DropOfConcat DEF Frame
  <2> QED
    BY <2>1 DEF Here
<1>4. Ahead' = SubSeq(Ahead, n + 1, Len(Ahead))
  <2>1. SubSeq(Here \o Writer(rest), n + 1, Len(Here \o Writer(rest)))
          = SubSeq(Here, n + 1, Len(Here)) \o Writer(rest)
    BY <1>1, <1>2, DropOfConcat DEF Frame
  <2>2. Ahead' = Here' \o Writer(rest)
    BY DEF Ahead
  <2> QED
    BY <1>3, <2>1, <2>2 DEF Ahead
<1>5. Len(Here') = Len(Here) - n
  <2>1. Len(SubSeq(Here, n + 1, Len(Here))) = Len(Here) - n
    BY <1>1, <1>2, DropIs DEF Frame
  <2> QED
    BY <1>3, <2>1
<1>6. ASSUME NEW p \in 1 .. Len(buf) PROVE Ahead[p] = buf[p]
  <2>1. \A q \in 1 .. Len(buf) : (buf \o line)[q] = buf[q]
    BY <1>1, ConcatParts DEF Frame
  <2>2. \A q \in 1 .. Len(Here) : (Here \o Writer(rest))[q] = Here[q]
    BY <1>1, ConcatParts DEF Frame
  <2>3. p \in 1 .. Len(Here)
    BY <1>1
  <2> QED
    BY <2>1, <2>2, <2>3 DEF Here, Ahead
<1>7. n \in 0 .. Len(Ahead)
  BY <1>1, <1>2
<1> QED
  BY <1>1, <1>2, <1>4, <1>5, <1>6, <1>7

\* The reader starts anew, without what it had.
LEMMA BufEmptied ==
    ASSUME buf \in Frame, buf' = <<>>
    PROVE  Len(buf) \in 0 .. Len(buf) /\ buf' = SubSeq(buf, Len(buf) + 1, Len(buf))
BY DEF Frame

\* What is on the line comes into buf.
LEMMA ReadTraced ==
    ASSUME Streams, Trace, OfSerial(S!read)
    PROVE  Trace'
<1>0. SerialPart
  BY DEF Streams
<1>1. buf' = buf \o line /\ line' = <<>> /\ UNCHANGED <<submitted, published, state, rest>>
  BY DEF OfSerial, S!read, S!clientVars
<1>2. Here' = Here
  <2>1. buf \o line \in Seq(S!Octet)
    BY <1>0, AheadTyped, FrontOfConcat DEF Frame
  <2>2. (buf \o line) \o <<>> = buf \o line
    BY <2>1, FrontOfConcat
  <2> QED
    BY <1>1, <2>2 DEF Here
<1>3. Ahead' = Ahead
  BY <1>1, <1>2 DEF Ahead
<1>4. Len(Here) \in Nat /\ Len(Ahead) \in Nat
  BY <1>0, AheadTyped
<1> QED
  BY <1>1, <1>2, <1>3, <1>4, TraceMoves

\* A read fails: the thread starts anew, and what it had is gone.
LEMMA ReadFailsTraced ==
    ASSUME Streams, Trace, OfSerial(S!read_fails)
    PROVE  Trace'
<1>0. SerialPart
  BY DEF Streams
<1>1. buf' = <<>> /\ state' = "UNKNOWN" /\ UNCHANGED <<submitted, published, line, rest>>
  BY DEF OfSerial, S!read_fails, S!Restart, S!clientVars
<1>2. PICK n : n = Len(buf)
  OBVIOUS
<1>3. n \in 0 .. Len(buf) /\ buf' = SubSeq(buf, n + 1, Len(buf))
  BY <1>0, <1>1, <1>2, BufEmptied DEF SerialPart
<1>4. /\ Ahead' = SubSeq(Ahead, n + 1, Len(Ahead)) /\ Len(Here') = Len(Here) - n
      /\ n \in 0 .. Len(Ahead) /\ n <= Len(Here) /\ Len(Here) \in Nat
  BY <1>0, <1>1, <1>3, BufDropped
<1>5. Ahead \in Frame /\ submitted \in Seq(Sent) /\ state' # "READING"
  BY <1>0, <1>1, AheadTyped
<1> QED
  BY <1>1, <1>4, <1>5, TraceDrops

\* The thread cuts off what lies before the next FEND, and perhaps passes it on.
LEMMA FrameTraced ==
    ASSUME Streams, Trace, OfSerial(S!frame)
    PROVE  Trace'
<1>0. SerialPart /\ published \in Seq(Frame)
  BY DEF Streams, Shared
<1>1. S!frame
  BY DEF OfSerial
<1>2. S!Ends # {} /\ UNCHANGED <<submitted, line, rest>>
  BY <1>1, FrameIs
<1>3. Ahead \in Frame /\ submitted \in Seq(Sent) /\ buf \in Frame /\ Len(buf) \in Nat
  BY <1>0, AheadTyped
<1>4. CASE /\ state = "READING" /\ S!Invalid(data)
           /\ buf' = <<>> /\ state' = "UNKNOWN" /\ calm' = Len(submitted)
           /\ UNCHANGED <<published, queue>>
  <2>1. PICK n : n = Len(buf)
    OBVIOUS
  <2>2. n \in 0 .. Len(buf) /\ buf' = SubSeq(buf, n + 1, Len(buf))
    BY <1>3, <1>4, <2>1, BufEmptied
  <2>3. /\ Ahead' = SubSeq(Ahead, n + 1, Len(Ahead)) /\ Len(Here') = Len(Here) - n
        /\ n \in 0 .. Len(Ahead) /\ n <= Len(Here) /\ Len(Here) \in Nat
    BY <1>0, <1>2, <2>2, BufDropped
  <2>4. state' # "READING" /\ UNCHANGED <<submitted, published>>
    BY <1>2, <1>4
  <2> QED
    BY <1>3, <2>3, <2>4, TraceDrops
<1>5. CASE /\ ~(state = "READING" /\ S!Invalid(data))
           /\ state' = "READING" /\ buf' = SubSeq(buf, fend + 1, Len(buf))
           /\ UNCHANGED calm
           /\ \/ /\ state = "READING" /\ payload # <<>> /\ payload[1] = 0
                 /\ S!inject(Tail(payload))
              \/ /\ ~(state = "READING" /\ payload # <<>> /\ payload[1] = 0)
                 /\ UNCHANGED <<published, queue>>
  <2>1. PICK n, d : n = fend /\ d = data
    OBVIOUS
  <2>2. /\ n \in 1 .. Len(buf) /\ buf[n] = S!FEND
        /\ \A k \in 1 .. n - 1 : buf[k] # S!FEND
        /\ d \in Frame /\ Len(d) = n - 1
        /\ \A k \in 1 .. n - 1 : d[k] = buf[k]
        /\ payload = S!kiss_unescape(d) /\ payload \in Frame
    BY <1>2, <1>3, <2>1, FirstEnd DEF payload
  <2>3. n \in 0 .. Len(buf) /\ buf' = SubSeq(buf, n + 1, Len(buf))
    BY <1>3, <1>5, <2>1, <2>2
  <2>4. /\ Ahead' = SubSeq(Ahead, n + 1, Len(Ahead)) /\ Len(Here') = Len(Here) - n
        /\ n \in 0 .. Len(Ahead) /\ n <= Len(Here) /\ Len(Here) \in Nat
        /\ \A p \in 1 .. Len(buf) : Ahead[p] = buf[p]
    BY <1>0, <1>2, <2>3, BufDropped
  <2>5. n \in 1 .. Len(Ahead) /\ n > 0 /\ Ahead[n] = S!FEND
    BY <2>2, <2>4
  <2>6. /\ \A p \in 1 .. n - 1 : Ahead[p] # S!FEND
        /\ \A p \in 1 .. n - 1 : d[p] = Ahead[p]
    <3> SUFFICES ASSUME NEW p \in 1 .. n - 1 PROVE Ahead[p] # S!FEND /\ d[p] = Ahead[p]
      OBVIOUS
    <3>1. p \in 1 .. Len(buf)
      BY <1>3, <2>2
    <3> QED
      BY <2>2, <2>4, <3>1
  <2>7. CASE state = "READING" /\ payload # <<>> /\ payload[1] = 0 /\ S!inject(Tail(payload))
    <3>1. published' = Append(published, Tail(S!kiss_unescape(d)))
      BY <2>2, <2>7 DEF S!inject
    <3>2. S!kiss_unescape(d) # <<>> /\ S!kiss_unescape(d)[1] = 0 /\ S!kiss_unescape(d) \in Frame
      BY <2>2, <2>7
    <3>3. Tail(S!kiss_unescape(d)) \in Frame
      BY <3>2 DEF Frame
    <3>4. ~S!Invalid(d)
      BY <1>5, <2>1, <2>7
    <3>5. UNCHANGED submitted /\ state = "READING" /\ d \in Frame /\ Len(d) = n - 1
      BY <1>2, <2>2, <2>7
    <3> QED
      BY <1>0, <1>3, <2>4, <2>5, <2>6, <3>1, <3>2, <3>3, <3>4, <3>5, TracePublishes
  <2>8. CASE UNCHANGED <<published, queue>>
    BY <1>2, <1>3, <2>4, <2>5, <2>8, TraceDrops
  <2> QED
    BY <1>5, <2>7, <2>8
<1> QED
  BY <1>1, <1>4, <1>5, FrameIs

\* A step that touches neither the octets nor what was sent and passed on.
LEMMA TraceIdle ==
    ASSUME Trace, SerialPart, UNCHANGED <<submitted, published, state, buf, line, rest>>
    PROVE  Trace'
<1>1. Here' = Here /\ Ahead' = Ahead
  BY DEF Here, Ahead
<1>2. Len(Here) \in Nat /\ Len(Ahead) \in Nat
  BY AheadTyped
<1> QED
  BY <1>1, <1>2, TraceMoves

\* Every step of the serial service.
LEMMA SerialTraced ==
    ASSUME Streams, Trace, OfSerial(S!Next)
    PROVE  Trace'
<1>0. SerialPart
  BY DEF Streams
<1>1. CASE \E s \in Sender : OfSerial(S!Send(s))
  BY <1>1, SendTraced
<1>2. CASE \E s \in Sender : OfSerial(S!Send_write(s))
  BY <1>2, SendWriteTraced
<1>3. CASE \E s \in Sender : OfSerial(S!Send_throws(s))
  BY <1>3, SendThrowsTraced
<1>4. CASE OfSerial(S!read)
  BY <1>4, ReadTraced
<1>5. CASE OfSerial(S!frame)
  BY <1>5, FrameTraced
<1>6. CASE OfSerial(S!read_fails)
  BY <1>6, ReadFailsTraced
<1>7. CASE OfSerial(S!read_eof)
  <2>1. UNCHANGED <<submitted, published, state, buf, line, rest>>
    BY <1>7 DEF OfSerial, S!read_eof, S!clientVars
  <2> QED
    BY <1>0, <2>1, TraceIdle
<1>8. CASE \E c \in Client : OfSerial(S!StreamFrames(c))
  <2>1. UNCHANGED <<submitted, published, state, buf, line, rest>>
    BY <1>8 DEF OfSerial, S!StreamFrames, S!serialVars, S!readVars
  <2> QED
    BY <1>0, <2>1, TraceIdle
<1>9. CASE \E c \in Client : OfSerial(S!StreamFrames_write(c))
  <2>1. UNCHANGED <<submitted, published, state, buf, line, rest>>
    BY <1>9 DEF OfSerial, S!StreamFrames_write, S!readVars
  <2> QED
    BY <1>0, <2>1, TraceIdle
<1>10. CASE \E c \in Client : OfSerial(S!client_cancels(c))
  <2>1. UNCHANGED <<submitted, published, state, buf, line, rest>>
    BY <1>10 DEF OfSerial, S!client_cancels, S!serialVars, S!readVars
  <2> QED
    BY <1>0, <2>1, TraceIdle
<1> QED
  BY <1>1, <1>2, <1>3, <1>4, <1>5, <1>6, <1>7, <1>8, <1>9, <1>10 DEF OfSerial, S!Next, S!Progress

------------------------------------------------------------------------------
Traces == service = "serial" => Trace

\* The streams go on, and every octet that is still there is known.
THEOREM TracesHold == FairSpec => []Traces
<1>1. Init => Traces
  BY TraceBegins DEF Traces
<1>2. ASSUME Streams, Traces, [Next]_vars PROVE Traces'
  <2>0. SerialPart
    BY <1>2 DEF Streams
  <2>1. CASE OfSerial(S!Next)
    <3>1. service = "serial"
      BY <2>1 DEF OfSerial
    <3> QED
      BY <1>2, <2>1, <3>1, SerialTraced DEF Traces
  <2>2. CASE OfHub(H!Next)
    BY <2>2 DEF OfHub, Traces
  <2>3. CASE UNCHANGED vars
    <3>1. UNCHANGED service
      BY <2>3 DEF vars
    <3>2. UNCHANGED <<submitted, published, state, buf, line, rest>>
      BY <2>3 DEF vars, serialOnly
    <3> QED
      BY <1>2, <2>0, <3>1, <3>2, TraceIdle DEF Traces
  <2> QED
    BY <1>2, <2>1, <2>2, <2>3 DEF Next
<1> QED
  BY <1>1, <1>2, StreamsHold, PTL DEF FairSpec

\* Named is what FramesIntact says.
LEMMA TraceIntact ==
    ASSUME Trace
    PROVE  S!FramesIntact
<1>1. PICK l, own, off : \E f : Traced(l, own, off, f)
  BY DEF Trace
<1>2. PICK f : Named(submitted, published, f, own, Len(Ahead))
  BY <1>1 DEF Traced
<1> QED
  BY <1>2 DEF Named, Carried, S!FramesIntact

\* Whatever a client of the serial service is handed is a whole frame that was sent,
\* however the writes and reads cut the octets and wherever failures fall.
THEOREM FramesComeWhole == FairSpec => []FramesIntact
<1>1. Traces => FramesIntact
  BY TraceIntact DEF Traces, FramesIntact
<1> QED
  BY <1>1, TracesHold, PTL

\* No more frames come off the line than were sent.
LEMMA PublishedFew ==
    ASSUME Shared, SerialPart, S!FramesIntact
    PROVE  Len(published) <= Len(submitted)
<1>1. PICK f \in [1 .. Len(published) -> 1 .. Len(submitted)] :
         \A i \in 1 .. Len(published) : \A j \in 1 .. i - 1 : f[j] < f[i]
  BY DEF S!FramesIntact
<1>2. Len(published) \in Nat /\ Len(submitted) \in Nat
  BY DEF Shared, SerialPart
<1> DEFINE P == {i \in Nat : i \in 1 .. Len(published) => f[i] >= i}
<1>3. 0 \in P
  OBVIOUS
<1>4. ASSUME NEW i \in P PROVE i + 1 \in P
  <2> SUFFICES ASSUME i + 1 \in 1 .. Len(published) PROVE f[i + 1] >= i + 1
    OBVIOUS
  <2>1. f[i + 1] \in 1 .. Len(submitted) /\ i \in Nat
    BY <1>1
  <2>2. CASE i = 0
    BY <1>2, <2>1, <2>2
  <2>3. CASE i # 0
    <3>1. i \in 1 .. Len(published) /\ i \in 1 .. (i + 1) - 1
      BY <1>2, <2>1, <2>3
    <3>2. f[i] < f[i + 1] /\ f[i] \in 1 .. Len(submitted)
      BY <1>1, <3>1
    <3>3. f[i] >= i
      BY <3>1
    <3> QED
      BY <1>2, <2>1, <3>2, <3>3
  <2> QED
    BY <2>2, <2>3
<1> HIDE DEF P
<1>5. P = Nat
  <2>1. P \in SUBSET Nat
    BY DEF P
  <2> QED
    BY <1>3, <1>4, <2>1, Induct
<1>6. CASE Len(published) > 0
  <2>1. Len(published) \in 1 .. Len(published)
    BY <1>2, <1>6
  <2>2. f[Len(published)] >= Len(published)
    BY <1>2, <1>5, <2>1 DEF P
  <2>3. f[Len(published)] \in 1 .. Len(submitted)
    BY <1>1, <2>1
  <2> QED
    BY <1>2, <2>2, <2>3
<1> QED
  BY <1>2, <1>6

\* The serial service has no list of the hub's.
Apart == service = "serial" => clients = {}

\* It stays without.
LEMMA StaysApart == FairSpec => []Apart
<1>1. Init => Apart
  BY DEF Init, H!Init, Apart
<1>2. Apart /\ [Next]_vars => Apart'
  BY DEF Apart, Next, OfSerial, OfHub, vars, hubOnly
<1> QED
  BY <1>1, <1>2, PTL DEF FairSpec

\* The invariants have the types in them.
LEMMA StreamsTyped ==
    ASSUME Streams, FramesIntact, Apart
    PROVE  TypeOK
<1>0. SerialPart /\ HubPart /\ Shared
  BY DEF Streams
<1>1. Len(published) <= Len(Payload)
  <2>1. CASE service = "serial"
    <3>1. Len(published) <= Len(submitted)
      BY <1>0, <2>1, PublishedFew DEF FramesIntact
    <3>2. /\ Len(published) \in Nat /\ Len(submitted) \in Nat /\ Len(Payload) \in Nat
          /\ Len(submitted) <= Len(Payload)
      BY <1>0, Payloads DEF Shared, SerialPart
    <3> QED
      BY <3>1, <3>2
  <2>2. CASE service = "hub"
    BY <2>2 DEF Streams, HubStreams
  <2> QED
    BY <1>0, <2>1, <2>2 DEF Shared
<1>2. joined \in [Client -> 0 .. Len(Payload)]
  <2>1. joined \in [Client -> 0 .. Len(published)] /\ Len(published) \in Nat /\ Len(Payload) \in Nat
    BY <1>0, Payloads DEF Shared
  <2>2. \A n \in 0 .. Len(published) : n \in 0 .. Len(Payload)
    BY <1>1, <2>1
  <2> QED
    BY <2>1, <2>2
<1>3. H!WritersLive
  <2>1. CASE service = "serial"
    BY <2>1 DEF Apart, H!WritersLive
  <2>2. CASE service = "hub"
    BY <1>0, <2>2 DEF Streams, HubPart, HubStreams, H!WritersLive
  <2> QED
    BY <1>0, <2>1, <2>2 DEF Shared
<1> QED
  BY <1>0, <1>2, <1>3 DEF TypeOK, SerialPart, HubPart, Shared, Frame, Sent

\* Every variable of either program has its type; what is published is a sequence of
\* nonempty frames of octets.
THEOREM TypesHold == FairSpec => []TypeOK
BY StreamsTyped, StreamsHold, FramesComeWhole, StaysApart, PTL
==============================================================================
