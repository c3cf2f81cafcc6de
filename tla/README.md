# A verification project for ax25ms

ax25ms runs AX.25, the link layer of amateur packet radio, as a set of gRPC
services: a serial KISS service that talks to the modem, a router that fans
frames out, a *seqpacket* daemon that turns frames into reliable connections,
and a preload library that gives unmodified programs an `AF_AX25` socket on top
of it. This directory holds TLA+ models of that code, the TLC configurations
that check them and proofs about them. Paths are relative to the repository;
`src/src/` is its C++ source directory.

## 1. Inventory

| Component (sources) | State | Operations | Hard part |
|---|---|---|---|
| Connection state machine (`seqpacket_con.{h,cc}`) | `ConnectionData`: V(S), V(A), V(R), modulus, k, n2, rc, T1, T3, flags, `iframe_queue`, `iframe_resend_queue`; the current state object | one handler per received frame (sabm, sabme, ua, ui, dm, disc, rr, iframe), per call (dl_connect, dl_data, dl_disconnect) and per timer, each followed by `dl_data_poll` | arithmetic modulo 8/128, two queues that must stay in step, timers that must run whenever something is awaited, asserts that stop the daemon |
| Seqpacket daemon, one link (`seqpacket.cc`) | `ConnEntry`: connection, mutex, condition variable, `received_`; the entry's key in `connections_` | `Connect2`, `Accept2`, their reader threads, `packet_callback`, `ConnEntry::wait` that triggers timers | three threads per connection, lossy radio, premature T1, re-keying of the entry while frames arrive |
| Connection table (`seqpacket.cc`) | `connections_` | insert, extract and re-insert, erase, find | find without the lock, duplicate keys, early returns that leave entries |
| ConnEntry clock (`seqpacket.cc`, `seqpacket_con.cc`) | timer deadlines, srt, t1v | `wait`, `next_timer`, `trigger_timers`, `select_t1_value` | samples taken from a T1 that is not running, clamps, dead branch |
| Preload library (`preload.cc`) | map of sockets, bounded read queue, pipe tokens, stream | socket, bind, listen, connect, accept, read, write, close | reader thread against application threads, one pipe token per packet |
| Serial KISS service (`serial.cc`) | read buffer, framing state, client queues | read loop, escape/unescape, `Send`, `StreamFrames` | framing over arbitrary chunks, reopening of the port, dead clients |
| Router hub (`router_hub.cc`) | set of client streams / queues | `Send`, `StreamFrames` | clients that leave during a fan-out |
| Timer scheduler (`scheduler.{h,cc}`) | map deadline -> callback, shutdown flag | `add`, `run`, destructor | none: no program constructs one |
| AX.25 codec (`parse.cc`, `serialize.cc`) and FCS (`fcs.cc`) | none | control octet, addresses, FCS, both ways | bit fields, extended sequence numbers |
| APRS, Mic-E, parse service, command-line tools, utilities | none | text decoding, thin clients | - |

How they interact: a frame from the modem goes serial -> router ->
`StreamFrames` -> `SeqPacketImpl::packet_callback` -> the `ConnEntry` found under
its addresses -> one `Connection` handler, under the entry's mutex. What the
handler sends goes out through the `send_` callback (`SeqPacketImpl::send`, a
`Send` RPC to the router), what it delivers goes through `receive_` into
`received_`, where the reader thread of the RPC takes it (`await_data`) and
writes it to the client's gRPC stream. The same reader, inside
`ConnEntry::wait`, is the one that makes timers expire. The other thread of the
RPC reads the stream and calls `dl_data` and, when the stream ends,
`dl_disconnect`; it joins the reader and erases the entry.

What makes each part correct is listed with the properties below and, line by
line, under `hazards` in `PROJECT.json`.

## 2. Modules

| Module | Models | Composes |
|---|---|---|
| `ConnectionState` | every handler of `ConnectionState` and its subclasses, the public members of `Connection`, as operators on one record | - |
| `Connection` | one `Connection` with any caller: frames of every kind and number, application calls, timer expiries | `ConnectionState` |
| `ConnectionLemmas` | lemmas only: numbers modulo m, sequences without a prefix, and what every handler and the poll do to a connection and to the data of one direction | `ConnectionState` |
| `ConnectionProofs` | the theorems about `Connection` | `Connection`, `ConnectionLemmas` |
| `SequenceLoops` | the four loops over sequence numbers, one iteration per step, with the real modulus 8 and k = 7 | `ConnectionState` |
| `T1Value` | how long T1 runs: `select_t1_value`, from one acknowledgement to the next | - |
| `SequenceLoopsProofs` | that the loops compute the closed forms, and what T1's value has to do with the round trip | `SequenceLoops`, `T1Value`, `ConnectionLemmas` |
| `OrderedDelivery` | abstract: a two-way channel that delivers in order, at most once, and may break | - |
| `SeqPacketTable` | `connections_` with several `Connect2` and `Accept2` RPCs and `packet_callback`, and who owns and who still uses each entry | - |
| `SeqPacketTableProofs` | the theorems about `SeqPacketTable` | `SeqPacketTable` |
| `Link` | two daemons, `Connect2` at A and `Accept2` at B, with their reader threads and `packet_callback`, over a radio that loses frames | `ConnectionState`, refines `OrderedDelivery` |
| `LinkProofs` | the theorems about `Link` | `Link`, `ConnectionLemmas` |
| `Preload` | one `AF_AX25` socket: its read thread, the threads that open, read and close it, the pipe that select() sees, the stream from the daemon | refines `OrderedDelivery` |
| `PreloadProofs` | the theorems about `Preload` | `Preload` |
| `RouterService` | abstract: one sequence of frames, each client handed all of it from the moment it joined | - |
| `Serial` | the serial KISS service, two of them at the ends of a line | - |
| `Hub` | the router hub | - |
| `Routers`, `RoutersMC` | the two services against the one contract | `Serial`, `Hub`, refines `RouterService` |
| `KissLemmas` | lemmas only: induction, the KISS coding, an encoded line cut at its FENDs | `Routers` |
| `RoutersProofs` | the theorems about `Routers` | `KissLemmas` |
| `Codec` | `serialize`, `parse`, the FCS and its table, octet by octet | - |
| `Computations` | what the program computes, from chosen inputs: loops, frames, T1's value | `SequenceLoops`, `Codec`, `T1Value` |

### How state and actions correspond to the code

A connection is one record `c`. Its fields carry the names of `ConnectionData`
(`vs va vr modulus n2 rc t1 t3 iframe_queue iframe_resend_queue
layer3_initiated reject_exception acknowledge_pending`); `st` is the class of
the current state object; `out` and `up` are what the current call handed to
`send_` and `receive_`; `aborted` records a failed `assert()`.
`Class_handler(c, ...)` is `Class::handler`, `dispatch_handler` the virtual
call, `con_handler` the member of `Connection`, which clears `out` and `up`,
dispatches, and then does what `maybe_change_state` does: install the state and
poll the transmit queue (`dl_data_poll`). A call is one atomic action because
`ConnEntry::apply` and `ConnEntry::wait` hold the entry's mutex around it.

Loops over sequence numbers appear in closed form (`in_range`, `update_ack`,
`invoke_retransmission`, `sendable`/`transmit`), so that the modules need no
recursion and can be proved about; `SequenceLoops` runs the loops of the source
one iteration at a time and compares the results.

`Connection` adds `spent` (the object was up and went down: every RPC makes a
fresh object, and the key of a SABM finds only the entry of an Accept that still
waits, so it is not used again; `MayComeUp` thereby leaves out the SABM of
section 5 that is applied to an entry found earlier) and `unwound` (an exception of `send_` ended the
application's RPC). `FailingSpec` adds the two calls of the application that the
source unwinds by exception while the link lives on.

`Link` has per end `e`: `con[e]`; `rpc[e]`, where the RPC's thread is (`init`,
`waiting` in `await_state_not`, `open` in its read loop, `closing` in
`join`, `done`); `reader[e]`, whether the reader thread runs; `received[e]`, the
entry's `received_`; `air[e]`, frames on their way to `e`, in order; and the
history variables `submitted[e]`, `log[e]`. `routed` is the map lookup: `Accept2`'s
entry is under `{src, ""}` until the wait for the link is over and under
`{src, dst}` afterwards. `waits(e)` says some thread is inside
`ConnEntry::wait`, the only place where timers expire.

`SeqPacketTable` looks at the daemon from the other side: many RPCs, and of each
connection only what they wait for. `table` is the map, `heap` the `ConnEntry`
objects that exist (the map owns them), `pc[r]` the place of the RPC's thread,
`key[r]` its local variable `dst`, `dst[r]` the address its connection has,
`held` the entry `packet_callback` has found but not yet locked. A section under
`mu_` is one action, and `find` and `apply` are two, because the search takes no
lock and the entry's mutex is taken only afterwards. `Uninformed` is the failed
`Write`, `Throws` an exception of `send` in the RPC's thread, `Terminate` one
where nobody catches it. `Defined` stops the model where the code's behaviour is
undefined: a thread uses an entry that is gone.

In `Preload`, `op` is where connect() or accept() stands, `rt` where
`read_thread_main` stands, `pc[r]` where the read() of application thread `r`
stands, `asleep` the threads that sleep on the one condition variable, `tokens`
the octets in the pipe. A section under `read_queue_mu_` is one action; the write
of a token and its read are actions of their own, because the code does them after it lets
go of the mutex. A thread that sleeps runs again only when a notify wakes it, and
then looks at its predicate again; spurious wake-ups are left out, which makes a
lost wake-up visible. `broken` and `Defined` stop the model where a null or dangling
pointer is used or an exception ends the program.

`Serial` has one variable for what a `write` has still to write (`rest`), one for
what is on the `line`, and the reader's `buf` and `state`. A write writes any part
of the rest; a read returns what is on the line, which is any part of what was sent because
writes are. What the two ends of the line do is one model: the service that
sends and the service that receives run the same program. `Hub` splits
`StreamFrames` where it takes and leaves the mutex; `Torn` is the erase that
meets another use of `clients_`, where the model stops. `published`, `handler`, `gone`, `joined`, `got` are common
to both, and `Contract` maps them to `RouterService`.

`Codec` keeps a packet as a record whose fields are those of the protobuf, and
a frame as a sequence of octets. An exception of `data.at()` or `data.substr()`
is the outcome `throws`. Call signs are sequences of octets with an SSID beside
them instead of text.

## 3. Runs

| Run | Module, config | Question | Result |
|---|---|---|---|
| `connection` | `Connection`, `ConnectionSafety.cfg` | do queues, window, timers, retry counter and asserts survive every order of frames with every sequence number? | holds, 116 thousand states |
| `link_patient` | `Link`, `LinkPatient.cfg` | T1 longer than a round trip: in order, once, no gaps, never set up anew, acknowledged = delivered | holds, 592 thousand states |
| `link_eager` | `Link`, `LinkEager.cfg` | T1 at any moment: no assert fails; in order and at most once | holds, 2.6 million states |
| `link_live` | `Link`, `LinkLive.cfg` | T1 longer than a round trip: what was submitted is delivered, once the radio stops losing frames, or the link goes down; Connect answers; silence is noticed | holds, 17 thousand states |
| `sequence_loops` | `Computations`, `Computations.cfg` | do the loops end and compute the closed forms, modulus 8, k = 7? does parse undo serialize and refuse damage? does T1 stay longer than the round trip it measured? | holds, 182 thousand states |
| `preload` | `Preload`, `Preload.cfg` | does a socket hand out every packet once and in order, does select() tell the truth, do read() and close() return? | holds, 26 thousand states |
| `routers` | `RoutersMC`, `Routers.cfg` | is every client handed all frames from the moment it joined; does the serial reader find its way back after failures? | holds, 166 thousand states |
| `table` | `SeqPacketTable`, `SeqPacketTable.cfg` | do the RPCs leave each other's entries alone, and find their own, on every path? | holds, 912 thousand states |
| `table_clash` | `SeqPacketTable`, `SeqPacketTableClash.cfg` | does an entry live as long as its RPC? | violated (finding) |
| `send_fails` | `Connection`, `ConnectionSendFails.cfg` | does the assert of `update_ack` survive a refused DISC? | violated (finding) |
| `half_open` | `Link`, `LinkHalfOpen.cfg` | does T3 supervise an idle link? | violated (finding) |
| `connect_fails` | `Link`, `LinkConnectFails.cfg` | is a client told "connected" only of a link that is up? | violated (finding) |

The properties, with what they are about, stand in the modules.

### Bounds

* `Modulus = 3`, `ExtModulus = 4`, `K = 2` in the large runs: the smallest
  circle on which the window is k = modulus - 1, as 7 is of 8, so that a full
  window and an empty one differ by one frame and numbers wrap round within a
  few frames. Both moduli occur in one run, because a SABM and a SABME choose
  between them. The real 8 and 7 are checked in run `sequence_loops`, and the theorems
  hold for all of them.
* `DefaultN2 = 1`, `Version2N2` 1 or 2: one retry and more than one; the code's
  3 and 10 only make the same branch later.
* `MaxStore = 3` (one more than the window) lets frames wait in the transmit
  queue behind a closed window.
* `MaxData`: data each application submits; `AirCap`: frames on the air in one
  direction. A frame beyond `AirCap` is lost (`Room`), which the radio may do
  anyway. Two are the window; `link_patient` has three.
* `Rpc`: a Connect and two Accepts, `Remote`: two stations. Two Accepts are needed
  for a second one to wait while the first is served, or to inherit what the
  first left behind; the Connect for two stations that call each other; the
  second station for a SABM that reaches the entry of the first.
* `Preload`: `Cap = 2` for the ten of the code and `MaxPackets = 4`, so that the
  queue fills, drains and fills again; two readers, so that one can take the other's
  wake-up or token.
* `Routers`: two clients, two callers of `Send`, two frames whose octets are the ones
  KISS escapes, four things that may be on the line at the start (nothing, the tail
  of a frame, an invalid escape, a command to the modem), one failure at any point.
* `Computations`: one packet of every type with every combination of flags and the
  sequence numbers at the ends of their fields; every burst of `Bursts` at every
  bit of a frame, and every second bit error beside one of three; frames cut by one to ten octets. `Trips` holds
  a round trip shorter than the clamp, two ordinary ones and one just below T1's
  maximum. A deadline that was misread is not followed further (`misread` of `T1Value`).
* `CHECK_DEADLOCK FALSE` in the runs of `Link`, `SeqPacketTable`, `Computations`, `Preload` and
  `Routers` (when all RPCs are done, a computation has ended, a socket is closed, or all
  frames are delivered, nothing is left to do) and of `Connection` where an
  assertion may stop the daemon.

### Fairness

`FairSpec` of `Link` is weakly fair for the threads of the daemon (`Opened`,
`reader_stops`), for the arrival of a frame that was not lost (`Receive`) and
for timers that stay due while a thread waits on the entry: `wait_for` in
`ConnEntry::wait` returns when the next timer is due. Nothing is assumed of the
application: it need not submit, nor close. The radio may lose frames as it
pleases; `DeliversOrBreaks` therefore has the hypothesis that it loses frames
only finitely often. Without it the property is false, and rightly so: a radio
that always loses exactly the first frame of a retransmitted window, and never
the enquiries, makes the sender retransmit for ever (`TimerRecovery::rr` stops
T1 and starts again with what is left in the store, and the retry counter
counts only expiries). Its other hypothesis is the patience of T1: all of run
`link_live` has `Patient = TRUE`, where T1 expires only when nothing is on the air.
With an earlier T1 `DeliversOrBreaks` is false, and no frame need be lost. A repeats its
SABM before the UA has come; B answers both while `Accept2` is still in its wait;
the second UA finds A connected and puts it back into AwaitingConnection
(`seqpacket_con.cc:601`); `dl_data` is dropped there (`:142`); and the UA to the
SABM of that brings the link up again with nothing stored. If A's reader thread does
not look in between, nothing ends the link, and the datum is never delivered. What
holds for any T1 is `DeliversInOrder` with `MaySkip`, which allows the gap. Liveness is checked for data in one direction, A to B:
the reverse direction triples the state space and adds no code path, since both
ends run the same `Connection`.

`FairSpec` of `Preload` is weakly fair for the read thread, for the destructor, for the
rest of a connect() or accept() that has been answered, and for each read() once
it was called: threads that can run do. The application need not call anything,
and the daemon need not answer, send or end. `ReadReturns` speaks of sockets that have
a read thread (`Deaf` is its absence). `FairSpec` of `Routers` is weakly fair
for the threads of each service as a whole (`Progress`): callers need not call,
and a failure need not happen. A client that has not gone is
assumed to take what is written to it; one that stops reading without leaving
blocks the hub for everybody (`router_hub.cc:88`), and that is left out.

## 4. Proofs

### Connection

`ConnectionProofs` proves, for every `Modulus`, `ExtModulus`, `K`, `DefaultN2`,
`Version2N2`, `Payload` and `MaxStore` that satisfy the assumptions of
`ConnectionState` (0 < k < both moduli, 0 < DefaultN2 <= Version2N2), that
`Spec` of `Connection` implies every invariant of run `connection` and its action
property `StoreLosesOnlyAcked`.

None of these is inductive alone. The argument is one inductive invariant,
`IInv`:

* `Versioned`: a connection in any state but Disconnected has a modulus. UA
  brings a link up without choosing one.
* `Window`: V(S), V(A), V(R) are on the circle, at most k frames outstanding.
* `Stored`: while the link is up the transmit queue is the resend queue without
  its outstanding frames. While a link is being set up the two queues are equal,
  or else the UA will find `layer3_initiated` false and V(S) # V(A) and clear
  both. This is why the assert of `update_ack` holds: k' acknowledged frames are
  at most the outstanding ones, which are all in the store.
* `Timed`: T1 runs whenever the peer is awaited, and T1 and T3 exclude each
  other. The two need each other: `check_iframe_acked` starts T1 without stopping T3,
  which is sound because an acknowledgement that moves V(A) presupposes an
  outstanding frame, hence T1, hence no T3.
* `rc <= n2`, and no assert has failed.
* `Fresh`: an object that was never up holds no frame and has no T1.

Between a handler and the poll the invariant is weaker (`Ready`): a
retransmission has stopped T1 and rewound V(S), and only the poll, which finds
the transmit queue not empty, starts T1 again. `PollGood` closes that gap.
There is one lemma per handler, in `ConnectionLemmas`, and `NextServes` of
`ConnectionProofs` has one step per action.

`FramesMatchStore` and `StoreLosesOnlyAcked` need more than the invariant: what a
call hands out and what it takes from the store. Handlers send no I frame
(`Silent`) and shorten the store only together with V(A) (`AcksOnly`); a handler that
replaces the state of the link says nothing of the store (`Passes`). I frames come
from the poll alone, and `PollTells` says which: the ones that follow the outstanding
frames in the store, under the numbers that follow V(S).

### The loops over sequence numbers

`SequenceLoopsProofs` proves, for every modulus, window, queue and number, that the loops of
`in_range`, `update_ack`, `invoke_retransmission` and `dl_data_poll` end where the
closed forms of `ConnectionState` say (`InRangeIsBetween`, `LoopsMatchClosedForms`). Each has its loop
invariant (`InRangeInv`, `UpdateAckInv`, `RetransmissionInv`, `PollInv`): what the closed form
would give from here on is what it gave from the start. For the poll that is the
frames sent so far, followed by those the window still admits. With these theorems every
other theorem about connections is one about the loops of the source.

### How long T1 runs

`OutlastsRoundTrip`, in the same module, proves `T1OutlastsRoundTrip` of `T1Value` for any round trips: T1 stays
between 200 ms and 10 s and is longer than the last round trip that it outlasted, unless a
deadline was misread (section 5). The invariant adds the clamp of `srt` and that T1 is
what `select_t1_value` makes of it (`Clamped`): a round trip shorter than twice `srt` leaves an
average of more than half of it (`SelectOutlasts`), and a call with no time left cannot shrink T1 (`SelectGrows`).

### Two daemons

`LinkProofs` proves `TypeOK` and `AssertionsHold` of `Link`, for any T1, capacity of the air and
amount of data. Its `IInv` says that both connections satisfy the invariant above and that
the connection of an RPC that has not opened its link is as constructed (`Unopened`): `set_version`,
`dl_connect` and the SABM of a peer then meet the connection they expect. That the daemons
make only calls the connection was proved for is the content of `NextKeeps`.

What the two ends have in common is proved of a T1 that outlasts every round trip, the case of run
`link_patient`: `NeverReset` (theorem `LinksLast`), `AcknowledgedIsDelivered` (`NothingSwallowed`) and
the refinement of `OrderedDelivery` (`OrderedLink`), for any moduli, window, retry limit, capacity
of the air and amount of data. The theorems assume `Calm`: `Patient`, and that no datum is longer than
an I frame may be, for such a datum is answered by a reset of the link. None of the three properties is inductive: a sequence
number is only a remainder, and says nothing unless it is known what it may stand for. The
invariant `PInv` says so. Its parts are

* `Directions`: for each end there is a number `b` of data that it knows were heard. With `n`
  submitted and `l` heard by the peer, `b <= l`, and `l` is at most what the window lets it send. V(A) is
  `b`, V(S) the last number sent and V(R) is `l`, all by the modulus; the resend queue holds `b+1 .. n` (`Holds`); an I frame on
  the air carries a datum within a window of `l` and of the data ahead of it, under its number
  (`DataFit`, `Below`); an N(R) on the air stands for a number from `b` to `l` and for no less than
  those ahead of it (`AcksFit`); the log is 1, 2, ..., `l` (`Heeds`).
  As a window is less than a turn, V(R) picks just the next datum and an N(R) just what was heard.
* `Setup`: who may be calling, and what may be on the air meanwhile. A's SABM is alone
  (`Lone`), as a patient T1 sends the next one only when nothing is under way; hence there is one UA to
  wait for (`Alone`), and none reaches a link that is up (`Tidy`). Without it a second SABM or a stray UA would reset the numbers
  of one end only.
* `Threads` and `Quiet`: nothing is submitted on a link that is not open, and between calls nothing is left to be said.

The step is proved in two layers. `ConnectionLemmas` has the values: what a handler and its poll leave of a sender
(`Served`, `Ended`, `Still`, `Risen`, `Calling`) and how frames said and frames taken change one direction
(`GoingOn`, `GoingOff`, `GoingHeard`). `LinkProofs` has the state: `CallMoves` for both directions after any call, a lemma
`Setup...` per way in which the set-up changes, a lemma `Keeps...` per action, and `PatientNext`, which also says
that each step is a datum more submitted, a datum more heard, or neither (`Onward`); `RefinementStep` reads that
as a step of the abstract link. The radio may lose any frame in all of this.

A T1 that may expire at any moment is the case of run `link_eager`, and of a real radio. Links are then
set up anew under way: V(S), V(A) and V(R) start at 0 again, `dl_data` is dropped without a word
meanwhile, and I frames of the old numbering may still be on the air. `OrderedAnyway` says that
the daemons implement `OrderedDelivery` all the same, with gaps (`MaySkip`), again for any
moduli, window, retry limit, capacity of the air and amount of data; not even `Calm`'s assumption on the
length of the data is needed. `PInv` is no help here, as no number of frames stands for
a sequence number any more. The invariant `EInv` asks less. Of each direction, `Stream` looks
at the last datum heard, the I frames on the air, and the data stored, in this order, and says of every two of them:

* the later one is a later datum, or its number is one of the `K` up to the number of the earlier one
  (`Follows`). As `K < Modulus`, a receiver that has taken the earlier one does not find in the later one
  the number it expects, so a datum sent again is refused;
* if a SABM or UA between them starts the numbers again, or the later one was never sent, it *is* a later
  datum (`Behind`). The numbers of a new link thus begin with data that the old one had not reached.

The second part rests on how the code sets a link up anew: either the UA will clear the store
(`WillClear`: the daemon did not ask for the link itself, and frames are outstanding), or nothing of the store has been sent. `Done` is what a call must do to keep a stream:
move its store forward (`Shifted`), say nothing it has not stored, no older than what was said (`Pours`, `Carries`),
and hear nothing but the datum that V(R) expects (`Listens`). `CallsDone` and `FramesDone` show it of every
call and frame, from one lemma per handler (`...Does`) and one about the poll (`PollDone`); `StreamSent`, `StreamListens` and `StreamTail`
that the stream is kept by a call at its sender, at its receiver, and by a loss. In `LinkProofs`, `AnyNext` has the actions and `ForwardMaps`,
shared with `OrderedLink`, the refinement.

### The connection table

`SeqPacketTableProofs` proves the four invariants of run `table`, for any set of RPCs and stations. Its `IInv`
adds to them `Owned` (an entry in the map belongs to an RPC that has begun and, of a Connect,
lies under its key until it has returned) and `Keyed` (what the local variable `dst` and the
connection's remote address hold at each stage). `OnlyClashDestroys` sharpens the finding of run
`table_clash`: re-keying an Accept onto a taken key is the only way in which an entry dies before
its RPC.

### The preload library

`PreloadProofs` proves, for any finite set of reading threads, any `Cap` above
zero and any `MaxPackets`, that `Spec` of `Preload` implies `TypeOK`, `TokenPerPacket`,
`SelectTellsTruth`, `EofAfterAll` and the refinement `DeliversInOrder`. Its `IInv`
adds to the types and the tokens:

* `Placed`: `taken`, `read_queue_`, the packet in the hands of the read thread and
  the stream hold the numbers 1, 2, ... in this order. Without it the step that
  takes a packet could not be shown to deliver the next one.
* `Counted`: together they are all the daemon sent, unless the socket is being
  closed: only then does the read thread drop the packet it holds.
* `Ending`: the read thread leaves its loop when it is told to stop or the stream is
  over and empty, closes the pipe last of all, and a reader told of the end
  found no packet. `EofAfterAll` follows: with the queue empty and the thread
  gone, what was counted can only have been taken.

`SelectTellsTruth` follows from `TokenPerPacket` when no reader stands between a
packet and its octet. Steps that move no packet share one lemma (`AsideKeeps`);
the others have one each, and `NextHolds` combines them. The abstract state is
reached through `LastTaken`: the last packet taken bears the number of packets
taken. `ConnectHears` has an invariant of its own, `Hearing`: until `set_read_ready` a
socket of connect() has its read thread in the first wait, and a reader that came too early is
recorded, which is the exception `ConnectHears` names.

### The routers

`RoutersProofs` proves `KeepsContract`, `FramesIntact` and `TypeOK` of `Routers`, for any clients, senders, payloads and
number of failures. The contract rests on `Streams`: of the serial service, that a client's
queue continues what it was handed (`Continues`); of the hub, that a client was handed everything
published since it joined but for the one frame of the fan-out under way (`HubStreams`). Every step
is then a step of `RouterService` or leaves it unchanged.

`FramesIntact` is about octets. The invariant `Trace` gives every octet between a `Send` and the reader
a label: the number of its `Send` and its place in that Send's KISS frame (`Labelled`). Neighbours on the line
are neighbours in the frame, or the first is the last that was written of its frame and the second is the
first octet of a later one (`Follows`). What the reader cuts out between two FENDs therefore comes
from one Send: an escaped payload holds no FEND (`EscapeHidesFend`), so only the last FEND of a frame and the first of the
next can enclose octets of two. Unescaping then gives the payload back (`EscapeInverts`). The assumption
`LeftoverAssumption` says that what is on the line at the start is no complete data frame.

These lemmas are inductions over sequences. The library's induction theorems take an operator
as parameter, which the provers cannot instantiate, so `Induct` and `SeqInduct` of `KissLemmas` take the claim as the *set* of
the numbers, or sequences, it is true of; folds are reached through `Goes`, the function of partial results.

### What rests on what

Assumed: nothing beyond the named ASSUMEs, which TLC evaluates in the runs.
Model-checked only:

* all liveness (`DeliversOrBreaks`, `ConnectReturns`, `SilenceIsNoticed`, `LoopsEnd`, `ReadReturns`, `CloseReturns`,
  `Resynchronises`, `FramesArrive`), which is outside the prover's reach;
* what `serialize`, `parse` and the FCS compute (`ParseInvertsSerialize`): `Codec` is written with bitwise operators, about which the provers know
  nothing. That `fcstab` is the table of the polynomial of RFC 1662 is the assumption `TableIsRFC1662` of
  `Codec`, which TLC evaluates for all 256 entries.

## 5. Findings

1. `dl_disconnect` clears the queues before it sends DISC. If the router refuses
   that frame, `send` throws, the state stays Connected with frames outstanding
   and an empty store, and the next acknowledgement fails
   `assert(!d.iframe_resend_queue.empty())` (`seqpacket_con.cc:262`).
2. T3 is documented as idle supervision; no state handles its expiry. After a
   lost DISC the other end stays connected for ever.
3. `Accept2` re-keys its entry without looking whether the new key is taken
   (`seqpacket.cc:399`). Two stations that call each other at the same time are
   enough: the entry is destroyed, and the RPC goes on to use it, although the
   comment at line 378 says that nothing else deletes it.
4. `Connect2` reports success for any state but AwaitingConnection, also for
   Disconnected after n2 unanswered SABMs.

More things the models show, of which no document says what they should be:

* A SABM that `packet_callback` has found an entry for may be applied after that
  entry was re-keyed and its first link went down, which connects it to a station
  other than its key says. If the first link gave up after n2 enquiries
  (`seqpacket_con.cc:863`), which clears no queue, the resend queue still holds the data of the old
  link: it is no longer the window plus the transmit queue, and
  the invariants of `Connection` do not hold of that object. `Spec` of `Connection` leaves this
  out (`MayComeUp`), and so do the theorems about it; `Link` has one link.
* A link whose T1 expires early may lose data without losing a frame (section 3,
  Fairness): the log line "unhandled dl_data" is all that is left of them.
* A second Connect to the same station dereferences a moved-from pointer in the
  text of its exception.
* `accept()` of the preload library calls `set_read_ready()` before it stores the stream
  (`preload.cc:586` and `601`). A read thread that runs in between finds no
  stream and leaves for good. `set_read_ready()` notifies one thread only, and a
  read() called before the socket is open may be the one. A refused `connect()`
  drops the stream under the read thread (`preload.cc:638`).
* `init()` of the preload library never looks up `listen` and `accept`
  (`preload.cc:287-296`); on ordinary sockets both run into
  `assert(orig_listen)` and `assert(orig_accept)`.
* The loop that reopens the serial port has no exit (`serial.cc:205`); the `return`
  after it is never reached.
* The hub erases a client without the mutex (`router_hub.cc:68`).
* `parse` reads one control octet of RR and REJ on modulus 128, where `serialize` writes two.
* `check_iframe_acked` stops T1 also where it is not running, and `Timer::stop` takes the
  distance to the old deadline for the time left. After the deadline T1 grows
  towards ten seconds on a link that only receives. Before it T1 shrinks: ten I
  frames received right after a round trip of 2 s bring it from 6 s below 1 s. A T1 that was never started has the deadline 0 of the
  clock, which after 2^31 ms of uptime overflows the int.

## 6. Not modelled

* Wording, logging, the text form of call signs (`normalize_call`, `trim`).
* `frmr`, which nothing calls; the RNR and SREJ branches, whose flags no
  statement sets; `reflect`; the back-off branch of `select_t1_value`, which T1
  stopped never takes.
* The Timer scheduler, which nothing constructs: its only mention is the member commented out at
  `seqpacket.cc:555`.
* `next_timer`'s choice of the nearer deadline: T1 and T3 never run together
  (`OneTimerAtATime`). `wait()` returns when a timer has changed although its
  predicate is false; `await_state_not` does not look again, but its caller waits for a connection in
  Disconnected or AwaitingConnection, where no handler changes the timer that is
  next without changing the state.
* APRS and Mic-E decoding, the command-line tools and the utilities have no
  state to speak of; a model of the text decoding would repeat it line by line.
* The fates of an application that closes a socket which another of its threads
  is reading, and of Sends while the serial port is being reopened.

## 7. Plan

All components with state are modelled, and of the invariants and refinements the runs check all are proved but
the one of `Codec`. What is left lies outside the provers: liveness, and the bitwise operators of `Codec`.
