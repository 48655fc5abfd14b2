# Verification of game_sockets

game_sockets is a library that puts one interface, `GamePeer`, in front of four
transports (UDP, TCP, QUIC, GameNetworkingSockets), and a benchmark built on it:
a client that sends at game rates, a server that echoes, a recorder of round-trip
times, and the tools that turn its files into statistics and charts.

This directory holds TLA+ models of that system, the TLC configurations that
check them and the theorems proved about them with TLAPS. Paths in this file are
relative to the repository.

## Inventory

| Part | State it keeps | Operations | Meets the others through |
|---|---|---|---|
| `GameStream` (`src/lib.rs:28-60`) | none, a `u16` identifier | `new`, `is_reliable`, `is_ordered` | every message; the results file |
| `GamePeer` (`src/lib.rs:112-186`) | two unbounded channels, the thread handle, `next_stream_id` | `listen`, `connect`, `create_stream`, `close_stream`, `send`, `poll`, `shutdown` | commands to the backend thread, events from it and its tasks |
| TCP backend | map `peers` from uuid to a bounded queue; accept task; per socket a handler with `known_streams` | the six commands; accept, read, write, end of stream | registration channel (16), write queues (100), sockets |
| UDP backend | one socket, map from uuid to address, streams seen | commands, one datagram | datagrams that name the sender's uuid |
| QUIC backend | a map of connections, one of the send streams of reliable `GameStream`s, a list of the others | commands; accept task, datagram and stream readers, a reading loop for every stream | two registration channels, quinn's connections |
| GNS backend | a socket, two maps between uuid and handle, streams seen | commands; polled status reports, then polled messages, in turns | the GNS library, which runs on its own threads |
| Benchmark client, server | the client's two streams, sequence numbers, timers; the server's client list | event loop, send ticks; echo | `GamePeer`, recorder |
| Recorder (`utils/metrics.rs`) | a channel and a writer thread | `record`, flush when dropped | the CSV file |
| Statistics (`bin/stats.rs`) | the saved reports | statistics of a file, aggregation over runs, a sweep over all pairs of scenario and protocol | the CSV files, `aggregated/*.json` |
| Plots, scripts | none | drawing; namespaces and processes | files |

What is hard to get right here: a backend is a single select loop that waits, inside a
command, for tasks that wait for each other; three tasks write to the event queue of
one application; an application learns of a connection before the backend's own map
does; sockets are full, reset or closed at any moment; a library's connections come and go
between two polls of one turn; and the numbers the benchmark reports depend on what was dropped
silently along the way and on files that are torn, empty or of an earlier run. `PROJECT.json` lists these
hazards at their lines, with the properties that cover them.

What makes each part correct:

- identifiers: two open streams are never confused, and what the analysis reads back
  is what was created;
- a backend on a reliable transport: what it accepts arrives once, in order, unless
  the connection ends, and the end is reported once; commands never wait for ever;
- UDP: messages are delivered to the connection they name; connections and streams are
  announced before their messages, connections once, and streams once unless the
  application created them itself;
- GNS: the two maps have the connections the library has, and the order of reports and messages
  in a turn shows the application nothing after the end;
- client and recorder: the run ends, and every record reaches the file;
- statistics: what is counted as lost was sent in the measured interval and lost; a report is of
  the files that are there, adds up, and says of one run what the run's own statistics say.

## Modules

| Module | Models |
|---|---|
| `GameStream` | identifiers and how `bin/stats.rs` reads them |
| `StreamIds` | `create_stream` and `close_stream` over a long session: the counter wraps, the shift drops bits |
| `StreamIdsProofs` | theorems about `StreamIds` |
| `GamePeer` | the library's front end: command and event queues, the calls, the backend thread's life, and what an application may rely on in the order of its events. A backend's module extends it |
| `TcpBackend` | the TCP backend of a server and of clients that dial it, with `GamePeer` in front of each |
| `ReliableLinks` | what a reliable transport promises; `TcpBackend` and `GnsBackend` are checked to implement it per connection, `QuicBackend` per reliable stream |
| `UdpBackend` | the UDP backend of a server and its clients, with `GamePeer` in front of each |
| `QuicBackend` | the QUIC backend of a server and the clients that dial it, with `GamePeer` in front of each |
| `GnsBackend` | the GNS backend of a server and the clients that dial it, the library under it as an environment, `GamePeer` in front of each |
| `Recorder` | the metrics recorder: what the client's thread does to it, the writer thread, the buffered file |
| `Stats` | what `bin/stats.rs` computes from records, as operators |
| `Benchmark` | one run: the client's loop, the server's echo and an abstract transport; extends `Recorder` and `Stats` |
| `Sweep` | files of many runs, and the sweep that turns them into saved reports; extends `Stats` |
| `GameStreamProofs`, `GamePeerProofs` | lemmas on identifiers, and on the front end's types and event order |
| `TcpBackendProofs` | type correctness of `TcpBackend`; nothing is lost, and it implements `ReliableLinks`; a running handler can be found, events come in order, a dialing side's sends are accepted |
| `UdpBackendProofs` | type correctness of `UdpBackend`; who hears of what, in which order and how often |
| `QuicBackendProofs` | type correctness of `QuicBackend`; what is first heard of a connection, what becomes of a dialing side's sends, that a stream is announced once, and that the backends implement `ReliableLinks` |
| `GnsBackendProofs` | type correctness of `GnsBackend`; the maps follow the library, events come in order, and its reliable lanes implement `ReliableLinks` |
| `BenchmarkProofs` | type correctness of `Benchmark` with `Recorder`; rate, duration, the file, and the losses `Stats` counts; the reports of `Sweep` are current and right |
| `MC*` | values for the constants |

The four backends extend `GamePeer`, which uses `GameStream`; `TcpBackend`, `QuicBackend` and
`GnsBackend` have `ReliableLinks` as `Links`, with its variables written in terms of the backend's;
`Benchmark` extends `Recorder`, whose thread takes what its loop records, and `Stats`, which counts it.

### GamePeer

`cmds[p]` is the command channel, `events[p]` the event channel with everything that was
ever sent through it and `polled[p]` how much of it `poll` returned. An application acts only on
what it has polled: it sends on a connection after its `Connected` and on a stream
after its `StreamCreated`. `app` and `thread` follow `shutdown` and its `join`.

The module also states what an application may hope for in the order of its events:
`ConnectedOnceAndFirst`, `MessagesAnnounced` and `NothingAfterEnd`. The last has an exception, since the loops of TCP and
GNS answer calls on connections that are gone: after a `Disconnected` there may be a `StreamClosed`, and the
`StreamCreated` of a stream the application created. Each backend's module says
which of them it keeps: TCP and GNS all three (`EventsInOrder`), UDP the first two and that datagrams announce a stream
once (it has no end of a connection), QUIC only the first, with `AnnouncedOnce` for its streams.

### TcpBackend

A connection is named by the client that dialed it and has two ends. `Connect` is the
backend's `TcpStream::connect`, after which the connection sits in the kernel's
`backlog` until `Accept`. `Accept` sends `Connected` and starts the handler, `Register`
puts the write handle into the registration channel, `RegisterPeer` moves it to the map
(`registered`). A `Send` finds the connection unknown (`SendUnknown`), its handler gone
(`SendClosed`), room in the queue (`SendQueued`) or none (`SendWaits`, and then the loop
does nothing until `SendResumes` or `SendGivesUp`). A handler reads a frame
(`HandlerRead`), takes a packet to write (`HandlerTake`) and while it holds one does nothing but
write (`HandlerWrite`). `sock[e]` is what end `e` has written and the other not read. `Stop` is the drop of
the runtime: it ends the tasks of a process where they are. `Reset` is the network, or
the kernel after a close with data unread.

Abstractions: a frame is one unit of the socket buffer; a payload is the number of the
`Send` it came from; each client dials one connection; an application listens again only
after its listener ended or while the port is taken, which ends the thread or, in a release build, the process (`BindFails`).

### UdpBackend

A uuid is the client that made it and the number of its dial. `connections[p]` and
`known_streams[p]` are the backend's two maps and `net` the set of datagrams in flight.
`Connect` reaches nobody: it makes a uuid, maps it to the server's address and announces
it. `SendDatagram` and `SendDropped` are the two outcomes of a `Send`. `Receive` takes
any datagram for the process's present address, in any order, and leaves it in `net` when the
network has duplicated it; `ProcessPacket` is the backend's function of that name,
with the events in the order the code writes them (`Announcements`, then the message).
A lost datagram is one that is never received. A client that dials a host name instead of
an address has no socket (`ConnectByName`). `Move` gives a client another address, as a
NAT does, `Restart` begins the server's process again with nothing in its maps.
`Received` cuts off what the buffer of 2048 bytes does not hold.

Abstractions: a payload is the number of its `Send` and whether it is whole; no client gets an address
another client had; datagrams shorter than the header are not sent by any `GamePeer`.

### QuicBackend

A connection is named as in `TcpBackend` and has two ends. `conn[e]` is the connection as the process at `e`
sees it: the dialing side has it when `Connect` is through, the other when `Accept` has
awaited the handshake; `lost` is a connection quinn has given up, `closed` one that ended with
its process. `connReg` and `streamReg` are the two registration channels; `connections`, `reliable`
and `unreliable` the backend's maps and its list. The loop waits inside a command in two
places and does nothing else while it does (`Waits`): in `write_all` for the window of a
half (`writing`: `SendWaits`, then `WriteResumes` or `WriteFails`) and in `open_bi` for
the end of another stream (`opening`: `CreateWaits`, then `CreateResumes` or
`OpeningPanics`).

A stream of QUIC is the end that opened it and a number, and `opened` holds the index its
opener wrote first. Each of its two halves has a `pipe` of at most `Window` frames and a
reading loop (`reading`), which `OpenStream` starts at the opener and `AcceptStream` at the
other side. Dropping a `SendStream` finishes its half (`finished`). A stream
counts against `StreamLimit` until one half is finished and the other read to its end
(`Over`), so a close on one side alone makes no room. Datagrams are a set like the UDP
backend's, without repetition.

An `unwrap` of the code is `Panic`: a debug build ends the backend's thread, a release build the process
(`panic = "abort"` in `src/Cargo.toml`). `HandshakeFails` is the one in the accept task,
where a debug build loses only the task and with it the listener.

Abstractions: a frame is one unit of the window; a payload is the number of its `Send`; the index a
stream begins with arrives with the stream; each client dials once and the server
listens once; quinn's `send_datagram` either sends or fails.

### GnsBackend

There are no tasks in this backend. Its thread handles the commands that wait, polls the status
reports there are (`PollReports`), handles them, polls the messages there are then
(`PollMessages`), handles those and begins again; `turn[p]` is where it is and how much of the poll
is left. Between any two of these steps the library may act.

`link[e]` is the library's state of an end, `reports` and `inbox` what it holds for the next polls,
`wire` the reliable messages on their way in order and `loose` the unreliable ones in none. `Arrive`,
`Complete`, `Carry`, `CarryLoose`, `Break` and `Notice` are the library's: they are modelled from how
the code uses it, and marked external where no line of the code corresponds to them. `mapped` stands for both
maps, which change in the same lines. `HandleConnecting`, `HandleConnected` and `HandleEnded` are the
transitions `handle_event` knows; `Registers` and `Forgets` are what they do to the maps. Whether
the library reports an own dial as connecting or first as up is left open.

Abstractions: an end is its uuid and its handle at once; messages shorter than the header are sent by no
`GamePeer`; the initialisation of the library succeeds, since a thread whose initialisation fails ends before it
has read a command.

### Benchmark, Recorder

`Benchmark` has the locals of `run_benchmark` as variables (`connected` for `server_id`,
`start`, `open` for the two stream options, `last` for the two timers, `seq` for
`packet_sequences`, `need_stop`). Each event of the inner loop is an action; `Turn` is
everything after `poll` has returned `None` or the loop was left by `break`: the
duration test, both sends, the `continue` of a missing stream and the test of
`need_stop`. The transport offers what `GamePeer` shows of any of the four: the dial is
answered or refused, streams are created, the connection ends, packets of a lossy stream
are lost, copied, reordered and corrupted. `Tick` passes time between any two steps, so a turn
may be late by any number of intervals. The server's loop keeps nothing its echo depends on.

`Recorder` has the channel (`queue`), the pieces of a line still to be written, the
`BufWriter` (`buffer`) and the file. A line has two pieces because `writeln!` writes
field by field, and a full buffer can go to the file between them. A failing
write panics: a debug build unwinds the thread (`FailUnwinding`) and the client goes on,
a release build aborts the process (`FailAborting`, `panic = "abort"` in
`src/Cargo.toml`). `HandleMessage` is `record` in the loop; `Return` drops the recorder when the
loop is left, and `Join` waits for its thread.

### Stats, Sweep

The operators of `Stats` are the functions of `bin/stats.rs` over a file, a sequence of
records: counts of sent, received and lost, the latencies' minimum, maximum, sum and percentiles of one run, the
statistics of all streams together, and the summaries over runs. A quotient is kept as what is divided. `Benchmark`
applies the counts to what a run records.

The values of a list have names, the places of their records in the file or the runs they are of. `Listed` is the list
of a finite set in an order, which puts at place k the element that k - 1 others come before; `Sorted` lists the names by
the sizes of their values, equal ones by name, so that a sort, stable or not, has one result. The vectors of one value per
run that the code collects are functions on the runs counted, which keeps the run a value is of when some are passed over.

`Sweep` has the results directory: `files` of every run of every pair, and the saved `reports`. Between
sweeps `WriteFile` leaves a file of any kind; a sweep takes the pairs in the program's order (`InOrder`), saves
one report a step (`SavePair`), ends at a file it cannot read (`FailPair`) or is killed,
perhaps in the middle of a report (`KillSweep`). The definitions have names of their own (`SweepInit`, `SweepNext`, ...)
because one module proves about `Sweep` and `Benchmark`.

## Runs

| Run | Shows | Bounds |
|---|---|---|
| `stream_ids` | no confusion of streams nearer than a wrap | 3 slots, 14 streams: past both wraps |
| `tcp` | two connections that share a server's accept task, registration channel and loop, with failing dials and accepts, a port that is taken, a reset and the server's death: event order, a running handler can be found, a dialing side's sends are accepted | 2 clients; the first sends 2, the second only connects; every capacity 1 |
| `tcp_flood` | traffic in both directions until a loop waits, a reset and a shutdown: nothing lost while the connection lasts, implementation of `ReliableLinks`; only handlers that wait for each other hold up a packet or `shutdown`; a lost connection is reported | 1 client; 5 and 2 sends; every capacity 1 |
| `tcp_duplex` | violation: mutual write blocking | 3 and 2 sends |
| `tcp_registration` | violation: a `Send` that overtakes the registration is dropped | |
| `udp` | events in order and announced once, what is delivered was sent, nothing of another's connection | 2 clients, 1 dial and 1 send an end, 1 fault |
| `quic` | a dialogue with full windows: the stream is a `ReliableLinks`, what is written is delivered, no send of the dialing side vanishes, `shutdown` returns | 1 stream, 3 and 2 sends, a window of 1 frame |
| `quic_streams` | streams announced once | 2 streams of any of two kinds, 1 send an end, a window of 1 frame, 1 open stream |
| `gns` | event order, maps that follow the library, order of reliable messages, every end reported | one client, 1 dial, 2 sends, 1 stream of either kind, polls of 1 item |
| `benchmark` | rates, duration, no unreported loss; the file is a beginning of the run and complete when the client ends by itself; a connected run ends | 3 s with 1 s of warm-up, 2 ticks a second, a dial of up to 2 ticks, a duplicate, a buffer of 3 pieces |
| `benchmark_loss` | violation: packets of the warm-up are reported as lost | 4 s with 1 s of warm-up |
| `sweep` | reports are of the files that are there, and are right | 2 pairs of up to 2 files, 4 writes, 2 sweeps; files without records, with a loss, with copies and losses, or torn |

Capacities of the TCP runs are one, so that every queue is full after two or three sends and each
`await` on a full queue happens; the code's 16 and 100 differ only in how long that
takes. The run `tcp` has two clients, because a registration channel of one place
is full only with two. The run `tcp_flood` has one connection, and sends enough that
both handlers hold a packet at full sockets while the client's queue is full and its loop waits: its five are the packet
from which the server learns the stream, one in the socket, one in the hand, one in the queue and one in the loop's
hand. A fault of the UDP run is a duplicate,
a client's move to another address or a restart of
the server; a datagram of before the move or the restart may be received after it. A second dial would
only add a connection with another uuid, which the run has from another client. Faults that follow
one another are beyond its bound, and so are two packets in flight on one end; the theorems about `UdpBackend`
have neither bound. In
`quic` the sends are the fewest with which both loops can await a full window at the same time:
a packet read, one in the pipe and one in the loop's hand, on each side as the answers allow. With them one direction of
a stream carries up to three packets, so that order is a question. The
server's application creates the stream in `quic`, the client's in `quic_streams`; with a
limit of one stream the second always waits, and it goes on only when both sides have closed
the first. The code polls a hundred items at once in `gns`; with one, reports and messages come between any two items, and
a turn of one item with another behind it is what a full poll of a hundred is. Two messages are the fewest that can be
reordered. The client creates the stream and dials once, as the benchmark does; see below for what happens otherwise. In the
benchmark runs a
second has two ticks, the fewest with which whole seconds and elapsed time differ; the
intervals are neither equal nor multiples of one another; a dial of two ticks makes a packet
due in the first tick of the connection, in the middle of the warm-up; a buffer of three
pieces spills both between lines and inside one. In `sweep` a pair can have the file without a number and a numbered
one, which the program finds by different names; four writes are two for each file of a pair with one replaced
after a sweep.

Fairness. `TcpBackend!Fairness`: the executor runs tasks that are ready, `select!` picks
among ready branches at random, and the game loop polls. Weak
fairness of every task's branches is implied by that. `Benchmark!Fairness`: time passes, the loop
spins, `poll` returns what the transport has answered, and the two threads are
scheduled. `QuicBackend!Fairness`: as for TCP, a connection that is up brings what was written, and one
whose other side is gone is noticed (the keep-alives of `quic_protocol.rs:70` and quinn's idle
timeout). `GnsBackend!Fairness`: the thread spins (it yields in a turn without work, `gns_protocol.rs:199-202`), the game
loop polls, and the library completes dials, carries reliable messages and notices an end, by its own timeouts. Applications, the network,
unreliable messages, kills, failing writes and panics of a handshake have none. `UdpBackend` and `Sweep` are
checked for safety only: nothing in that backend waits for anything but its two inputs, and a sweep is a loop over
a list.

What the violated properties say of the program is in `PROJECT.json` under `findings`, with the
lines. More was met that no run states:

- The two handlers of a TCP connection that wait for each other (`tcp_duplex`) hold up more than packets: when a queue
  behind them is full, the backend's loop stays in `tx.send().await` (`tcp_protocol.rs:83`), never reads `Shutdown`, and
  `GamePeer::shutdown` hangs in its `join`. `ShutdownReturns` and `DeliveredUnlessStalled` except this state (`Stalled`), and
  `tcp_flood` reaches it.
- A datagram longer than 2048 bytes reaches the application of the UDP backend cut off, without a word
  (`udp_protocol.rs:24`).
- `GameStream::is_reliable` is true for an ordered stream, whose last bit is clear
  (`src/lib.rs:52-54`). The QUIC backend announces such a stream and then drops every send on it
  (`quic_protocol.rs:123`, `:175`).
- A dial that is refused makes the benchmark's client spin for ever: without a connection
  nothing ever ends its loop, since it looks at the duration only with one (`bin/client.rs:155-157`, `:176`). The same is
  true while a stream it asked for is not announced: the `continue` passes over the test of `need_stop` (`:189`).
  `ConnectedRunEnds` does not show it, since it takes it from the fairness that streams are announced.
- A port that is taken is reported by no event: the TCP backend's thread ends, in a release build its process
  (`tcp_protocol.rs:32`, `BindFails`), the UDP backend goes on without a socket (`udp_protocol.rs:69`),
  the GNS thread ends (`gns_protocol.rs:115-118`), and one failing `accept` ends the TCP listener (`tcp_protocol.rs:37`).
- A GNS connection that comes up between the two polls of a turn has messages before it has a uuid, and they are
  dropped although they are reliable (`gns_protocol.rs:289`). It happens when the library does not report an own dial
  before it is up and the server's application creates the stream; with those constants `ImplementsLinks` fails.
- A second `connect` on a GNS client drops the socket with its connection; no `Disconnected` follows,
  and the maps keep the old handle (`gns_protocol.rs:128`).
- The comparison `> warmup` of whole seconds drops one more second than asked for, the first
  second even without a warm-up (`src/bin/client.rs:141`).
- The t table goes over to the value 2.042 at n = 21 (`src/bin/stats.rs:523`), its doc comment to z at 30
  (`:458`), and from 16 runs on its rows end below the value for n - 1 degrees of freedom, 2.086
  for n = 16 where 15 degrees need 2.131 (`:503`, `:522`).
- `num_runs` counts runs without records, which enter no statistic (`src/bin/stats.rs:285`), and a missing report is
  plotted as zero (`src/bin/plot.rs:127`).
- A sweep that ends at a file it cannot read leaves the reports of an older sweep for the pairs after it, and nothing
  in them tells.
- At the limit of open streams `create_stream` holds up the QUIC backend's loop, and a stream
  closed on one side only never makes room: `shutdown` may then not return
  (`quic_protocol.rs:51`, `:214`, `:226-231`).
- On a QUIC connection the first `Message` of a stream can come before its `StreamCreated`, an answer
  can overtake the registration it needs and is dropped, streams created on both sides share keys, and no
  `Disconnected` is ever sent.

## Proofs

`StreamIdsProofs`: type correctness, `AliasOnlyAcrossWrap`, `AnalysisReadsBack` and
`CloseIsPrecise` for every width of the identifier (any `Slots >= 1`) and any number of
streams. The properties are not inductive: they speak of handles, and the next handle
depends on the counter. The invariant `HandlesComputed` ties the counter to the number
of calls and every open stream to the call that created it. The rest is arithmetic:
`DivMod` and `RemainderUnique` carry the lemmas on the shift (`ShiftIsRemainder`) and on
the two wraps (`WrapKeepsSlot`, `SuccessorRemainder`).

`TcpBackendProofs` has three parts. The first is `TypeOK` of `TcpBackend` for any number of clients, sends and
streams and any capacities. `GamePeerProofs` has what each call and each taken command preserves of the front
end; a backend's step adds only what it does to its own variables.

The second is `NothingLost`, and `ImplementsLinks`, for the same generality.
`NothingLost` is not inductive: it says nothing of a connection whose end is closed, and
nothing of why a connection that is being opened is empty. `OrderInv` adds to `TypeOK`
- `FreshInv`: a connection is opened once. Each side's `Connect` and `Accept`
  finds it as `Init` left it;
- `UnopenedInv`: what was not opened has empty queues, no registration and no packet in a
  hand or a socket;
- `LinkInv`: on every end what was delivered and what the socket holds is a prefix of what was
  accepted; while neither end is closed the rest is in the handler's hand, its queue and the
  hand of the waiting backend, in order; and a closed end holds no packet in its hand, so that
  nothing is written behind what was dropped.
Each has a frame lemma for the steps that leave it alone and one lemma per group of steps that do
not. `LinksTheorem` uses the same invariant: a step that takes a packet off the
way of an end is `Links!Deliver`, one that accepts is `Links!Accept`, the rest stutters.

The third is `HandlerReachable`, `EventsInOrder` and `DialerSendsAccepted`, each for any number of clients and
any capacities.
- `HandlerReachable`: a sum of one over three places is no induction hypothesis, and a channel is a
  sequence: `PlacedInv` says that a running handler's end is in one of the places, in no two of them, and at one
  position if it is in the channel. It rests on `OrderInv`, from which `Accept` and `Connect` know that the end is new
  everywhere.
- `EventsInOrder`, if the counters of streams do not come round (`MaxStreams < IdSpace`): `NewsInv` relates the queue of
  events to the handler. An application has heard of an end when and only when the end was opened, of its end only when the handler is done, and of every stream the handler knows; and
  what it asks for is of an end that was opened. So every event a step appends fits those before it (`Fits`). What may
  follow a `Disconnected` needs `OwnInv` of `GamePeerProofs` as well: a `CreateStream` in the queue has an index the
  counter has given out, and a `StreamCreated` after the end is of such an index. When the counter wraps it forgets
  what it gave out, hence the hypothesis.
- `DialerSendsAccepted`: `SendsInv` is the property with the Sends in the queue counted as elements of a set. A Send is
  of an end that was opened (`NewsInv`); if the connection stands its handler runs, and an end that dialed is in
  neither the channel nor the accept task's hand, so it is in the map (`PlacedInv`). The commands that a backend loses
  when it ends are of connections it closes, or there are none.

`UdpBackendProofs`: `TypeOK`, then three properties from one invariant, then the order of events and their number.
- `TypeInv` adds to `TypeOK` that the uuids in use are of dials that were made, and that no client has moved more often
  than there were faults.
- `PathInv` follows a connection from end to end: on every process, the commands, events and map entries of a
  connection, and every datagram of it, belong to one of its two parties; every address in the map or on a datagram
  is one of the other party's; what is in `net` or was delivered was sent (`left`, `sent`); and what an
  application has heard of has an address, which is why a `Send` finds one. `OnlyOwnConnections`, `DeliveredWasSent` and
  `SendsFindConnection` each need all of it: the address of a datagram decides whose map it enters.
- `OrderInv` relates the map to the events: a connection has an address when and only when some event concerns it, the
  stream of every known handle was announced, and a `StreamCreated` or `StreamClosed` that waits to be answered is of a
  connection that was announced. From it every event a step appends fits those before it (`Fits`), and a sequence
  whose events all fit is ordered.
- `OnceInv` counts: the announcements of a stream and the `CreateStream` commands for it together are at most one for the
  datagrams, once they have put the stream into `known_streams`, and one for the call of `create_stream`. With
  `OrderInv` it gives `EventsInOrder`. Its hypothesis is `MaxStreams <= Slots`: when the counter of handles
  comes round, two calls make the same handle, and the loop announces it for each of them.

`QuicBackendProofs` has five parts, each for any number of clients, any window, any limit of open streams and
whatever panics or fails.
- `TypeOK` needs `CreatesOK`: a stream of QUIC is numbered by its opener, and its number stays in its type because the
  streams an end has opened, the one it is waiting for and those still in its commands are no more than its application
  has asked for. With `MaxStreams < IdSpace` (`QuicAssumption`) no identifier is given twice.
- `ConnectedOnceAndFirst`: the accept task, the loop and the readers of every connection write to one queue, so
  `NewsInv` is about what passes between them. An end is heard of when and only when its process has had the connection
  (`HeardOK`); commands, registrations and running readers are of such ends only; a client has one dial to make, and a
  connection is in the backlog at most once and before it is accepted.
- `DialerSendsAccounted`: that the sends of an end add up is not inductive, since a `Send` whose connection or stream is not
  in the maps is dropped. `SendInv` has the reasons why there is none on the dialing side: its connection is in
  `connections` from its `Connected` on, a reliable stream it was told of has its stream of QUIC, and
  every queued `Send` is of a stream it was told of. The balance itself (`BalanceOK`) is then kept by each step:
  a send moves from the queue to `accepted`, to the loop's hand or to the failed ones. The theorem has the
  hypothesis that `Kinds` is without `"Ordered"`. It is false otherwise: an ordered stream is announced without a
  stream of QUIC, and its sends are dropped (`quic_protocol.rs:123`). The benchmark creates none.
- `AnnouncedOnce`: `OnceInv` counts, for every end and handle, what was announced together with what is still to be: the
  registrations in the channel, the `open_bi()` the loop awaits and the commands in the queue. For a reliable stream
  they are no more than one for the call of `create_stream` on this side and one for each stream of QUIC taken from the
  other side, which are in turn no more than that side's call (`Made`). For a stream of datagrams, which a registration
  may name again and again, an announcement is paid for by its entry in `unreliable`, and a second one by the close
  that removed it. The hypotheses are `MaxStreams <= Slots`, as for the order of UDP's events, and that only one of the two
  sides creates streams: both number theirs from one (`quic_protocol.rs:121`), and theirs would share their handles.
- `ImplementsLinks`: `LanesOK` is the promise with the transport: what was accepted on a stream is what was delivered,
  followed by what is in the half of the stream of QUIC that carries it, and every frame there has the stream's handle.
  For that to be kept, nothing may be in a half before its stream of QUIC was opened (`UnopenedOK`), nothing accepted or
  delivered before one was opened for the handle (`UnusedOK`), and whatever the map, a registration or the frame in
  the loop's hand names must have been opened for the handle it stands for (`NamesOK`): the loop may hold a frame while
  the application closes its stream, and the readers pass the loop. The loops of a closed connection have
  ended (`OutlivesNone`), so nothing is delivered to a closed end, and a closed connection does not come
  back (`StepEndures`, from `NewsInv`). `LanesInv` is inductive only if one stream of QUIC at most is opened for a handle
  (`OwnStreams`). That follows from the counts of `OnceInv`, under the hypotheses of `AnnouncedOnce`.

`GnsBackendProofs`: `TypeOK`, `MapsFollowLibrary`, `EventsInOrder` and `ImplementsLinks`, for any number of clients,
dials and calls and any size of a poll.
- `TypeOK` is inductive with the number of dials (`DialsOK`: a call of `connect` that waits will be counted, and is not
  repeated before) and with what is left of a turn (`LeftOK`). A second dial drops what the queues hold of the
  first connection, by a recursive function: `WithoutKeeps` describes its values one by one, and the facts
  about it (`WithoutType` and those on members) are proved from that.
- `MapsFollowLibrary`: `LinksOK` says for every end what its state in the library has to do with the socket, the maps and the
  reports that still wait: an end that is gone has the report of it in the queue and nothing behind it (`GoneLast`), one
  that is up is in the maps or is a dial with its report still to come, and none that was closed has a report
  left. `FreshOK` says that a dial not yet made leaves no trace.
- `EventsInOrder`, under the same hypothesis as for TCP and with the same `OwnInv`: `NewsOK` ties the maps to the
  queue. What an application has heard of is in the maps or was closed
  since; of an end in the maps it has heard, but not of its end; each known stream was announced; and commands are of
  connections that were heard of. A report that an end connects registers it unconditionally
  (`gns_protocol.rs:231-234`): `FirstsOK` says that it is the first of its end and that the maps do not have the end yet.
- `ImplementsLinks`: `DeliversOK` is the promise with the queues: for every end that is not closed, what was delivered, what of
  its reliable messages waits in the inbox of its process and what is on its way there are, one after the other, what
  the other end's library took; if the other end has been closed, they are a prefix of it. The inbox is shared by the
  connections of a socket and by the unreliable messages: `Pick` takes an end's reliable ones out of it, again by
  a recursive function, and `PickAppend`, `PickTail` and `PickWithout` say what it does when a message arrives, is handled, or a
  connection's messages are dropped. It is inductive only if the backend drops no message for want of a uuid, which
  is `InboxOK`: every end with a message in an inbox is in the maps and not closed. An accepting end is, since accepting made
  it known before it was up; a dialing end is for a reason that lies on the other side. `TracesOK` says it: whatever is said
  on a connection, in a command, an event, a queue or on its way, comes after the dialing side had its uuid (`Begun`),
  because the server sends only on streams that it was told of, and the dialing side creates them. So the theorem
  has the hypothesis that the server creates none (`Creators \subseteq Clients`), as the property says. Without it the
  property is false (see above). The benchmark's server only answers on the streams of its clients.

`BenchmarkProofs`: `TypeOK`, `RateHolds`, `RunsFullDuration`, `FileIsPrefix`, `EndedIsWritten` and `LossesAreCounted`, for
any rates, durations and buffer size. `LoopInv`: a timer is the number of its stream's packets times the interval
(`TimersInv`), and the loop stops only because the time is over or the connection is gone (`StopInv`). `RecorderInv`:
the file, the buffer and the rest of the line continue each other, and the channel has exactly the records
they lack (`PiecesInv`); the sender is dropped before the join, and the thread ends for no other reason
(`ThreadInv`). That the client loses no record when it drops its recorder is the case of an empty channel.
`EchoInv`, for the losses: while the network has duplicated nothing, a packet is on its way there, on its way back or has been
seen, and only one of these, so a record is made of it once at most. The records of a stream are then as many as their ids
(`RecordsAreIds`), all of them have been seen, and the highest is below what the stream has given out; the rest is
counting. The ids have a highest one because they are bounded by the clock (`MaxOf`).

Its second half is about `Sweep`: `SweepTypeOK`, `ReportsAreCurrent` and `ReportsAreSound`, for any finite sets of
scenarios, protocols and runs, any records and any number of writes and sweeps. The proof begins with the operators of `Stats`:
- lists: in a strict total order of a finite set the number of elements before an element is a bijection onto
  0 .. n - 1 (`PlacesHaveElements`), so that `Listed` has every element once and in order (`PlacesInOrder`). It is used
  of numbers (`NumbersListed`: the files of a pair), of pairs (`PairsListed`: what a sweep has to do) and of values
  (`SortedOf`);
- order statistics: fewer than k values are below the k-th of a sorted list and at least k are not above it
  (`SortedCounts`). So if every value of one list is at most the value of the same name in another, the k-th of the
  one is at most the k-th of the other (`SortedBelow`). That is why the medians over the runs are in the
  order of the percentiles (`MediansInOrder`); the percentiles of one run are, because their places are;
- sums: that the recursion `SumOf` stands for has a solution, and that it adds up one element after the other
  (`SumByElements`), is an induction on cardinality, stated of a set of numbers (`EveryNat`). With it the records of the streams
  are as many as the records of the run (`RecordsOfStreams`).
`ReportsAreSound` then follows for the runs of a pair, whatever they are (`ReportAddsUp`, `ReportAgrees`, `ReportInRank`): it is a
statement about the computation, of which the state gives only the type. `ReportsAreCurrent` is one about
the sweep. `SweepInv` has what its steps need: there is a place for the report of every pair; what is left to do has
files, so that a saved report counts one run at least; a sweep that failed has a pair left, and one that ended well has
none. A step takes the first pair off what is left, so the pairs the sweep is past are those before it and the one
it has just saved (`TodoTail`); and while it runs no file changes. What a call with a filter prints follows from the
definition of `Filtered` when all pairs are past (`FilteredReports`).

The assumptions are those on the constants (`StreamIdsAssumption`, `TcpAssumption`, ...); TLC
evaluates them on the runs.

The library's induction theorems take an operator as a parameter, which the provers cannot instantiate. `AllNat` in
`GameStreamProofs` and `EveryNat` in `BenchmarkProofs` state induction of a set of numbers instead, from the well-foundedness
of finite sets; the facts about recursive functions and about sums rest on them.

Only model-checked, because they rest on fairness or `ENABLED`, which are out of the provers' reach: `DeliveredUnlessStalled`,
`ShutdownReturns`, `LossIsReported`, `WrittenIsDelivered` and `ConnectedRunEnds`. Every other property of a run
that passes is stated by a theorem, for `EventsInOrder`, `AnnouncedOnce`, `DialerSendsAccounted` and
`ImplementsLinks` under the hypotheses named above.

## Not modelled

The charts of `bin/plot.rs` and the shell scripts: they keep no state and decide nothing the
results depend on, except the order of a run's processes, which `Benchmark` takes as its
start. Floating-point statistics (deviations, throughput, confidence intervals with their t table), CSV and JSON as
text. Of the QUIC backend, certificates and the transport settings except the limit of
streams; of the GNS backend, an initialisation that fails. Contents of packets beyond their identity: the checksum is a choice
(`MayCorrupt`). The server's list of clients, which is written and never read.

## Plan

What is left: `QuicBackend` with streams created on both sides, which share keys: the order that
`src/README.md:45` gives reliable streams ("ordered delivery") is not kept there. `GnsBackend` with a second dial and
with streams the server creates. All three need runs of their own, and the first two properties that say
what the program should do, which nothing in the repository does so far.
