------------------------------ MODULE QuicBackend ------------------------------
(***************************************************************************)
(* The QUIC backend of src/protocols/quic_protocol.rs: a server that       *)
(* listens and clients that each dial it, with the GamePeer in front of    *)
(* every one.                                                              *)
(*                                                                         *)
(* A backend is one thread in a select loop that is fed by commands and by *)
(* two registration channels.  Around it run an accept task and, for each  *)
(* connection, a reader of datagrams and a reader of streams, which starts *)
(* a reading loop for every stream.  A reliable GameStream is a stream of  *)
(* QUIC with two halves, one for each direction; the other kinds are a     *)
(* prefix of datagrams.                                                    *)
(*                                                                         *)
(* quinn and the network are external: a half keeps its order and has a    *)
(* flow-control window, datagrams are lost and reordered but not repeated, *)
(* a peer allows so many open streams, and a connection may be lost.  What *)
(* is never read is what the network lost or had not delivered.            *)
(***************************************************************************)
EXTENDS GamePeer, FiniteSets, SequencesExt

CONSTANTS
    Server,             \* the process that listens
    Kinds,              \* the kinds of stream the applications create
    Creators,           \* the ends whose application creates streams
    Closers,            \* the ends whose application closes streams
    MaxSends,           \* bound on the calls of send on each end
    Window,             \* frames a half holds that were written and not read
    StreamLimit,        \* streams of a peer that may be open, 100 in the code
    Quitters,           \* the processes whose application calls shutdown
    Breaks,             \* the clients whose connection the network may lose
    TooLong,            \* the ends that send datagrams quinn may refuse
    MayFail,            \* whether a bind, a dial or a handshake may fail
    Panics              \* what a panic may do: "unwind" (debug builds) or "abort" (release)

Clients == Peers \ {Server}
DialEnds == Clients \X {"dial"}
AcceptEnds == Clients \X {"accept"}
Ends == DialEnds \cup AcceptEnds

ASSUME QuicAssumption ==
    /\ Server \in Peers
    /\ Kinds \subseteq Reliability /\ Creators \subseteq Ends /\ Closers \subseteq Ends
    /\ MaxSends \in [Ends -> Nat] /\ Window \in Nat \ {0} /\ StreamLimit \in Nat \ {0}
    /\ Quitters \subseteq Peers /\ Breaks \subseteq Clients /\ TooLong \subseteq Ends
    /\ MayFail \in BOOLEAN /\ Panics \subseteq {"unwind", "abort"}
    /\ MaxStreams < IdSpace     \* the counters of streams do not come round

Owner(e) == IF e[2] = "dial" THEN e[1] ELSE Server
Other(e) == IF e[2] = "dial" THEN <<e[1], "accept">> ELSE <<e[1], "dial">>
EndsOf(p) == {e \in Ends : Owner(e) = p}

\* What a Send carries: the stream's handle and the number of the Send on its end.
Packet == [stream : StreamId, n : UNION {1 .. MaxSends[e] : e \in Ends}]

\* A stream of QUIC is the end that opened it and a number; a half of it is
\* the stream and the end that writes.
QuicStream == Ends \X (1 .. MaxStreams)
Halves == {h \in QuicStream \X Ends : h[2] \in {h[1][1], Other(h[1][1])}}
Writer(h) == h[2]
Reader(h) == Other(h[2])

NoStream == <<>>

\* The key of a GameStream in the maps of the backends.
Key == Ends \X StreamId

VARIABLES
    listening,          \* the accept task runs
    backlog,            \* connections whose handshake the accept task has not awaited
    connReg,            \* conn_reg_tx / conn_reg_rx of the server
    streamReg,          \* stream_reg_tx / stream_reg_rx
    connections,        \* the keys of the backends' maps connections
    reliable,           \* reliable_send_streams: the QUIC stream of a key, or none
    unreliable,         \* unreliable_send_streams
    known,              \* known_streams of an end's datagram reader
    writing,            \* the frame and the half the loop's write_all().await holds
    opening,            \* the command for which the loop is in open_bi().await
    conn,               \* an end as its process sees it: none, up, lost, closed
    opened,             \* the QUIC streams an end has opened: the index it wrote to each
    taken,              \* how many streams of the other end the stream reader has accepted
    reading,            \* the reading loop of a half: none, running, done
    pipe,               \* frames written to a half and not read
    finished,           \* the halves whose SendStream was dropped
    net,                \* datagrams in flight, with the end they go to
    sent,               \* history: Sends called on an end
    accepted,           \* history: packets the backend handed to quinn for a key
    delivered           \* history: packets the reading loops gave to the application

acceptVars == <<listening, backlog, connReg>>
mapVars == <<streamReg, connections, reliable, unreliable>>
loopVars == <<writing, opening>>
quinnVars == <<conn, opened, taken, reading, pipe, finished>>
historyVars == <<sent, accepted, delivered>>
quicVars == <<acceptVars, mapVars, known, loopVars, quinnVars, net, historyVars>>
vars == <<peerVars, quicVars>>

SendFailed(e) == [type |-> "Error", conn |-> e]

Commands == [p \in Peers |-> Command(EndsOf(p), Packet)]
Events == [p \in Peers |->
              Event(EndsOf(p), Packet) \cup {SendFailed(e) : e \in EndsOf(p)}]

\* The streams of QUIC and the halves an end has to do with.
StreamsOf(e) == {e, Other(e)} \X (1 .. MaxStreams)
HalvesOf(p) == {h \in Halves : Owner(Writer(h)) = p}

Registration(p) ==
    {r \in [end : EndsOf(p), stream : StreamId, quic : QuicStream \cup {NoStream}] :
        r.quic \in StreamsOf(r.end) \cup {NoStream}}

AtMostOne(S) == {<<>>} \cup {<<x>> : x \in S}

AcceptTypeOK == listening \in BOOLEAN /\ backlog \in Seq(AcceptEnds) /\ connReg \in Seq(AcceptEnds)

MapTypeOK ==
    /\ DOMAIN streamReg = Peers /\ \A p \in Peers : streamReg[p] \in Seq(Registration(p))
    /\ connections \subseteq Ends
    /\ reliable \in [Key -> QuicStream \cup {NoStream}]
    /\ \A k \in Key : reliable[k] \in StreamsOf(k[1]) \cup {NoStream}
    /\ unreliable \subseteq Key
    /\ known \in [Ends -> SUBSET StreamId]

LoopTypeOK ==
    /\ DOMAIN writing = Peers /\ DOMAIN opening = Peers
    /\ \A p \in Peers :
          /\ writing[p] \in AtMostOne([half : HalvesOf(p), packet : Packet])
          /\ opening[p] \in AtMostOne([end : EndsOf(p), index : StreamId])

QuinnTypeOK ==
    /\ conn \in [Ends -> {"none", "up", "lost", "closed"}]
    /\ DOMAIN opened = Ends
    /\ \A e \in Ends : opened[e] \in Seq(StreamId) /\ Len(opened[e]) <= MaxStreams
    /\ taken \in [Ends -> Nat] /\ \A e \in Ends : taken[e] <= Len(opened[Other(e)])
    /\ reading \in [Halves -> {"none", "running", "done"}]
    /\ \A h \in Halves : reading[h] = "running" => h[1][2] \in DOMAIN opened[h[1][1]]
    /\ pipe \in [Halves -> Seq(Packet)] /\ \A h \in Halves : Len(pipe[h]) <= Window
    /\ finished \subseteq Halves

HistoryTypeOK ==
    /\ net \subseteq Ends \X Packet
    /\ sent \in [Ends -> Nat]
    /\ accepted \in [Key -> Seq(Packet)] /\ delivered \in [Key -> Seq(Packet)]

\* Every queue, map and task holds what it may, a half no more than its window,
\* and a process only what is of its own connections.
TypeOK ==
    /\ PeerTypeOK(Commands, Events)
    /\ AcceptTypeOK /\ MapTypeOK /\ LoopTypeOK /\ QuinnTypeOK /\ HistoryTypeOK

Init ==
    /\ PeerInit
    /\ listening = FALSE
    /\ backlog = <<>>
    /\ connReg = <<>>
    /\ streamReg = [p \in Peers |-> <<>>]
    /\ connections = {}
    /\ reliable = [k \in Key |-> NoStream]
    /\ unreliable = {}
    /\ known = [e \in Ends |-> {}]
    /\ writing = [p \in Peers |-> <<>>]
    /\ opening = [p \in Peers |-> <<>>]
    /\ conn = [e \in Ends |-> "none"]
    /\ opened = [e \in Ends |-> <<>>]
    /\ taken = [e \in Ends |-> 0]
    /\ reading = [h \in Halves |-> "none"]
    /\ pipe = [h \in Halves |-> <<>>]
    /\ finished = {}
    /\ net = {}
    /\ sent = [e \in Ends |-> 0]
    /\ accepted = [k \in Key |-> <<>>]
    /\ delivered = [k \in Key |-> <<>>]

-------------------------------------------------------------------------------
(* The applications.  Bounds: the server listens once, a client dials once. *)

AppListen ==
    /\ ~listening /\ ~Contains(cmds[Server], BindCmd) /\ \A e \in AcceptEnds : conn[e] = "none"
    /\ Listen(Server)
    /\ UNCHANGED quicVars

AppDial(c) ==
    /\ conn[<<c, "dial">>] = "none" /\ ~Contains(cmds[c], ConnectCmd)
    /\ Dial(c)
    /\ UNCHANGED quicVars

AppCreateStream(e, reliability) ==
    /\ e \in Creators
    /\ CreateStream(Owner(e), e, reliability)
    /\ UNCHANGED quicVars

AppCloseStream(e, stream) ==
    /\ e \in Closers
    /\ CloseStream(Owner(e), e, stream)
    /\ UNCHANGED quicVars

HeardStreams(p, e) ==
    {x.packet.stream : x \in {y \in Seen(p) : y.type = "Message" /\ y.conn = e}}

\* The client sends on the streams that were created for it, the server answers
\* on those it has heard from.
SendsOn(e) == IF e[2] = "dial" THEN KnownStreams(Owner(e), e) ELSE HeardStreams(Owner(e), e)

AppSend(e, stream) ==
    /\ sent[e] < MaxSends[e] /\ stream \in SendsOn(e)
    /\ SendCommand(Owner(e), SendCmd(e, [stream |-> stream, n |-> sent[e] + 1]))
    /\ sent' = [sent EXCEPT ![e] = @ + 1]
    /\ UNCHANGED <<events, polled, next_stream_id, app, thread, acceptVars, mapVars, known,
                   loopVars, quinnVars, net, accepted, delivered>>

AppPoll(p) == Poll(p) /\ UNCHANGED quicVars

AppShutdown(p) == p \in Quitters /\ Shutdown(p) /\ UNCHANGED quicVars

AppJoin(p) == Join(p) /\ UNCHANGED quicVars

-------------------------------------------------------------------------------
(* The end of a backend *)

\* The loop is left and the runtime dropped: the tasks end where they are, the
\* connections close and what is in the maps and channels is gone.
Stop(p) ==
    /\ ThreadExits(p)
    /\ streamReg' = [streamReg EXCEPT ![p] = <<>>]
    /\ connections' = connections \ EndsOf(p)
    /\ reliable' = [k \in Key |-> IF Owner(k[1]) = p THEN NoStream ELSE reliable[k]]
    /\ unreliable' = {k \in unreliable : Owner(k[1]) # p}
    /\ writing' = [writing EXCEPT ![p] = <<>>]
    /\ opening' = [opening EXCEPT ![p] = <<>>]
    /\ conn' = [e \in Ends |-> IF Owner(e) = p /\ conn[e] # "none" THEN "closed" ELSE conn[e]]
    /\ reading' = [h \in Halves |->
                      IF Owner(Reader(h)) = p /\ reading[h] = "running" THEN "done" ELSE reading[h]]
    /\ IF p = Server
       THEN listening' = FALSE /\ backlog' = <<>> /\ connReg' = <<>>
       ELSE UNCHANGED acceptVars
    /\ UNCHANGED <<events, polled, next_stream_id, known, opened, taken, pipe, finished, net,
                   historyVars>>

\* An unwrap on the backend's thread: a debug build ends the thread, a release
\* build the process.
Panic(p) ==
    /\ Stop(p)
    /\ \E build \in Panics :
          app' = IF build = "abort" THEN [app EXCEPT ![p] = "dead"] ELSE app

-------------------------------------------------------------------------------
(* The loop *)

\* The loop awaits inside the handler of a command, and does nothing else.
Waits(p) == writing[p] # <<>> \/ opening[p] # <<>>

Handles(p, type) == ~Waits(p) /\ Receives(p, type)

HandlesQuietly(p, type) ==
    /\ Handles(p, type)
    /\ TakeCommand(p)
    /\ UNCHANGED <<polled, next_stream_id, app, thread>>

\* Mutant: the loop tells the application too.
RegisterConnectionTells ==
    /\ thread[Server] = "running" /\ ~Waits(Server) /\ connReg # <<>>
    /\ connections' = connections \cup {Head(connReg)}
    /\ connReg' = Tail(connReg)
    /\ Emit(Server, <<Connected(Head(connReg))>>)
    /\ UNCHANGED <<cmds, polled, next_stream_id, app, thread, listening, backlog, streamReg,
                   reliable, unreliable, known, loopVars, quinnVars, net, historyVars>>

RegisterConnection ==
    /\ thread[Server] = "running" /\ ~Waits(Server) /\ connReg # <<>>
    /\ connections' = connections \cup {Head(connReg)}
    /\ connReg' = Tail(connReg)
    /\ UNCHANGED <<peerVars, listening, backlog, streamReg, reliable, unreliable, known, loopVars,
                   quinnVars, net, historyVars>>

\* Dropping a SendStream finishes the half it writes.
Drops(e, quic) == finished' = finished \cup (IF quic = NoStream THEN {} ELSE {<<quic, e>>})

\* Mutant: the list of unreliable streams is not looked at.
RegisterStreamAgain(p) ==
    LET reg == Head(streamReg[p])
        key == <<reg.end, reg.stream>> IN
    /\ thread[p] = "running" /\ ~Waits(p) /\ streamReg[p] # <<>>
    /\ streamReg' = [streamReg EXCEPT ![p] = Tail(@)]
    /\ IF reg.quic # NoStream
       THEN /\ reliable' = [reliable EXCEPT ![key] = reg.quic] /\ Drops(reg.end, reliable[key])
            /\ UNCHANGED unreliable
       ELSE unreliable' = unreliable \cup {key} /\ UNCHANGED <<reliable, finished>>
    /\ Emit(p, <<StreamCreated(reg.end, reg.stream)>>)
    /\ UNCHANGED <<cmds, polled, next_stream_id, app, thread, acceptVars, connections, known,
                   loopVars, conn, opened, taken, reading, pipe, net, historyVars>>

\* A stream of the same handle replaces the one in the map; an unreliable one
\* that is in the list is not announced again.
RegisterStream(p) ==
    LET reg == Head(streamReg[p])
        key == <<reg.end, reg.stream>> IN
    /\ thread[p] = "running" /\ ~Waits(p) /\ streamReg[p] # <<>>
    /\ streamReg' = [streamReg EXCEPT ![p] = Tail(@)]
    /\ IF reg.quic # NoStream
       THEN /\ reliable' = [reliable EXCEPT ![key] = reg.quic] /\ Drops(reg.end, reliable[key])
            /\ UNCHANGED unreliable
       ELSE unreliable' = unreliable \cup {key} /\ UNCHANGED <<reliable, finished>>
    /\ Emit(p, IF reg.quic = NoStream /\ key \in unreliable
               THEN <<>> ELSE <<StreamCreated(reg.end, reg.stream)>>)
    /\ UNCHANGED <<cmds, polled, next_stream_id, app, thread, acceptVars, connections, known,
                   loopVars, conn, opened, taken, reading, pipe, net, historyVars>>

Bind ==
    /\ HandlesQuietly(Server, "Bind")
    /\ listening' = TRUE
    /\ UNCHANGED <<events, backlog, connReg, mapVars, known, loopVars, quinnVars, net, historyVars>>

BindFails == Handles(Server, "Bind") /\ MayFail /\ Panic(Server)

\* The dialing side has its connection before the server's accept task has it.
Connect(c) ==
    LET e == <<c, "dial">> IN
    /\ HandlesQuietly(c, "Connect")
    /\ listening
    /\ backlog' = Append(backlog, Other(e))
    /\ conn' = [conn EXCEPT ![e] = "up"]
    /\ connections' = connections \cup {e}
    /\ Emit(c, <<Connected(e)>>)
    /\ UNCHANGED <<listening, connReg, streamReg, reliable, unreliable, known, loopVars, opened,
                   taken, reading, pipe, finished, net, historyVars>>

ConnectFails(c) == Handles(c, "Connect") /\ (~listening \/ MayFail) /\ Panic(c)

HeadEnd(p) == Head(cmds[p]).conn
HeadPacket(p) == Head(cmds[p]).packet
HeadKey(p) == <<HeadEnd(p), HeadPacket(p).stream>>

Known(p) == HeadEnd(p) \in connections

\* No connection of that name, or no stream: dropped without an event.
SendDropped(p) ==
    /\ HandlesQuietly(p, "Send")
    /\ ~Known(p) \/ (IsReliable(HeadPacket(p).stream) /\ reliable[HeadKey(p)] = NoStream)
    /\ UNCHANGED <<events, quicVars>>

SendsReliably(p) ==
    /\ HandlesQuietly(p, "Send")
    /\ Known(p) /\ IsReliable(HeadPacket(p).stream) /\ reliable[HeadKey(p)] # NoStream

\* The half of a key's stream that its end writes.
HalfOf(key) == <<reliable[key], key[1]>>

Accepts(e, packet) == accepted' = [accepted EXCEPT ![<<e, packet.stream>>] = Append(@, packet)]

Put(half, packet) ==
    /\ pipe' = [pipe EXCEPT ![half] = Append(@, packet)]
    /\ Accepts(Writer(half), packet)

SendWritten(p) ==
    /\ SendsReliably(p)
    /\ conn[HeadEnd(p)] = "up" /\ Len(pipe[HalfOf(HeadKey(p))]) < Window
    /\ Put(HalfOf(HeadKey(p)), HeadPacket(p))
    /\ UNCHANGED <<events, acceptVars, mapVars, known, loopVars, conn, opened, taken, reading,
                   finished, net, sent, delivered>>

\* Mutant: what does not fit is dropped.
SendWaitsNot(p) ==
    /\ SendsReliably(p)
    /\ conn[HeadEnd(p)] = "up" /\ Len(pipe[HalfOf(HeadKey(p))]) = Window
    /\ UNCHANGED <<events, quicVars>>

\* Mutant: write in place of write_all, and the part that fits is taken for the whole.
SendWaitsInPart(p) ==
    /\ SendsReliably(p)
    /\ conn[HeadEnd(p)] = "up" /\ Len(pipe[HalfOf(HeadKey(p))]) = Window
    /\ Accepts(HeadEnd(p), HeadPacket(p))
    /\ UNCHANGED <<events, acceptVars, mapVars, known, loopVars, quinnVars, net, sent, delivered>>

\* The window is full, and the loop awaits it.
SendWaits(p) ==
    /\ SendsReliably(p)
    /\ conn[HeadEnd(p)] = "up" /\ Len(pipe[HalfOf(HeadKey(p))]) = Window
    /\ writing' = [writing EXCEPT ![p] =
                      <<[half |-> HalfOf(HeadKey(p)), packet |-> HeadPacket(p)]>>]
    /\ UNCHANGED <<events, acceptVars, mapVars, known, opening, quinnVars, net, historyVars>>

WriteResumes(p) ==
    /\ thread[p] = "running" /\ writing[p] # <<>>
    /\ LET frame == Head(writing[p]) IN
          /\ conn[Writer(frame.half)] = "up" /\ Len(pipe[frame.half]) < Window
          /\ Put(frame.half, frame.packet)
    /\ writing' = [writing EXCEPT ![p] = <<>>]
    /\ UNCHANGED <<peerVars, acceptVars, mapVars, known, opening, conn, opened, taken, reading,
                   finished, net, sent, delivered>>

\* Mutant: the loop keeps trying on a connection that is lost.
WriteFailsNever(p) == FALSE /\ UNCHANGED vars

WriteFails(p) ==
    /\ thread[p] = "running" /\ writing[p] # <<>>
    /\ LET e == Writer(Head(writing[p]).half) IN
          conn[e] = "lost" /\ Emit(p, <<SendFailed(e)>>)
    /\ writing' = [writing EXCEPT ![p] = <<>>]
    /\ UNCHANGED <<cmds, polled, next_stream_id, app, thread, acceptVars, mapVars, known, opening,
                   quinnVars, net, historyVars>>

\* An unreliable stream need not be in the list, and may have been closed.
SendDatagram(p) ==
    /\ HandlesQuietly(p, "Send")
    /\ Known(p) /\ ~IsReliable(HeadPacket(p).stream) /\ conn[HeadEnd(p)] = "up"
    /\ net' = net \cup {<<Other(HeadEnd(p)), HeadPacket(p)>>}
    /\ Accepts(HeadEnd(p), HeadPacket(p))
    /\ UNCHANGED <<events, acceptVars, mapVars, known, loopVars, quinnVars, sent, delivered>>

SendFails(p) ==
    LET e == HeadEnd(p) IN
    /\ HandlesQuietly(p, "Send") /\ Known(p)
    /\ IF IsReliable(HeadPacket(p).stream)
       THEN reliable[HeadKey(p)] # NoStream /\ conn[e] = "lost"
       ELSE conn[e] = "lost" \/ e \in TooLong
    /\ Emit(p, <<SendFailed(e)>>)
    /\ UNCHANGED quicVars

\* An end of a connection lets the other open no more streams than the limit;
\* a stream is over for it when it has read one half and finished the other.
Over(q) == <<q, Other(q[1])>> \in finished /\ reading[<<q, q[1]>>] = "done"

HasRoom(e) == Cardinality({i \in DOMAIN opened[e] : ~Over(<<e, i>>)}) < StreamLimit

\* open_bi() returned: the index is written to the stream, its SendStream is
\* on its way to the map, and a loop reads the other half.
OpenStream(p, e, index) ==
    LET q == <<e, Len(opened[e]) + 1>> IN
    /\ opened' = [opened EXCEPT ![e] = Append(@, index)]
    /\ streamReg' = [streamReg EXCEPT ![p] =
                        Append(@, [end |-> e, stream |-> NewStream(index, "Reliable"), quic |-> q])]
    /\ reading' = [reading EXCEPT ![<<q, Other(e)>>] = "running"]
    /\ UNCHANGED <<acceptVars, connections, reliable, unreliable, known, writing, conn, taken,
                   pipe, finished, net, historyVars>>

CreateReliable(p) ==
    LET cmd == Head(cmds[p]) IN
    /\ HandlesQuietly(p, "CreateStream")
    /\ cmd.reliability = "Reliable" /\ Known(p)
    /\ conn[cmd.conn] = "up" /\ HasRoom(cmd.conn)
    /\ OpenStream(p, cmd.conn, cmd.index)
    /\ UNCHANGED <<events, opening>>

\* At the limit the loop awaits the end of a stream.
CreateWaits(p) ==
    LET cmd == Head(cmds[p]) IN
    /\ HandlesQuietly(p, "CreateStream")
    /\ cmd.reliability = "Reliable" /\ Known(p)
    /\ conn[cmd.conn] = "up" /\ ~HasRoom(cmd.conn)
    /\ opening' = [opening EXCEPT ![p] = <<[end |-> cmd.conn, index |-> cmd.index]>>]
    /\ UNCHANGED <<events, acceptVars, mapVars, known, writing, quinnVars, net, historyVars>>

CreateResumes(p) ==
    /\ thread[p] = "running" /\ opening[p] # <<>>
    /\ LET cmd == Head(opening[p]) IN
          conn[cmd.end] = "up" /\ HasRoom(cmd.end) /\ OpenStream(p, cmd.end, cmd.index)
    /\ opening' = [opening EXCEPT ![p] = <<>>]
    /\ UNCHANGED peerVars

\* open_bi().await.unwrap() on a connection that is lost, when it is called
\* and while it is awaited
CreatePanics(p) ==
    /\ Handles(p, "CreateStream")
    /\ Head(cmds[p]).reliability = "Reliable" /\ Known(p) /\ conn[HeadEnd(p)] = "lost"
    /\ Panic(p)

OpeningPanics(p) ==
    /\ thread[p] = "running" /\ opening[p] # <<>>
    /\ conn[Head(opening[p]).end] = "lost"
    /\ Panic(p)

\* A reliable stream of an unknown connection: no stream and no event.
CreateDropped(p) ==
    /\ HandlesQuietly(p, "CreateStream")
    /\ Head(cmds[p]).reliability = "Reliable" /\ ~Known(p)
    /\ UNCHANGED <<events, quicVars>>

\* The other kinds are entered into the list, an Ordered stream too.
CreateUnreliable(p) ==
    LET cmd == Head(cmds[p]) IN
    /\ HandlesQuietly(p, "CreateStream")
    /\ cmd.reliability # "Reliable"
    /\ streamReg' = [streamReg EXCEPT ![p] =
                        Append(@, [end |-> cmd.conn, quic |-> NoStream,
                                   stream |-> NewStream(cmd.index, cmd.reliability)])]
    /\ UNCHANGED <<events, acceptVars, connections, reliable, unreliable, known, loopVars,
                   quinnVars, net, historyVars>>

\* The other end is not told, and what it still sends is read.
BackendCloseStream(p) ==
    LET key == <<HeadEnd(p), Head(cmds[p]).stream>> IN
    /\ HandlesQuietly(p, "CloseStream")
    /\ reliable' = [reliable EXCEPT ![key] = NoStream]
    /\ Drops(HeadEnd(p), reliable[key])
    /\ unreliable' = unreliable \ {key}
    /\ Emit(p, <<StreamClosed(HeadEnd(p), Head(cmds[p]).stream)>>)
    /\ UNCHANGED <<acceptVars, streamReg, connections, known, loopVars, conn, opened, taken,
                   reading, pipe, net, historyVars>>

BackendShutdown(p) == Handles(p, "Shutdown") /\ Stop(p) /\ UNCHANGED app

-------------------------------------------------------------------------------
(* The accept task *)

\* Connected is sent to the application before the loop can know the connection.
Accept ==
    LET e == Head(backlog) IN
    /\ listening /\ backlog # <<>>
    /\ conn' = [conn EXCEPT ![e] = "up"]
    /\ connReg' = Append(connReg, e)
    /\ backlog' = Tail(backlog)
    /\ Emit(Server, <<Connected(e)>>)
    /\ UNCHANGED <<cmds, polled, next_stream_id, app, thread, listening, mapVars, known, loopVars,
                   opened, taken, reading, pipe, finished, net, historyVars>>

\* conn.await.unwrap(): a debug build loses the task and with it the endpoint,
\* a release build the process.
HandshakeFails ==
    /\ listening /\ backlog # <<>>
    /\ MayFail \/ conn[Other(Head(backlog))] # "up"
    /\ \/ "abort" \in Panics /\ Stop(Server) /\ app' = [app EXCEPT ![Server] = "dead"]
       \/ /\ "unwind" \in Panics
          /\ listening' = FALSE /\ backlog' = <<>>
          /\ UNCHANGED <<peerVars, connReg, mapVars, known, loopVars, quinnVars, net, historyVars>>

-------------------------------------------------------------------------------
(* The readers of a connection *)

\* The readers were started; on a lost connection they may still have what
\* had arrived before.
Reads(e) == conn[e] \in {"up", "lost"}

ReadDatagram(e, packet) ==
    /\ Reads(e) /\ <<e, packet>> \in net
    /\ net' = net \ {<<e, packet>>}
    /\ known' = [known EXCEPT ![e] = @ \cup {packet.stream}]
    /\ streamReg' = IF packet.stream \in known[e] THEN streamReg
                    ELSE [streamReg EXCEPT ![Owner(e)] =
                             Append(@, [end |-> e, stream |-> packet.stream, quic |-> NoStream])]
    /\ Emit(Owner(e), <<Message(e, packet)>>)
    /\ UNCHANGED <<cmds, polled, next_stream_id, app, thread, acceptVars, connections, reliable,
                   unreliable, loopVars, quinnVars, historyVars>>

\* Streams are accepted in the order they were opened.
AcceptStream(e) ==
    LET q == <<Other(e), taken[e] + 1>>
        stream == NewStream(opened[Other(e)][q[2]], "Reliable") IN
    /\ Reads(e) /\ taken[e] < Len(opened[Other(e)])
    /\ taken' = [taken EXCEPT ![e] = @ + 1]
    /\ streamReg' = [streamReg EXCEPT ![Owner(e)] =
                        Append(@, [end |-> e, stream |-> stream, quic |-> q])]
    /\ reading' = [reading EXCEPT ![<<q, Other(e)>>] = "running"]
    /\ UNCHANGED <<peerVars, acceptVars, connections, reliable, unreliable, known, loopVars, conn,
                   opened, pipe, finished, net, historyVars>>

\* The handle a reading loop gives its messages.
HandleOf(h) == NewStream(opened[h[1][1]][h[1][2]], "Reliable")

\* Mutant: the loop reads the frames.
ReadFrameByLoop(h) ==
    LET e == Reader(h)
        packet == [Head(pipe[h]) EXCEPT !.stream = HandleOf(h)] IN
    /\ reading[h] = "running" /\ pipe[h] # <<>> /\ ~Waits(Owner(e))
    /\ pipe' = [pipe EXCEPT ![h] = Tail(@)]
    /\ delivered' = [delivered EXCEPT ![<<e, packet.stream>>] = Append(@, packet)]
    /\ Emit(Owner(e), <<Message(e, packet)>>)
    /\ UNCHANGED <<cmds, polled, next_stream_id, app, thread, acceptVars, mapVars, known, loopVars,
                   conn, opened, taken, reading, finished, net, sent, accepted>>

\* The message goes to the application by itself, and not by way of the loop.
ReadFrame(h) ==
    LET e == Reader(h)
        packet == [Head(pipe[h]) EXCEPT !.stream = HandleOf(h)] IN
    /\ reading[h] = "running" /\ pipe[h] # <<>>
    /\ pipe' = [pipe EXCEPT ![h] = Tail(@)]
    /\ delivered' = [delivered EXCEPT ![<<e, packet.stream>>] = Append(@, packet)]
    /\ Emit(Owner(e), <<Message(e, packet)>>)
    /\ UNCHANGED <<cmds, polled, next_stream_id, app, thread, acceptVars, mapVars, known, loopVars,
                   conn, opened, taken, reading, finished, net, sent, accepted>>

\* The half was finished and has been read: the loop ends, and tells nobody.
ReadEnd(h) ==
    /\ reading[h] = "running" /\ pipe[h] = <<>> /\ h \in finished
    /\ reading' = [reading EXCEPT ![h] = "done"]
    /\ UNCHANGED <<peerVars, acceptVars, mapVars, known, loopVars, conn, opened, taken, pipe,
                   finished, net, historyVars>>

-------------------------------------------------------------------------------
(* The connection ends *)

Lose(e) ==
    /\ conn[e] = "up"
    /\ conn' = [conn EXCEPT ![e] = "lost"]
    /\ UNCHANGED <<peerVars, acceptVars, mapVars, known, loopVars, opened, taken, reading, pipe,
                   finished, net, historyVars>>

Break(e) == e[1] \in Breaks /\ Lose(e)

\* A close that arrives, or no answer for so long.
Gone(e) ==
    conn[e] \in {"lost", "closed"} \/ (conn[e] = "none" /\ ~Contains(backlog, e))

Notice(e) == Gone(Other(e)) /\ Lose(e)

-------------------------------------------------------------------------------
AppAction ==
    \/ AppListen
    \/ \E c \in Clients : AppDial(c)
    \/ \E e \in Ends, r \in Kinds : AppCreateStream(e, r)
    \/ \E e \in Ends, stream \in StreamId : AppCloseStream(e, stream) \/ AppSend(e, stream)
    \/ \E p \in Peers : AppPoll(p) \/ AppShutdown(p) \/ AppJoin(p)

SendStep(p) == SendDropped(p) \/ SendWritten(p) \/ SendWaits(p) \/ SendDatagram(p) \/ SendFails(p)

CreateStep(p) ==
    \/ CreateReliable(p) \/ CreateWaits(p) \/ CreatePanics(p)
    \/ CreateDropped(p) \/ CreateUnreliable(p)

HandleCommand(p) ==
    \/ p = Server /\ (Bind \/ BindFails)
    \/ p \in Clients /\ (Connect(p) \/ ConnectFails(p))
    \/ SendStep(p) \/ CreateStep(p) \/ BackendCloseStream(p) \/ BackendShutdown(p)

Resume(p) == WriteResumes(p) \/ WriteFails(p) \/ CreateResumes(p) \/ OpeningPanics(p)

ReadHalf(h) == ReadFrame(h) \/ ReadEnd(h)

Next ==
    \/ AppAction
    \/ \E p \in Peers : HandleCommand(p) \/ Resume(p) \/ RegisterStream(p)
    \/ RegisterConnection \/ Accept \/ HandshakeFails
    \/ \E d \in net : ReadDatagram(d[1], d[2])
    \/ \E e \in Ends : AcceptStream(e) \/ Break(e) \/ Notice(e)
    \/ \E h \in Halves : ReadHalf(h)

Spec == Init /\ [][Next]_vars

(***************************************************************************)
(* The executor runs what is ready, select! picks its branches at random,  *)
(* and a game loop polls.  An up connection brings what was written on a   *)
(* stream, and one whose other side is gone is noticed after a time.       *)
(* Datagrams, applications and failures have no fairness.                  *)
(***************************************************************************)
Fairness ==
    /\ \A p \in Peers :
          /\ WF_vars(HandleCommand(p) \/ Resume(p)) /\ WF_vars(RegisterStream(p))
          /\ WF_vars(AppPoll(p) \/ AppJoin(p))
    /\ WF_vars(RegisterConnection) /\ WF_vars(Accept)
    /\ \A e \in Ends : WF_vars(conn[e] = "up" /\ AcceptStream(e)) /\ WF_vars(Notice(e))
    /\ \A h \in Halves : WF_vars(conn[Reader(h)] = "up" /\ ReadHalf(h))

FairSpec == Spec /\ Fairness

-------------------------------------------------------------------------------
(* Safety *)

Announced(e, stream) ==
    Cardinality({i \in DOMAIN events[Owner(e)] : events[Owner(e)][i] = StreamCreated(e, stream)})

(***************************************************************************)
(* A stream is announced once on each side, whether its application, a     *)
(* datagram or a stream of QUIC made it known first; a stream that was     *)
(* closed may come back once with a datagram of before.                    *)
(***************************************************************************)
AnnouncedOnce ==
    \A e \in Ends, stream \in StreamId :
        Announced(e, stream) <=
            IF Contains(events[Owner(e)], StreamClosed(e, stream)) /\ ~IsReliable(stream)
            THEN 2 ELSE 1

SendsQueued(e) ==
    Cardinality({i \in DOMAIN cmds[Owner(e)] :
        cmds[Owner(e)][i].type = "Send" /\ cmds[Owner(e)][i].conn = e})

SendsAccepted(e) ==
    Cardinality(UNION {{stream} \X DOMAIN accepted[<<e, stream>>] : stream \in StreamId})

SendsWaiting(e) ==
    IF writing[Owner(e)] # <<>> /\ Writer(Head(writing[Owner(e)]).half) = e THEN 1 ELSE 0

SendsFailed(e) ==
    Cardinality({i \in DOMAIN events[Owner(e)] : events[Owner(e)][i] = SendFailed(e)})

HasClosed(e) == \E stream \in StreamId : Contains(events[Owner(e)], StreamClosed(e, stream))

\* Every Send called on e is on its way, was handed to quinn or is reported.
SendsAccounted(e) ==
    conn[e] \in {"up", "lost"} /\ ~HasClosed(e) =>
        sent[e] = SendsQueued(e) + SendsAccepted(e) + SendsWaiting(e) + SendsFailed(e)

(***************************************************************************)
(* The dialing side waits for its streams and loses none of its sends in   *)
(* silence: the stream is in the map before the application can know it.   *)
(***************************************************************************)
DialerSendsAccounted == \A e \in DialEnds : SendsAccounted(e)

(***************************************************************************)
(* Every reliable GameStream is a reliable link of its own, while one side *)
(* creates the streams: across the windows, the readers and the ends of    *)
(* streams and connections, an application gets the packets of a stream in *)
(* the order they were accepted, each once and none left out.              *)
(***************************************************************************)
Links == INSTANCE ReliableLinks WITH
    Ends <- Key,
    Opposite <- [k \in Key |-> <<Other(k[1]), k[2]>>],
    gone <- {k \in Key : conn[k[1]] = "closed"}

ImplementsLinks == Links!Spec

-------------------------------------------------------------------------------
(* Liveness *)

BothUp(e) == conn[e] = "up" /\ conn[Other(e)] \in {"none", "up"}

(***************************************************************************)
(* Every packet written to a stream is delivered, with traffic in both     *)
(* directions and full windows, unless the connection ends first: a loop   *)
(* that awaits its window keeps no reader from reading.  The sends are     *)
(* bounded, so that again and again nothing is on its way.                 *)
(***************************************************************************)
WrittenIsDelivered ==
    []<>(\A e \in Ends, i \in 1 .. MaxStreams :
            LET stream == NewStream(i, "Reliable") IN
            BothUp(e) => Len(accepted[<<e, stream>>]) = Len(delivered[<<Other(e), stream>>]))

(***************************************************************************)
(* shutdown() returns, however full the windows are, also when the other   *)
(* side is gone: no application is joining for ever.  Only the limit of    *)
(* open streams may hold it up.                                            *)
(***************************************************************************)
ShutdownReturns ==
    []<>(\A p \in Peers : app[p] = "joining" => opening[p] # <<>>)

===============================================================================
