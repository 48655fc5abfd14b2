------------------------------ MODULE UdpBackend ------------------------------
(***************************************************************************)
(* The UDP backend of src/protocols/udp_protocol.rs: a server on a known   *)
(* port and clients that dial it, with the GamePeer in front of each.      *)
(*                                                                         *)
(* A datagram begins with a uuid the dialing side made, and both sides     *)
(* name the connection by it.  There is no handshake: the side that did    *)
(* not dial learns of a connection from its first datagram, and of its     *)
(* address from every datagram.                                            *)
(*                                                                         *)
(* The network loses datagrams (one that is never received is lost),       *)
(* reorders and duplicates them, and gives a client another address, as a  *)
(* NAT does.  It never gives one client an address another client had.     *)
(***************************************************************************)
EXTENDS GamePeer, FiniteSets, SequencesExt

CONSTANTS
    Server,             \* the process on the known port
    MaxDials,           \* bound on the calls of connect of a client
    MaxSends,           \* bound on the calls of send on each end of a connection
    Long,               \* the processes whose datagrams are longer than the receive buffer
    Kinds,              \* the kinds of stream the applications create
    Creators,           \* the processes whose application creates streams
    Closers,            \* the processes whose application closes streams
    ByName,             \* the clients that may dial a host name, not an address
    Quitters,           \* the processes whose application calls shutdown
    MaxFaults,          \* bound on duplicates, new addresses and restarts taken together
    BindMayFail         \* whether UdpSocket::bind may return an error

Clients == Peers \ {Server}

ASSUME UdpAssumption ==
    /\ Server \in Peers
    /\ MaxDials \in Nat /\ MaxSends \in Nat /\ MaxFaults \in Nat
    /\ Long \subseteq Peers /\ Kinds \subseteq Reliability
    /\ Creators \subseteq Peers /\ Closers \subseteq Peers /\ ByName \subseteq Clients
    /\ Quitters \subseteq Peers
    /\ BindMayFail \in BOOLEAN

\* A uuid: the client that made it and the number of its dial.
Conn == Clients \X (1 .. MaxDials)
Ends == Conn \X {"dial", "accept"}

EndOf(p, conn) == <<conn, IF p = Server THEN "accept" ELSE "dial">>
Other(e) == <<e[1], IF e[2] = "dial" THEN "accept" ELSE "dial">>

\* What a Send carries: the stream's handle, the number of the Send on its
\* end, and whether all of the payload is there.
Packet == [stream : StreamId, n : 1 .. MaxSends, whole : BOOLEAN]

\* A process is reached at one address at a time, the server always at the same.
Address == Peers \X (0 .. MaxFaults)
ServerAddress == <<Server, 0>>
Nowhere == <<>>

VARIABLES
    socket,             \* the processes that have a socket
    connections,        \* the backends' maps from uuid to address
    known_streams,      \* the backends' maps from uuid to handles
    dials,              \* the uuids a client has made
    moves,              \* the addresses a process has had before
    net,                \* the datagrams in flight
    faults,             \* the duplicates, new addresses and restarts so far
    sent,               \* history: Sends called on an end
    left                \* history: packets handed to the socket on an end

backendVars == <<socket, connections, known_streams>>
netVars == <<moves, net>>
udpVars == <<backendVars, netVars, dials, faults, sent, left>>
vars == <<peerVars, udpVars>>

Datagram == [from : Address, to : Address, conn : Conn, packet : Packet]

Commands == [p \in Peers |-> Command(Conn, Packet)]
Events == [p \in Peers |-> Event(Conn, Packet)]

\* Every queue, map and datagram holds what it may.
TypeOK ==
    /\ PeerTypeOK(Commands, Events)
    /\ socket \subseteq Peers
    /\ connections \in [Peers -> [Conn -> Address \cup {Nowhere}]]
    /\ known_streams \in [Peers -> [Conn -> SUBSET StreamId]]
    /\ dials \in [Clients -> 0 .. MaxDials]
    /\ moves \in [Peers -> 0 .. MaxFaults]
    /\ net \subseteq Datagram
    /\ faults \in 0 .. MaxFaults
    /\ sent \in [Ends -> 0 .. MaxSends]
    /\ left \in [Ends -> SUBSET Packet]

Init ==
    /\ PeerInit
    /\ socket = {}
    /\ connections = [p \in Peers |-> [x \in Conn |-> Nowhere]]
    /\ known_streams = [p \in Peers |-> [x \in Conn |-> {}]]
    /\ dials = [c \in Clients |-> 0]
    /\ moves = [p \in Peers |-> 0]
    /\ net = {}
    /\ faults = 0
    /\ sent = [e \in Ends |-> 0]
    /\ left = [e \in Ends |-> {}]

-------------------------------------------------------------------------------
(* The applications *)

AppListen ==
    /\ ~Contains(cmds[Server], BindCmd) /\ Server \notin socket
    /\ Listen(Server)
    /\ UNCHANGED udpVars

Dialing(c) == Cardinality({i \in DOMAIN cmds[c] : cmds[c][i] = ConnectCmd})

AppDial(c) ==
    /\ dials[c] + Dialing(c) < MaxDials
    /\ Dial(c)
    /\ UNCHANGED udpVars

AppCreateStream(p, conn, reliability) ==
    /\ p \in Creators
    /\ CreateStream(p, conn, reliability)
    /\ UNCHANGED udpVars

AppCloseStream(p, conn, stream) ==
    /\ p \in Closers
    /\ CloseStream(p, conn, stream)
    /\ UNCHANGED udpVars

AppSend(p, conn, stream) ==
    LET e == EndOf(p, conn) IN
    /\ sent[e] < MaxSends
    /\ Send(p, conn, [stream |-> stream, n |-> sent[e] + 1, whole |-> TRUE])
    /\ sent' = [sent EXCEPT ![e] = @ + 1]
    /\ UNCHANGED <<backendVars, netVars, dials, faults, left>>

AppPoll(p) == Poll(p) /\ UNCHANGED udpVars

AppShutdown(p) == p \in Quitters /\ Shutdown(p) /\ UNCHANGED udpVars

AppJoin(p) == Join(p) /\ UNCHANGED udpVars

-------------------------------------------------------------------------------
(* The backend's commands *)

\* The loop takes the command at the head of the queue, and changes no more
\* of the shared state than the action says.
HandlesQuietly(p, type) ==
    /\ Receives(p, type)
    /\ TakeCommand(p)
    /\ UNCHANGED <<polled, next_stream_id, app, thread, moves, faults, sent>>

\* A socket that is there stays; one that cannot be bound is missed in silence.
GetsSocket(p) ==
    \/ socket' = socket \cup {p}
    \/ BindMayFail /\ UNCHANGED socket

Bind ==
    /\ HandlesQuietly(Server, "Bind")
    /\ GetsSocket(Server)
    /\ UNCHANGED <<events, connections, known_streams, dials, left, net>>

\* Mutant: the connection is announced and not remembered.
ConnectForgets(c) ==
    LET conn == <<c, dials[c] + 1>> IN
    /\ HandlesQuietly(c, "Connect")
    /\ GetsSocket(c)
    /\ dials' = [dials EXCEPT ![c] = @ + 1]
    /\ Emit(c, <<Connected(conn)>>)
    /\ UNCHANGED <<connections, known_streams, left, net>>

\* connect reaches nobody: a new uuid and Connected are all there is to it.
Connect(c) ==
    LET conn == <<c, dials[c] + 1>> IN
    /\ HandlesQuietly(c, "Connect")
    /\ GetsSocket(c)
    /\ dials' = [dials EXCEPT ![c] = @ + 1]
    /\ connections' = [connections EXCEPT ![c][conn] = ServerAddress]
    /\ Emit(c, <<Connected(conn)>>)
    /\ UNCHANGED <<known_streams, left, net>>

\* A host name does not parse as a SocketAddr: no connection and no event.
\* Bound: the attempt counts as a dial.
ConnectByName(c) ==
    /\ HandlesQuietly(c, "Connect") /\ c \in ByName
    /\ GetsSocket(c)
    /\ dials' = [dials EXCEPT ![c] = @ + 1]
    /\ UNCHANGED <<events, connections, known_streams, left, net>>

HeadConn(p) == Head(cmds[p]).conn
HeadPacket(p) == Head(cmds[p]).packet

AddressOf(p) == <<p, moves[p]>>

SendDropped(p) ==
    /\ HandlesQuietly(p, "Send")
    /\ p \notin socket \/ connections[p][HeadConn(p)] = Nowhere
    /\ UNCHANGED <<events, backendVars, dials, left, net>>

Datagrams(p, to) == [from : {AddressOf(p)}, to : {to}, conn : {HeadConn(p)}, packet : {HeadPacket(p)}]

\* Mutant: replies go to the sender of the last datagram of any connection.
SendDatagramToAnyone(p) ==
    /\ HandlesQuietly(p, "Send")
    /\ p \in socket
    /\ \E x \in Conn :
          /\ connections[p][x] # Nowhere
          /\ net' = net \cup Datagrams(p, connections[p][x])
    /\ left' = [left EXCEPT ![EndOf(p, HeadConn(p))] = @ \cup {HeadPacket(p)}]
    /\ UNCHANGED <<events, backendVars, dials>>

SendDatagram(p) ==
    LET to == connections[p][HeadConn(p)] IN
    /\ HandlesQuietly(p, "Send")
    /\ p \in socket /\ to # Nowhere
    /\ net' = net \cup Datagrams(p, to)
    /\ left' = [left EXCEPT ![EndOf(p, HeadConn(p))] = @ \cup {HeadPacket(p)}]
    /\ UNCHANGED <<events, backendVars, dials>>

\* create_stream and close_stream are answered from the command alone: the
\* backend does not note the stream as known.
BackendCreateStream(p) ==
    LET cmd == Head(cmds[p]) IN
    /\ HandlesQuietly(p, "CreateStream")
    /\ Emit(p, <<StreamCreated(cmd.conn, NewStream(cmd.index, cmd.reliability))>>)
    /\ UNCHANGED <<backendVars, dials, left, net>>

BackendCloseStream(p) ==
    /\ HandlesQuietly(p, "CloseStream")
    /\ Emit(p, <<StreamClosed(HeadConn(p), Head(cmds[p]).stream)>>)
    /\ UNCHANGED <<backendVars, dials, left, net>>

-------------------------------------------------------------------------------
(* A datagram arrives *)

\* Mutant: the header is taken off the length twice, and every payload is cut.
ReceivedShort(d) == [d.packet EXCEPT !.whole = FALSE]

\* A duplicate, a new address or a restart.
Fault == faults < MaxFaults /\ faults' = faults + 1

\* The receive buffer has 2048 bytes, what is beyond is cut off.
Received(d) == [d.packet EXCEPT !.whole = @ /\ d.from[1] \notin Long]

Announcements(p, conn, stream) ==
    (IF connections[p][conn] = Nowhere THEN <<Connected(conn)>> ELSE <<>>)
        \o (IF stream \in known_streams[p][conn] THEN <<>> ELSE <<StreamCreated(conn, stream)>>)

\* Mutant: a datagram from another address is another connection.
ProcessPacketNewAddress(p, d) ==
    /\ connections' = [connections EXCEPT ![p][d.conn] = d.from]
    /\ known_streams' = [known_streams EXCEPT ![p][d.conn] = @ \cup {d.packet.stream}]
    /\ Emit(p, (IF connections[p][d.conn] # d.from THEN <<Connected(d.conn)>> ELSE <<>>)
                   \o Announcements(p, d.conn, d.packet.stream)
                   \o <<Message(d.conn, Received(d))>>)

\* A connection follows its last datagram, wherever it came from and however
\* old it is.
ProcessPacket(p, d) ==
    /\ connections' = [connections EXCEPT ![p][d.conn] = d.from]
    /\ known_streams' = [known_streams EXCEPT ![p][d.conn] = @ \cup {d.packet.stream}]
    /\ Emit(p, Announcements(p, d.conn, d.packet.stream) \o <<Message(d.conn, Received(d))>>)

\* The loop receives a datagram, which may come again.
Receive(p, d) ==
    /\ thread[p] = "running" /\ p \in socket /\ d.to = AddressOf(p)
    /\ ProcessPacket(p, d)
    /\ \/ net' = net \ {d} /\ UNCHANGED faults
       \/ Fault /\ UNCHANGED net
    /\ UNCHANGED <<cmds, polled, next_stream_id, app, thread, socket, dials, moves, sent,
                   left>>

-------------------------------------------------------------------------------
(* The end of a backend, the restart of the server, a client that moves *)

Stop(p) ==
    /\ ThreadExits(p)
    /\ socket' = socket \ {p}
    /\ connections' = [connections EXCEPT ![p] = [x \in Conn |-> Nowhere]]
    /\ known_streams' = [known_streams EXCEPT ![p] = [x \in Conn |-> {}]]
    /\ UNCHANGED <<dials, netVars, sent, left>>

BackendShutdown(p) ==
    /\ Receives(p, "Shutdown")
    /\ Stop(p)
    /\ UNCHANGED <<events, polled, next_stream_id, app, faults>>

\* The server's process dies, whatever it was doing, and starts again: all
\* that it knew is gone, and the clients are not told.
Restart ==
    /\ Fault
    /\ cmds' = [cmds EXCEPT ![Server] = <<>>]
    /\ events' = [events EXCEPT ![Server] = <<>>]
    /\ polled' = [polled EXCEPT ![Server] = 0]
    /\ next_stream_id' = [next_stream_id EXCEPT ![Server] = 0]
    /\ app' = [app EXCEPT ![Server] = "running"]
    /\ thread' = [thread EXCEPT ![Server] = "running"]
    /\ socket' = socket \ {Server}
    /\ connections' = [connections EXCEPT ![Server] = [x \in Conn |-> Nowhere]]
    /\ known_streams' = [known_streams EXCEPT ![Server] = [x \in Conn |-> {}]]
    /\ UNCHANGED <<dials, netVars, sent, left>>

\* What is on its way to the old address is lost.
Move(c) ==
    /\ Fault
    /\ moves' = [moves EXCEPT ![c] = @ + 1]
    /\ UNCHANGED <<peerVars, backendVars, net, dials, sent, left>>

-------------------------------------------------------------------------------
AppAction ==
    \/ AppListen
    \/ \E c \in Clients : AppDial(c)
    \/ \E p \in Peers, conn \in Conn, r \in Kinds : AppCreateStream(p, conn, r)
    \/ \E p \in Peers, conn \in Conn : \E stream \in KnownStreams(p, conn) :
          AppCloseStream(p, conn, stream) \/ AppSend(p, conn, stream)
    \/ \E p \in Peers : AppPoll(p) \/ AppShutdown(p) \/ AppJoin(p)

\* process_command
HandleCommand(p) ==
    \/ p = Server /\ Bind
    \/ p \in Clients /\ (Connect(p) \/ ConnectByName(p))
    \/ SendDropped(p) \/ SendDatagram(p)
    \/ BackendCreateStream(p) \/ BackendCloseStream(p) \/ BackendShutdown(p)

Next ==
    \/ AppAction
    \/ \E p \in Peers : HandleCommand(p)
    \/ \E p \in Peers, d \in net : Receive(p, d)
    \/ Restart
    \/ \E c \in Clients : Move(c)

Spec == Init /\ [][Next]_vars

-------------------------------------------------------------------------------
(* Safety *)

PartyOf(p, conn) == p = Server \/ p = conn[1]

\* The process at the other end of the connection.
Peer(p, conn) == IF p = Server THEN conn[1] ELSE Server

(***************************************************************************)
(* Nobody hears of a connection it is not part of: a client's application  *)
(* and a client's address are reached only by the connections it dialed,   *)
(* although the server learns every address from the datagrams.            *)
(***************************************************************************)
OnlyOwnConnections ==
    /\ \A d \in net : PartyOf(d.to[1], d.conn)
    /\ \A p \in Peers : \A i \in DOMAIN events[p] : PartyOf(p, events[p][i].conn)

(***************************************************************************)
(* Every message an application gets on a connection is a packet the other *)
(* end sent on that connection, on the stream it was sent on, through      *)
(* duplicates, delays, moves and restarts; and nothing of it is missing,   *)
(* unless it is longer than the buffer it is received in.                  *)
(***************************************************************************)
DeliveredWasSent ==
    \A p \in Peers : \A i \in DOMAIN events[p] : events[p][i].type = "Message" =>
        \E m \in left[Other(EndOf(p, events[p][i].conn))] :
            \/ events[p][i].packet = m
            \/ Peer(p, events[p][i].conn) \in Long /\ events[p][i].packet = [m EXCEPT !.whole = FALSE]

Times(p, event) == Cardinality({i \in DOMAIN events[p] : events[p][i] = event})

\* The datagrams announce a stream once; a second announcement only answers
\* the process's own create_stream.
AnnouncedOnce ==
    \A p \in Peers : \A event \in ToSet(events[p]) : event.type = "StreamCreated" =>
        Times(p, event) <= IF Created(p, event.stream) THEN 2 ELSE 1

(***************************************************************************)
(* An application hears of a connection once and first, whether it dialed  *)
(* or a datagram was the first to tell, and of every stream before its     *)
(* first message and once, through duplicates, moves and a restart.        *)
(***************************************************************************)
EventsInOrder == ConnectedOnceAndFirst /\ MessagesAnnounced /\ AnnouncedOnce

(***************************************************************************)
(* A Send never meets a backend that does not know its connection: what an *)
(* application has heard of, its backend knows, also after a restart.      *)
(***************************************************************************)
SendsFindConnection ==
    \A p \in Peers : \A i \in DOMAIN cmds[p] : cmds[p][i].type = "Send" =>
        connections[p][cmds[p][i].conn] # Nowhere

===============================================================================
