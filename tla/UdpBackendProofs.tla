--------------------------- MODULE UdpBackendProofs ---------------------------
(***************************************************************************)
(* Theorems about UdpBackend, for any number of clients, dials, sends and  *)
(* faults: whatever the network loses, repeats, delays or moves, nobody    *)
(* hears of a connection of others, nobody gets what was not sent, a send  *)
(* finds its connection, and events come in order and no more than once.   *)
(***************************************************************************)
EXTENDS UdpBackend, GamePeerProofs

-------------------------------------------------------------------------------
(* Connections, commands and events *)

LEMMA ConnFacts ==
    ASSUME NEW p \in Peers, NEW x \in Conn
    PROVE  /\ EndOf(p, x) \in Ends /\ Other(EndOf(p, x)) \in Ends
           /\ x[1] \in Peers /\ x[1] \in Clients /\ x[1] # Server /\ Peer(p, x) \in Peers
BY UdpAssumption DEF Conn, Ends, EndOf, Other, Clients, Peer

\* The two ends of a connection and the processes that have them.
LEMMA PartyFacts ==
    ASSUME NEW p \in Peers, NEW x \in Conn, PartyOf(p, x)
    PROVE  /\ PartyOf(Peer(p, x), x) /\ Peer(Peer(p, x), x) = p
           /\ Other(EndOf(p, x)) = EndOf(Peer(p, x), x)
BY ConnFacts DEF PartyOf, Peer, Other, EndOf

LEMMA CommandTypes ==
    ASSUME NEW p \in Peers
    PROVE  /\ {BindCmd, ConnectCmd, ShutdownCmd} \subseteq Commands[p]
           /\ \A x \in Conn, m \in Packet : SendCmd(x, m) \in Commands[p]
           /\ \A x \in Conn, i \in StreamId, r \in Reliability :
                  CreateStreamCmd(x, i, r) \in Commands[p]
           /\ \A x \in Conn, s \in StreamId : CloseStreamCmd(x, s) \in Commands[p]
BY DEF Commands, Command

LEMMA CommandParts ==
    ASSUME NEW p \in Peers, NEW cmd \in Commands[p]
    PROVE  /\ cmd.type = "Send" => cmd.conn \in Conn /\ cmd.packet \in Packet
           /\ cmd.type = "CreateStream" =>
                  cmd.conn \in Conn /\ cmd.index \in StreamId /\ cmd.reliability \in Reliability
           /\ cmd.type = "CloseStream" => cmd.conn \in Conn /\ cmd.stream \in StreamId
           /\ cmd.type = "Connect" => cmd = ConnectCmd
BY DEF Commands, Command, BindCmd, ConnectCmd, ShutdownCmd, SendCmd, CreateStreamCmd, CloseStreamCmd

LEMMA EventTypes ==
    ASSUME NEW p \in Peers
    PROVE  /\ \A x \in Conn : Connected(x) \in Events[p]
           /\ \A x \in Conn, m \in Packet : Message(x, m) \in Events[p]
           /\ \A x \in Conn, s \in StreamId :
                  StreamCreated(x, s) \in Events[p] /\ StreamClosed(x, s) \in Events[p]
BY DEF Events, Event

LEMMA EventParts ==
    ASSUME NEW p \in Peers, NEW x \in Events[p]
    PROVE  /\ x.type = "StreamCreated" => x.stream \in StreamId
           /\ x.type = "Message" => x.conn \in Conn /\ x.packet \in Packet
BY DEF Events, Event, Connected, Disconnected, ConnectError, Message, StreamCreated, StreamClosed

\* What an application has seen was told it.
LEMMA SeenIsTold ==
    ASSUME EventsTypeOK(Events), NEW p \in Peers, NEW x \in Seen(p)
    PROVE  x \in Told(p) /\ x \in Events[p]
BY SeenTold

LEMMA KnownStreamsType ==
    ASSUME EventsTypeOK(Events), NEW p \in Peers, NEW x
    PROVE  KnownStreams(p, x) \subseteq StreamId
BY SeenIsTold, EventParts DEF KnownStreams

LEMMA HandleType ==
    ASSUME NEW i \in StreamId, NEW r \in Reliability
    PROVE  NewStream(i, r) \in StreamId
BY HandleParts DEF StreamId, IdSpace

LEMMA ReceivedType ==
    ASSUME NEW d \in Datagram
    PROVE  /\ Received(d) \in Packet /\ d.packet \in Packet /\ d.conn \in Conn
           /\ d.from \in Address /\ d.to \in Address
BY DEF Datagram, Received, Packet

-------------------------------------------------------------------------------
(* The parts of TypeOK and what the steps share                            *)

BackendTypeOK ==
    /\ socket \subseteq Peers
    /\ connections \in [Peers -> [Conn -> Address \cup {Nowhere}]]
    /\ known_streams \in [Peers -> [Conn -> SUBSET StreamId]]

NetTypeOK ==
    /\ moves \in [Peers -> 0 .. MaxFaults]
    /\ net \subseteq Datagram
    /\ faults \in 0 .. MaxFaults

HistoryTypeOK ==
    /\ dials \in [Clients -> 0 .. MaxDials]
    /\ sent \in [Ends -> 0 .. MaxSends]
    /\ left \in [Ends -> SUBSET Packet]

\* A client's dials, and those it has asked for, are within the bound.
DialsWithin(c) == dials[c] + Count(cmds[c], {ConnectCmd}) <= MaxDials

DialsBounded == \A c \in Clients : DialsWithin(c)

\* A client has moved no more often than there were faults.
MovesBounded == \A p \in Peers : moves[p] <= faults

TypeInv == TypeOK /\ DialsBounded /\ MovesBounded

LEMMA TypeParts ==
    /\ TypeOK <=> PeerTypeOK(Commands, Events) /\ BackendTypeOK /\ NetTypeOK /\ HistoryTypeOK
    /\ TypeOK' <=> /\ PeerTypeOK(Commands, Events)' /\ BackendTypeOK' /\ NetTypeOK'
                   /\ HistoryTypeOK'
BY DEF TypeOK, BackendTypeOK, NetTypeOK, HistoryTypeOK

LEMMA SameBackend == BackendTypeOK /\ UNCHANGED backendVars => BackendTypeOK'
BY DEF BackendTypeOK, backendVars

LEMMA SameNet == NetTypeOK /\ UNCHANGED <<netVars, faults>> => NetTypeOK'
BY DEF NetTypeOK, netVars

LEMMA SameHistory == HistoryTypeOK /\ UNCHANGED <<dials, sent, left>> => HistoryTypeOK'
BY DEF HistoryTypeOK

LEMMA SameUdp ==
    BackendTypeOK /\ NetTypeOK /\ HistoryTypeOK /\ UNCHANGED udpVars
        => BackendTypeOK' /\ NetTypeOK' /\ HistoryTypeOK'
BY SameBackend, SameNet, SameHistory DEF udpVars

\* A call of the application queues one command more.
LEMMA CallType ==
    ASSUME PeerTypeOK(Commands, Events), NEW p \in Peers, NEW cmd \in Commands[p],
           SendCommand(p, cmd), UNCHANGED <<events, polled>>, ThreadsTypeOK'
    PROVE  PeerTypeOK(Commands, Events)'
BY SendCommandType, UnchangedEventsType DEF PeerTypeOK

\* A command of the backend.
LEMMA QuietType ==
    ASSUME PeerTypeOK(Commands, Events), NEW p \in Peers, NEW type, HandlesQuietly(p, type)
    PROVE  /\ CommandsTypeOK(Commands)' /\ ThreadsTypeOK' /\ UNCHANGED polled
           /\ UNCHANGED <<moves, faults, sent>>
           /\ Head(cmds[p]) \in Commands[p] /\ Head(cmds[p]).type = type
           /\ cmds[p] # <<>> /\ Head(cmds[p]) \in Queued(p)
BY TakeCommandType, HeadCommandType, UnchangedThreadsType, HeadQueued
   DEF PeerTypeOK, HandlesQuietly, Receives

LEMMA SamePeerType ==
    ASSUME PeerTypeOK(Commands, Events), UNCHANGED peerVars
    PROVE  PeerTypeOK(Commands, Events)'
BY UnchangedCommandsType, UnchangedEventsType, UnchangedThreadsType DEF PeerTypeOK, peerVars

LEMMA EmitOneType ==
    ASSUME PeerTypeOK(Commands, Events), NEW p \in Peers, NEW x \in Events[p],
           Emit(p, <<x>>), UNCHANGED polled
    PROVE  EventsTypeOK(Events)'
BY OneType, EmitType DEF PeerTypeOK

-------------------------------------------------------------------------------
(* Type correctness *)

LEMMA AppType ==
    ASSUME TypeOK, AppAction
    PROVE  TypeOK'
<1> USE TypeParts
<1>1. CASE AppListen
  <2>1. /\ SendCommand(Server, BindCmd) /\ Server \in Peers /\ BindCmd \in Commands[Server]
        /\ UNCHANGED udpVars /\ UNCHANGED <<events, polled, next_stream_id, app, thread>>
    BY <1>1, UdpAssumption, CommandTypes DEF AppListen, Listen
  <2>. QED
    BY <2>1, CallType, UnchangedThreadsType, SameUdp DEF PeerTypeOK
<1>2. ASSUME NEW c \in Clients, AppDial(c) PROVE TypeOK'
  <2>1. /\ SendCommand(c, ConnectCmd) /\ c \in Peers /\ ConnectCmd \in Commands[c]
        /\ UNCHANGED udpVars /\ UNCHANGED <<events, polled, next_stream_id, app, thread>>
    BY <1>2, CommandTypes DEF AppDial, Dial, Clients
  <2>. QED
    BY <2>1, CallType, UnchangedThreadsType, SameUdp DEF PeerTypeOK
<1>3. ASSUME NEW p \in Peers, NEW x \in Conn, NEW r \in Kinds, AppCreateStream(p, x, r)
      PROVE  TypeOK'
  <2>1. CreateStream(p, x, r) /\ UNCHANGED udpVars /\ ThreadsTypeOK /\ r \in Reliability
    BY <1>3, UdpAssumption DEF AppCreateStream, PeerTypeOK
  <2>2. /\ next_stream_id'[p] \in StreamId /\ ThreadsTypeOK' /\ UNCHANGED <<events, polled>>
        /\ \/ SendCommand(p, CreateStreamCmd(x, next_stream_id'[p], r))
           \/ UNCHANGED cmds
    BY <2>1, CreateStreamParts
  <2>3. CASE SendCommand(p, CreateStreamCmd(x, next_stream_id'[p], r))
    BY <2>1, <2>2, <2>3, CommandTypes, CallType, SameUdp
  <2>4. CASE UNCHANGED cmds
    BY <2>1, <2>2, <2>4, SameUdp DEF PeerTypeOK, CommandsTypeOK, EventsTypeOK
  <2>. QED
    BY <2>2, <2>3, <2>4
<1>4. ASSUME NEW p \in Peers, NEW x \in Conn, NEW s \in KnownStreams(p, x), AppCloseStream(p, x, s)
      PROVE  TypeOK'
  <2>1. /\ SendCommand(p, CloseStreamCmd(x, s)) /\ CloseStreamCmd(x, s) \in Commands[p]
        /\ UNCHANGED udpVars /\ UNCHANGED <<events, polled, next_stream_id, app, thread>>
    BY <1>4, KnownStreamsType, CommandTypes DEF AppCloseStream, CloseStream, PeerTypeOK
  <2>. QED
    BY <2>1, CallType, UnchangedThreadsType, SameUdp DEF PeerTypeOK
<1>5. ASSUME NEW p \in Peers, NEW x \in Conn, NEW s \in KnownStreams(p, x), AppSend(p, x, s)
      PROVE  TypeOK'
  <2> DEFINE e == EndOf(p, x)
             m == [stream |-> s, n |-> sent[e] + 1, whole |-> TRUE]
  <2>1. e \in Ends /\ s \in StreamId
    BY ConnFacts, KnownStreamsType DEF PeerTypeOK
  <2>2. sent[e] \in 0 .. MaxSends /\ sent[e] < MaxSends /\ MaxSends \in Nat
    BY <1>5, <2>1, UdpAssumption DEF AppSend, HistoryTypeOK
  <2>3. m \in Packet
    BY <2>1, <2>2 DEF Packet
  <2>4. /\ SendCommand(p, SendCmd(x, m)) /\ SendCmd(x, m) \in Commands[p]
        /\ sent' = [sent EXCEPT ![e] = @ + 1]
        /\ UNCHANGED <<backendVars, netVars, dials, faults, left>>
        /\ UNCHANGED <<events, polled, next_stream_id, app, thread>>
    BY <1>5, <2>3, CommandTypes DEF AppSend, Send
  <2>5. HistoryTypeOK'
    BY <2>1, <2>2, <2>4 DEF HistoryTypeOK
  <2>. QED
    BY <2>4, <2>5, CallType, UnchangedThreadsType, SameBackend, SameNet DEF PeerTypeOK
<1>6. ASSUME NEW p \in Peers, AppPoll(p) PROVE TypeOK'
  <2>1. Poll(p) /\ UNCHANGED <<cmds, next_stream_id, app, thread>> /\ UNCHANGED udpVars
    BY <1>6 DEF AppPoll, Poll
  <2>. QED
    BY <2>1, PollType, UnchangedCommandsType, UnchangedThreadsType, SameUdp DEF PeerTypeOK
<1>7. ASSUME NEW p \in Peers, AppShutdown(p) PROVE TypeOK'
  <2>1. /\ SendCommand(p, ShutdownCmd) /\ app' = [app EXCEPT ![p] = "joining"]
        /\ UNCHANGED <<events, polled, next_stream_id, thread>> /\ UNCHANGED udpVars
    BY <1>7 DEF AppShutdown, Shutdown
  <2>2. ThreadsTypeOK' /\ ShutdownCmd \in Commands[p]
    BY <2>1, CommandTypes DEF PeerTypeOK, ThreadsTypeOK
  <2>. QED
    BY <2>1, <2>2, CallType, SameUdp
<1>8. ASSUME NEW p \in Peers, AppJoin(p) PROVE TypeOK'
  <2>1. /\ app' = [app EXCEPT ![p] = "joined"]
        /\ UNCHANGED <<cmds, events, polled, next_stream_id, thread>> /\ UNCHANGED udpVars
    BY <1>8 DEF AppJoin, Join
  <2>2. ThreadsTypeOK'
    BY <2>1 DEF PeerTypeOK, ThreadsTypeOK
  <2>. QED
    BY <2>1, <2>2, UnchangedCommandsType, UnchangedEventsType, SameUdp DEF PeerTypeOK
<1>. QED
  BY <1>1, <1>2, <1>3, <1>4, <1>5, <1>6, <1>7, <1>8 DEF AppAction

\* A dial has a number within the bound.
LEMMA DialNumber ==
    ASSUME TypeInv, NEW c \in Clients, HandlesQuietly(c, "Connect")
    PROVE  /\ dials[c] + 1 \in 1 .. MaxDials /\ <<c, dials[c] + 1>> \in Conn
           /\ dials[c] + 1 + Count(Tail(cmds[c]), {ConnectCmd}) <= MaxDials
           /\ cmds'[c] = Tail(cmds[c])
<1>1. /\ c \in Peers /\ cmds[c] \in Seq(Commands[c]) /\ cmds[c] # <<>> /\ dials[c] \in Nat
      /\ MaxDials \in Nat /\ DOMAIN cmds = Peers
  BY UdpAssumption
  DEF TypeInv, TypeOK, PeerTypeOK, CommandsTypeOK, HandlesQuietly, Receives, Clients
<1>2. Head(cmds[c]) = ConnectCmd
  BY <1>1, QuietType, CommandParts DEF TypeInv, TypeOK
<1>3. Count(cmds[c], {ConnectCmd}) = Count(Tail(cmds[c]), {ConnectCmd}) + 1
  BY <1>1, <1>2, CountTail
<1>4. Count(Tail(cmds[c]), {ConnectCmd}) \in Nat
  BY <1>1, HeadTailProperties, CountType
<1>5. dials[c] + Count(cmds[c], {ConnectCmd}) <= MaxDials
  BY DEF TypeInv, DialsBounded, DialsWithin
<1>6. cmds'[c] = Tail(cmds[c])
  BY <1>1 DEF HandlesQuietly, TakeCommand
<1>. QED
  BY <1>1, <1>3, <1>4, <1>5, <1>6 DEF Conn

LEMMA CommandType ==
    ASSUME TypeInv, NEW p \in Peers, HandleCommand(p), ~BackendShutdown(p)
    PROVE  TypeOK'
<1> USE TypeParts DEF TypeInv
<1>1. CASE p = Server /\ Bind
  <2>1. /\ HandlesQuietly(p, "Bind") /\ socket' \subseteq socket \cup {p}
        /\ UNCHANGED <<events, connections, known_streams, dials, left, net>>
    BY <1>1 DEF Bind, GetsSocket
  <2>2. BackendTypeOK'
    BY <2>1 DEF BackendTypeOK
  <2>. QED
    BY <2>1, <2>2, QuietType, UnchangedEventsType, SameNet, SameHistory DEF PeerTypeOK, netVars
<1>2. CASE p \in Clients /\ Connect(p)
  <2> DEFINE x == <<p, dials[p] + 1>>
  <2>1. /\ HandlesQuietly(p, "Connect") /\ socket' \subseteq socket \cup {p}
        /\ dials' = [dials EXCEPT ![p] = @ + 1]
        /\ connections' = [connections EXCEPT ![p][x] = ServerAddress]
        /\ Emit(p, <<Connected(x)>>)
        /\ UNCHANGED <<known_streams, left, net>>
    BY <1>2 DEF Connect, GetsSocket
  <2>2. x \in Conn /\ dials[p] + 1 \in 0 .. MaxDials /\ ServerAddress \in Address
    BY <1>2, <2>1, DialNumber, UdpAssumption DEF ServerAddress, Address
  <2>3. EventsTypeOK(Events)'
    BY <2>1, <2>2, QuietType, EmitOneType, EventTypes
  <2> HIDE DEF x
  <2>4. BackendTypeOK'
    BY <2>1, <2>2 DEF BackendTypeOK
  <2>5. HistoryTypeOK'
    BY <1>2, <2>1, <2>2, QuietType DEF HistoryTypeOK
  <2>. QED
    BY <2>1, <2>3, <2>4, <2>5, QuietType, SameNet DEF PeerTypeOK, netVars
<1>3. CASE p \in Clients /\ ConnectByName(p)
  <2>1. /\ HandlesQuietly(p, "Connect") /\ socket' \subseteq socket \cup {p}
        /\ dials' = [dials EXCEPT ![p] = @ + 1]
        /\ UNCHANGED <<events, connections, known_streams, left, net>>
    BY <1>3 DEF ConnectByName, GetsSocket
  <2>2. dials[p] + 1 \in 1 .. MaxDials
    BY <1>3, <2>1, DialNumber
  <2>3. BackendTypeOK' /\ HistoryTypeOK'
    BY <1>3, <2>1, <2>2, QuietType DEF BackendTypeOK, HistoryTypeOK
  <2>. QED
    BY <2>1, <2>3, QuietType, UnchangedEventsType, SameNet DEF PeerTypeOK, netVars
<1>4. CASE SendDropped(p)
  <2>1. HandlesQuietly(p, "Send") /\ UNCHANGED <<events, backendVars, dials, left, net>>
    BY <1>4 DEF SendDropped
  <2>. QED
    BY <2>1, QuietType, UnchangedEventsType, SameBackend, SameNet, SameHistory
       DEF PeerTypeOK, netVars
<1>5. CASE SendDatagram(p)
  <2> DEFINE x == HeadConn(p)
             m == HeadPacket(p)
             to == connections[p][x]
  <2>1. /\ HandlesQuietly(p, "Send") /\ to # Nowhere
        /\ net' = net \cup Datagrams(p, to)
        /\ left' = [left EXCEPT ![EndOf(p, x)] = @ \cup {m}]
        /\ UNCHANGED <<events, backendVars, dials>>
    BY <1>5 DEF SendDatagram
  <2>2. x \in Conn /\ m \in Packet
    BY <2>1, QuietType, CommandParts DEF HeadConn, HeadPacket
  <2>3. to \in Address /\ AddressOf(p) \in Address /\ EndOf(p, x) \in Ends
    BY <2>1, <2>2, ConnFacts DEF BackendTypeOK, NetTypeOK, AddressOf, Address
  <2>4. Datagrams(p, to) \subseteq Datagram
    BY <2>2, <2>3 DEF Datagrams, Datagram
  <2>5. NetTypeOK'
    BY <2>1, <2>4, QuietType DEF NetTypeOK
  <2> HIDE DEF x, m, to
  <2>6. HistoryTypeOK'
    BY <2>1, <2>2, <2>3, QuietType DEF HistoryTypeOK
  <2>. QED
    BY <2>1, <2>5, <2>6, QuietType, UnchangedEventsType, SameBackend DEF PeerTypeOK
<1>6. CASE BackendCreateStream(p) \/ BackendCloseStream(p)
  <2>1. PICK type \in {"CreateStream", "CloseStream"}, news \in Events[p] :
            /\ HandlesQuietly(p, type) /\ Emit(p, <<news>>)
            /\ UNCHANGED <<backendVars, dials, left, net>>
    BY <1>6, QuietType, CommandParts, HandleType, EventTypes
       DEF BackendCreateStream, BackendCloseStream, HeadConn
  <2>. QED
    BY <2>1, QuietType, EmitOneType, SameBackend, SameNet, SameHistory DEF PeerTypeOK, netVars
<1>. QED
  BY <1>1, <1>2, <1>3, <1>4, <1>5, <1>6 DEF HandleCommand

LEMMA StopType ==
    ASSUME TypeOK, NEW p \in Peers, BackendShutdown(p)
    PROVE  TypeOK'
<1>1. /\ ThreadExits(p) /\ thread' = [thread EXCEPT ![p] = "exited"]
      /\ socket' = socket \ {p}
      /\ connections' = [connections EXCEPT ![p] = [x \in Conn |-> Nowhere]]
      /\ known_streams' = [known_streams EXCEPT ![p] = [x \in Conn |-> {}]]
      /\ UNCHANGED <<dials, netVars, sent, left, events, polled, next_stream_id, app, faults>>
  BY DEF BackendShutdown, Stop, ThreadExits
<1>2. BackendTypeOK'
  BY <1>1, TypeParts DEF BackendTypeOK
<1>3. ThreadsTypeOK'
  BY <1>1 DEF TypeOK, PeerTypeOK, ThreadsTypeOK
<1>. QED
  BY <1>1, <1>2, <1>3, TypeParts, ThreadExitsType, UnchangedEventsType, SameNet, SameHistory
     DEF PeerTypeOK

\* What a datagram makes the backend tell its application.
NewsOf(p, d) == Announcements(p, d.conn, d.packet.stream) \o <<Message(d.conn, Received(d))>>

LEMMA NewsIn ==
    ASSUME NEW p \in Peers, NEW d \in Datagram, NEW S,
           Connected(d.conn) \in S, StreamCreated(d.conn, d.packet.stream) \in S,
           Message(d.conn, Received(d)) \in S
    PROVE  NewsOf(p, d) \in Seq(S)
<1>1. ASSUME NEW y \in S PROVE <<y>> \in Seq(S)
  BY OneType
<1>2. <<>> \in Seq(S)
  BY EmptySeq
<1>3. Announcements(p, d.conn, d.packet.stream) \in Seq(S)
  BY <1>1, <1>2, ConcatProperties DEF Announcements
<1>. QED
  BY <1>1, <1>3, ConcatProperties DEF NewsOf

LEMMA ReceiveType ==
    ASSUME TypeOK, NEW p \in Peers, NEW d \in net, Receive(p, d)
    PROVE  TypeOK'
<1>1. /\ connections' = [connections EXCEPT ![p][d.conn] = d.from]
      /\ known_streams' = [known_streams EXCEPT ![p][d.conn] = @ \cup {d.packet.stream}]
      /\ Emit(p, NewsOf(p, d)) /\ net' \subseteq net
      /\ faults' = faults \/ (faults < MaxFaults /\ faults' = faults + 1)
      /\ UNCHANGED <<cmds, polled, next_stream_id, app, thread, socket, dials, moves, sent, left>>
  BY DEF Receive, ProcessPacket, NewsOf, Fault
<1>2. d \in Datagram /\ d.packet.stream \in StreamId
  BY DEF TypeOK, Datagram, Packet
<1>3. NewsOf(p, d) \in Seq(Events[p])
  BY <1>2, NewsIn, ReceivedType, EventTypes
<1>4. PeerTypeOK(Commands, Events)'
  BY <1>1, <1>3, EmitType, UnchangedCommandsType, UnchangedThreadsType DEF TypeOK, PeerTypeOK
<1>5. BackendTypeOK'
  BY <1>1, <1>2, ReceivedType DEF TypeOK, BackendTypeOK
<1>6. NetTypeOK'
  BY <1>1, UdpAssumption DEF TypeOK, NetTypeOK
<1>. QED
  BY <1>1, <1>4, <1>5, <1>6, TypeParts, SameHistory

LEMMA RestartType ==
    ASSUME TypeOK, Restart
    PROVE  TypeOK'
<1>1. /\ faults < MaxFaults /\ faults' = faults + 1
      /\ cmds' = [cmds EXCEPT ![Server] = <<>>] /\ events' = [events EXCEPT ![Server] = <<>>]
      /\ polled' = [polled EXCEPT ![Server] = 0]
      /\ next_stream_id' = [next_stream_id EXCEPT ![Server] = 0]
      /\ app' = [app EXCEPT ![Server] = "running"]
      /\ thread' = [thread EXCEPT ![Server] = "running"]
  BY DEF Restart, Fault
<1>2. /\ socket' = socket \ {Server}
      /\ connections' = [connections EXCEPT ![Server] = [x \in Conn |-> Nowhere]]
      /\ known_streams' = [known_streams EXCEPT ![Server] = [x \in Conn |-> {}]]
      /\ UNCHANGED <<dials, netVars, sent, left>>
  BY DEF Restart
<1>3. <<>> \in Seq(Commands[Server]) /\ <<>> \in Seq(Events[Server]) /\ Len(<<>>) = 0
  BY EmptySeq
<1>4. CommandsTypeOK(Commands) /\ EventsTypeOK(Events) /\ ThreadsTypeOK
  BY DEF TypeOK, PeerTypeOK
<1>5. CommandsTypeOK(Commands)'
  BY <1>1, <1>3, <1>4 DEF CommandsTypeOK
<1>6. EventsTypeOK(Events)'
  <2>1. /\ DOMAIN events' = Peers /\ polled' \in [Peers -> Nat]
        /\ \A q \in Peers \ {Server} : events'[q] = events[q] /\ polled'[q] = polled[q]
        /\ events'[Server] = <<>> /\ polled'[Server] = 0
    BY <1>1, <1>4, UdpAssumption DEF EventsTypeOK
  <2>2. ASSUME NEW q \in Peers
        PROVE  events'[q] \in Seq(Events[q]) /\ polled'[q] <= Len(events'[q])
    <3>1. CASE q = Server
      BY <1>3, <2>1, <3>1
    <3>2. CASE q # Server
      BY <1>4, <2>1, <3>2 DEF EventsTypeOK
    <3>. QED
      BY <3>1, <3>2
  <2>. QED
    BY <2>1, <2>2 DEF EventsTypeOK
<1>7. ThreadsTypeOK'
  <2>1. next_stream_id' \in [Peers -> 0 .. MaxStreams]
    <3>1. next_stream_id \in [Peers -> 0 .. MaxStreams] /\ 0 \in 0 .. MaxStreams
      BY <1>4, MaxStreamsAssumption DEF ThreadsTypeOK
    <3>. QED
      BY <1>1, <3>1
  <2>2. app' \in [Peers -> {"running", "joining", "joined", "dead"}]
    BY <1>1, <1>4 DEF ThreadsTypeOK
  <2>3. thread' \in [Peers -> {"running", "exited"}]
    BY <1>1, <1>4 DEF ThreadsTypeOK
  <2>. QED
    BY <2>1, <2>2, <2>3 DEF ThreadsTypeOK
<1>8. BackendTypeOK' /\ NetTypeOK'
  BY <1>1, <1>2, UdpAssumption DEF TypeOK, BackendTypeOK, NetTypeOK, netVars
<1>. QED
  BY <1>2, <1>5, <1>6, <1>7, <1>8, TypeParts, SameHistory DEF PeerTypeOK

LEMMA MoveType ==
    ASSUME TypeInv, NEW c \in Clients, Move(c)
    PROVE  TypeOK'
<1>1. /\ faults < MaxFaults /\ faults' = faults + 1 /\ moves' = [moves EXCEPT ![c] = @ + 1]
      /\ UNCHANGED peerVars /\ UNCHANGED <<backendVars, net, dials, sent, left>>
  BY DEF Move, Fault
<1>2. c \in Peers /\ moves[c] <= faults
  BY DEF TypeInv, MovesBounded, Clients
<1>3. NetTypeOK'
  BY <1>1, <1>2, UdpAssumption DEF TypeInv, TypeOK, NetTypeOK
<1>. QED
  BY <1>1, <1>3, TypeParts, SamePeerType, SameBackend, SameHistory DEF TypeInv

-------------------------------------------------------------------------------
(* The bounds on dials and moves *)

\* The queue of p's commands is shortened, or gets one that is no dial.
DialsNothing(p) ==
    /\ \A q \in Peers \ {p} : cmds'[q] = cmds[q]
    /\ \/ cmds'[p] = cmds[p]
       \/ cmds[p] # <<>> /\ cmds'[p] = Tail(cmds[p])
       \/ cmds'[p] = <<>>
       \/ \E x \in Commands[p] : x # ConnectCmd /\ cmds'[p] = Append(cmds[p], x)

LEMMA DialsFrame ==
    ASSUME TypeOK, DialsBounded, NEW p \in Peers, DialsNothing(p), UNCHANGED dials
    PROVE  DialsBounded'
<1> DEFINE X == {ConnectCmd}
<1>1. /\ dials \in [Clients -> 0 .. MaxDials] /\ MaxDials \in Nat /\ Clients \subseteq Peers
      /\ cmds[p] \in Seq(Commands[p])
  BY UdpAssumption DEF TypeOK, PeerTypeOK, CommandsTypeOK, Clients
<1>2. Count(cmds'[p], X) <= Count(cmds[p], X)
  <2>1. Count(cmds[p], X) \in Nat
    BY <1>1, CountType
  <2>2. ASSUME cmds[p] # <<>>, cmds'[p] = Tail(cmds[p])
        PROVE  Count(cmds'[p], X) <= Count(cmds[p], X)
    <3>1. Tail(cmds[p]) \in Seq(Commands[p])
      BY <1>1, <2>2, HeadTailProperties
    <3>2. Count(cmds'[p], X) \in Nat
      BY <2>2, <3>1, CountType
    <3> HIDE DEF X
    <3>. QED
      BY <1>1, <2>1, <2>2, <3>2, CountTail
  <2>3. ASSUME cmds'[p] = <<>> PROVE Count(cmds'[p], X) <= Count(cmds[p], X)
    BY <2>1, <2>3, CountEmpty
  <2>4. ASSUME NEW x \in Commands[p], x # ConnectCmd, cmds'[p] = Append(cmds[p], x)
        PROVE  Count(cmds'[p], X) <= Count(cmds[p], X)
    <3>1. x \notin X
      BY <2>4
    <3> HIDE DEF X
    <3>. QED
      BY <1>1, <2>1, <2>4, <3>1, CountAppend
  <2> HIDE DEF X
  <2>. QED
    BY <2>1, <2>2, <2>3, <2>4 DEF DialsNothing
<1>3. Count(cmds[p], X) \in Nat /\ Count(cmds'[p], X) \in Nat
  <2>1. cmds[p] # <<>> => Tail(cmds[p]) \in Seq(Commands[p])
    BY <1>1, HeadTailProperties
  <2>2. <<>> \in Seq(Commands[p])
    BY EmptySeq
  <2>3. \A x \in Commands[p] : Append(cmds[p], x) \in Seq(Commands[p])
    BY <1>1, AppendProperties
  <2>4. cmds'[p] \in Seq(Commands[p])
    BY <1>1, <2>1, <2>2, <2>3 DEF DialsNothing
  <2>. QED
    BY <1>1, <2>4, CountType
<1>4. ASSUME NEW c \in Clients PROVE DialsWithin(c)'
  <2>1. DialsWithin(c) /\ dials'[c] = dials[c] /\ dials[c] \in Nat
    BY <1>1 DEF DialsBounded
  <2>2. CASE c = p
    BY <1>1, <1>2, <1>3, <2>1, <2>2 DEF DialsWithin
  <2>3. CASE c # p
    <3>1. cmds'[c] = cmds[c]
      BY <1>1, <2>3 DEF DialsNothing
    <3>. QED
      BY <2>1, <3>1 DEF DialsWithin
  <2>. QED
    BY <2>2, <2>3
<1>. QED
  BY <1>4 DEF DialsBounded

LEMMA CallBounded ==
    ASSUME TypeOK, DialsBounded, NEW p \in Peers, NEW x \in Commands[p], x # ConnectCmd,
           SendCommand(p, x), UNCHANGED dials
    PROVE  DialsBounded'
<1>1. DialsNothing(p)
  BY DEF DialsNothing, SendCommand, TypeOK, PeerTypeOK, CommandsTypeOK
<1>. QED
  BY <1>1, DialsFrame

LEMMA TakeBounded ==
    ASSUME TypeOK, DialsBounded, NEW p \in Peers, cmds[p] # <<>>, TakeCommand(p), UNCHANGED dials
    PROVE  DialsBounded'
<1>1. DialsNothing(p)
  BY DEF DialsNothing, TakeCommand, TypeOK, PeerTypeOK, CommandsTypeOK
<1>. QED
  BY <1>1, DialsFrame

LEMMA ClearBounded ==
    ASSUME TypeOK, DialsBounded, NEW p \in Peers, cmds' = [cmds EXCEPT ![p] = <<>>], UNCHANGED dials
    PROVE  DialsBounded'
<1>1. DialsNothing(p)
  BY DEF DialsNothing, TypeOK, PeerTypeOK, CommandsTypeOK
<1>. QED
  BY <1>1, DialsFrame

\* The same for a command whose type is known afterwards.
LEMMA AppendedBounded ==
    ASSUME TypeOK, TypeOK', DialsBounded, NEW p \in Peers, NEW x, x # ConnectCmd,
           SendCommand(p, x), UNCHANGED dials
    PROVE  DialsBounded'
<1>1. /\ cmds[p] \in Seq(Commands[p]) /\ DOMAIN cmds = Peers
      /\ cmds'[p] \in Seq(Commands[p]) /\ cmds' = [cmds EXCEPT ![p] = Append(@, x)]
  BY DEF TypeOK, PeerTypeOK, CommandsTypeOK, SendCommand
<1>2. cmds'[p] = Append(cmds[p], x)
  BY <1>1
<1>3. x \in Commands[p]
  BY <1>1, <1>2, AppendedElement
<1>. QED
  BY <1>3, CallBounded

LEMMA DialBounded ==
    ASSUME TypeOK, DialsBounded, NEW c \in Clients, AppDial(c)
    PROVE  DialsBounded'
<1> DEFINE X == {ConnectCmd}
<1>1. /\ c \in Peers /\ cmds[c] \in Seq(Commands[c]) /\ ConnectCmd \in Commands[c]
      /\ dials \in [Clients -> 0 .. MaxDials] /\ MaxDials \in Nat /\ DOMAIN cmds = Peers
  BY CommandTypes, UdpAssumption DEF TypeOK, PeerTypeOK, CommandsTypeOK, Clients
<1>2. /\ dials[c] + Dialing(c) < MaxDials /\ UNCHANGED dials
      /\ cmds' = [cmds EXCEPT ![c] = Append(@, ConnectCmd)]
  BY DEF AppDial, Dial, SendCommand, udpVars
<1>3. Dialing(c) = Count(cmds[c], X)
  <2>1. {i \in DOMAIN cmds[c] : cmds[c][i] = ConnectCmd} = At(cmds[c], X)
    BY DEF At
  <2>. QED
    BY <2>1 DEF Dialing, Count
<1>4. Count(cmds[c], X) \in Nat
  BY <1>1, CountType
<1>5. Count(cmds'[c], X) = Count(cmds[c], X) + 1
  BY <1>1, <1>2, CountAppend
<1>6. ASSUME NEW d \in Clients PROVE DialsWithin(d)'
  <2>1. CASE d = c
    BY <1>1, <1>2, <1>3, <1>4, <1>5, <2>1 DEF DialsWithin
  <2>2. CASE d # c
    <3>1. DialsWithin(d) /\ cmds'[d] = cmds[d] /\ dials'[d] = dials[d]
      BY <1>1, <1>2, <2>2 DEF DialsBounded, Clients
    <3>. QED
      BY <3>1 DEF DialsWithin
  <2>. QED
    BY <2>1, <2>2
<1>. QED
  BY <1>6 DEF DialsBounded

LEMMA ConnectBounded ==
    ASSUME TypeInv, NEW c \in Clients, HandlesQuietly(c, "Connect"),
           dials' = [dials EXCEPT ![c] = @ + 1]
    PROVE  DialsBounded'
<1>1. /\ dials \in [Clients -> 0 .. MaxDials] /\ DOMAIN cmds = Peers /\ c \in Peers
      /\ cmds' = [cmds EXCEPT ![c] = Tail(@)]
  BY DEF TypeInv, TypeOK, PeerTypeOK, CommandsTypeOK, Clients, HandlesQuietly, TakeCommand
<1>2. dials[c] + 1 + Count(cmds'[c], {ConnectCmd}) <= MaxDials
  BY DialNumber
<1>3. ASSUME NEW d \in Clients PROVE DialsWithin(d)'
  <2>1. CASE d = c
    BY <1>1, <1>2, <2>1 DEF DialsWithin
  <2>2. CASE d # c
    <3>1. DialsWithin(d) /\ cmds'[d] = cmds[d] /\ dials'[d] = dials[d]
      BY <1>1, <2>2 DEF TypeInv, DialsBounded, Clients
    <3>. QED
      BY <3>1 DEF DialsWithin
  <2>. QED
    BY <2>1, <2>2
<1>. QED
  BY <1>3 DEF DialsBounded

LEMMA AppBounded ==
    ASSUME TypeInv, AppAction
    PROVE  DialsBounded' /\ UNCHANGED <<moves, faults>>
<1> USE DEF TypeInv
<1>1. UNCHANGED <<moves, faults>>
  BY DEF AppAction, AppListen, AppDial, AppCreateStream, AppCloseStream, AppSend, AppPoll,
         AppShutdown, AppJoin, udpVars, netVars
<1>2. CASE \E c \in Clients : AppDial(c)
  BY <1>1, <1>2, DialBounded
<1>3. CASE ~\E c \in Clients : AppDial(c)
  <2>1. UNCHANGED dials
    BY <1>3 DEF AppAction, AppListen, AppCreateStream, AppCloseStream, AppSend, AppPoll,
                AppShutdown, AppJoin, udpVars
  <2>2. TypeOK' /\ \A p \in Peers : UNCHANGED cmds => DialsNothing(p)
    BY AppType DEF DialsNothing
  <2>3. CASE UNCHANGED cmds
    BY <1>1, <2>1, <2>2, <2>3, DialsFrame, UdpAssumption
  <2>4. CASE AppListen
    BY <1>1, <2>1, <2>4, CallBounded, CommandTypes, UdpAssumption
    DEF AppListen, Listen, BindCmd, ConnectCmd
  <2>5. ASSUME NEW p \in Peers, AppShutdown(p) PROVE DialsBounded'
    BY <2>1, <2>5, CallBounded, CommandTypes DEF AppShutdown, Shutdown, ShutdownCmd, ConnectCmd
  <2>6. ASSUME NEW p \in Peers, NEW x \in Conn, NEW r \in Kinds, AppCreateStream(p, x, r)
        PROVE  DialsBounded'
    BY <2>1, <2>2, <2>3, <2>6, AppendedBounded
       DEF AppCreateStream, CreateStream, CreateStreamCmd, ConnectCmd
  <2>7. ASSUME NEW p \in Peers, NEW x \in Conn, NEW s, AppCloseStream(p, x, s)
        PROVE  DialsBounded'
    BY <2>1, <2>2, <2>7, AppendedBounded
       DEF AppCloseStream, CloseStream, CloseStreamCmd, ConnectCmd
  <2>8. ASSUME NEW p \in Peers, NEW x \in Conn, NEW s, AppSend(p, x, s)
        PROVE  DialsBounded'
    BY <2>1, <2>2, <2>8, AppendedBounded DEF AppSend, Send, SendCmd, ConnectCmd
  <2>9. ASSUME NEW p \in Peers, AppPoll(p) \/ AppJoin(p) PROVE UNCHANGED cmds
    BY <2>9 DEF AppPoll, AppJoin, Poll, Join
  <2>. QED
    BY <1>1, <1>3, <2>3, <2>4, <2>5, <2>6, <2>7, <2>8, <2>9 DEF AppAction
<1>. QED
  BY <1>1, <1>2, <1>3

LEMMA BackendBounded ==
    ASSUME TypeInv, NEW p \in Peers, HandleCommand(p)
    PROVE  DialsBounded' /\ UNCHANGED <<moves, faults>>
<1> USE DEF TypeInv
<1>1. UNCHANGED <<moves, faults>>
  BY DEF HandleCommand, Bind, Connect, ConnectByName, SendDropped, SendDatagram,
         BackendCreateStream, BackendCloseStream, BackendShutdown, Stop, HandlesQuietly, netVars
<1>2. CASE p \in Clients /\ (Connect(p) \/ ConnectByName(p))
  BY <1>1, <1>2, ConnectBounded DEF Connect, ConnectByName
<1>3. CASE BackendShutdown(p)
  BY <1>1, <1>3, ClearBounded DEF BackendShutdown, Stop, ThreadExits
<1>4. CASE ~(p \in Clients /\ (Connect(p) \/ ConnectByName(p))) /\ ~BackendShutdown(p)
  <2>1. cmds[p] # <<>> /\ TakeCommand(p) /\ UNCHANGED dials
    BY <1>4 DEF HandleCommand, Bind, SendDropped, SendDatagram, BackendCreateStream,
                BackendCloseStream, HandlesQuietly, Receives
  <2>. QED
    BY <1>1, <2>1, TakeBounded
<1>. QED
  BY <1>1, <1>2, <1>3, <1>4

LEMMA TypeStep == TypeInv /\ [Next]_vars => TypeInv'
<1> SUFFICES ASSUME TypeInv, [Next]_vars PROVE TypeInv'
  OBVIOUS
<1> USE DEF TypeInv
<1>0. \A p \in Peers : UNCHANGED cmds => DialsNothing(p)
  BY DEF DialsNothing
<1>1. MovesBounded /\ UNCHANGED <<moves, faults>> => MovesBounded'
  BY DEF MovesBounded
<1>2. moves \in [Peers -> 0 .. MaxFaults] /\ faults \in 0 .. MaxFaults
  BY DEF TypeOK
<1>3. CASE AppAction
  BY <1>1, <1>3, AppType, AppBounded
<1>4. ASSUME NEW p \in Peers, HandleCommand(p) PROVE TypeInv'
  BY <1>1, <1>4, CommandType, StopType, BackendBounded
<1>5. ASSUME NEW p \in Peers, NEW d \in net, Receive(p, d) PROVE TypeInv'
  <2>1. UNCHANGED <<moves, cmds, dials>> /\ (faults' = faults \/ faults' = faults + 1)
    BY <1>5 DEF Receive, Fault
  <2>2. MovesBounded'
    BY <1>2, <2>1 DEF MovesBounded
  <2>. QED
    BY <1>0, <1>5, <2>1, <2>2, ReceiveType, DialsFrame
<1>6. CASE Restart
  <2>1. UNCHANGED <<moves, dials>> /\ faults' = faults + 1 /\ cmds' = [cmds EXCEPT ![Server] = <<>>]
    BY <1>6 DEF Restart, Fault, netVars
  <2>2. MovesBounded'
    BY <1>2, <2>1 DEF MovesBounded
  <2>. QED
    BY <1>6, <2>1, <2>2, RestartType, ClearBounded, UdpAssumption
<1>7. ASSUME NEW c \in Clients, Move(c) PROVE TypeInv'
  <2>1. /\ UNCHANGED <<cmds, dials>> /\ faults' = faults + 1
        /\ moves' = [moves EXCEPT ![c] = @ + 1]
    BY <1>7 DEF Move, Fault, peerVars
  <2>2. MovesBounded'
    BY <1>2, <2>1 DEF MovesBounded
  <2>. QED
    BY <1>0, <1>7, <2>1, <2>2, MoveType, DialsFrame, UdpAssumption
<1>8. CASE UNCHANGED vars
  <2>1. UNCHANGED peerVars /\ UNCHANGED udpVars /\ UNCHANGED <<cmds, dials, moves, faults>>
    BY <1>8 DEF vars, peerVars, udpVars, netVars
  <2>. QED
    BY <1>0, <1>1, <2>1, TypeParts, SamePeerType, SameUdp, DialsFrame, UdpAssumption
<1>. QED
  BY <1>3, <1>4, <1>5, <1>6, <1>7, <1>8 DEF Next

LEMMA TypeInit == Init => TypeInv
<1> SUFFICES ASSUME Init PROVE TypeInv
  OBVIOUS
<1>1. PeerTypeOK(Commands, Events) /\ BackendTypeOK /\ NetTypeOK /\ HistoryTypeOK
  BY PeerInitType, UdpAssumption DEF Init, BackendTypeOK, NetTypeOK, HistoryTypeOK
<1>2. DialsBounded
  BY CountEmpty, UdpAssumption DEF Init, PeerInit, DialsBounded, DialsWithin, Clients
<1>3. MovesBounded
  BY DEF Init, MovesBounded
<1>. QED
  BY <1>1, <1>2, <1>3, TypeParts DEF TypeInv

\* For any number of clients, dials, sends and faults, every queue, map and
\* datagram holds what it may.
THEOREM TypeTheorem == Spec => []TypeOK
<1>1. TypeInv => TypeOK
  BY DEF TypeInv
<1>. QED
  BY <1>1, TypeInit, TypeStep, PTL DEF Spec

-------------------------------------------------------------------------------
(* Who hears what.  The inductive invariant follows a packet from the       *)
(* command through the datagram to the event, and with it the address the   *)
(* server learns: none of the three properties is inductive without it.     *)

OfConnection == {"Send", "CreateStream", "CloseStream"}

\* A command is about a connection its process is part of, and carries a whole packet.
CommandOK(p, x) ==
    /\ x.type \in OfConnection => PartyOf(p, x.conn)
    /\ x.type = "Send" => x.packet.whole

\* An event is about a connection its process is part of, and a message was sent on it.
EventOK(p, x) ==
    /\ x.conn \in Conn /\ PartyOf(p, x.conn)
    /\ x.type = "Message" =>
          \E m \in left[Other(EndOf(p, x.conn))] :
              m.whole /\ x.packet = [m EXCEPT !.whole = Peer(p, x.conn) \notin Long]

\* A datagram goes from one party of its connection to the other.
DatagramOK(d) ==
    /\ PartyOf(d.to[1], d.conn) /\ d.from[1] = Peer(d.to[1], d.conn)
    /\ d.packet \in left[EndOf(d.from[1], d.conn)] /\ d.packet.whole

\* An address is the other party's.
RouteOK(p, x) == connections[p][x] # Nowhere => PartyOf(p, x) /\ connections[p][x][1] = Peer(p, x)

\* What the application of a process that runs has heard of, the map has.
KnownOK(p, x) ==
    thread[p] = "running" /\ Connected(x) \in Told(p) => connections[p][x] # Nowhere

\* What waits to be sent has a connection.
FoundOK(p, x) == x.type = "Send" => connections[p][x.conn] # Nowhere

ProcessOK(p) ==
    /\ \A x \in Queued(p) : CommandOK(p, x) /\ FoundOK(p, x)
    /\ \A x \in Told(p) : EventOK(p, x)
    /\ \A x \in Conn : RouteOK(p, x) /\ KnownOK(p, x)

PathInv ==
    /\ \A p \in Peers : ProcessOK(p)
    /\ \A d \in net : DatagramOK(d)

\* What was left stays left.
LeftGrows == \A e \in Ends : left[e] \subseteq left'[e]

LEMMA EventStays ==
    ASSUME LeftGrows, NEW p \in Peers, NEW x, EventOK(p, x)
    PROVE  EventOK(p, x)'
BY ConnFacts DEF EventOK, LeftGrows, PartyOf, Peer, EndOf, Other

LEMMA DatagramStays ==
    ASSUME LeftGrows, NEW d \in Datagram, DatagramOK(d)
    PROVE  DatagramOK(d)'
<1>1. d.from[1] \in Peers /\ d.conn \in Conn
  BY DEF Datagram, Address
<1>2. EndOf(d.from[1], d.conn) \in Ends
  BY <1>1, ConnFacts
<1>. QED
  BY <1>2 DEF DatagramOK, LeftGrows, PartyOf, Peer, EndOf

\* A process that a step does not touch.
LEMMA ProcessStays ==
    ASSUME LeftGrows, NEW p \in Peers, ProcessOK(p),
           cmds'[p] = cmds[p], events'[p] = events[p], thread'[p] = thread[p],
           \A x \in Conn : connections'[p][x] = connections[p][x],
           \A x \in Queued(p) : x.type = "Send" => x.conn \in Conn
    PROVE  ProcessOK(p)'
<1>1. Queued(p)' = Queued(p) /\ Told(p)' = Told(p)
  BY DEF Queued, Told, Elems
<1>2. ASSUME NEW x \in Told(p) PROVE EventOK(p, x)'
  BY <1>2, EventStays DEF ProcessOK
<1>3. ASSUME NEW x \in Queued(p) PROVE CommandOK(p, x)' /\ FoundOK(p, x)'
  BY <1>3 DEF ProcessOK, CommandOK, FoundOK, PartyOf
<1>4. ASSUME NEW x \in Conn PROVE RouteOK(p, x)' /\ KnownOK(p, x)'
  BY <1>1, <1>4 DEF ProcessOK, RouteOK, KnownOK, PartyOf, Peer
<1>. QED
  BY <1>1, <1>2, <1>3, <1>4 DEF ProcessOK

\* A step of one process.
LEMMA PathFrame ==
    ASSUME TypeOK, PathInv, LeftGrows, NEW p \in Peers, ProcessOK(p)',
           \A q \in Peers \ {p} :
               /\ cmds'[q] = cmds[q] /\ events'[q] = events[q] /\ thread'[q] = thread[q]
               /\ \A x \in Conn : connections'[q][x] = connections[q][x],
           \A d \in net' \ net : DatagramOK(d)'
    PROVE  PathInv'
<1>1. ASSUME NEW q \in Peers \ {p} PROVE ProcessOK(q)'
  <2>1. \A x \in Queued(q) : x.type = "Send" => x.conn \in Conn
    <3>1. Queued(q) \subseteq Commands[q]
      BY ElemsType DEF TypeOK, PeerTypeOK, CommandsTypeOK, Queued
    <3>. QED
      BY <3>1, CommandParts
  <2>. QED
    BY <1>1, <2>1, ProcessStays DEF PathInv
<1>2. ASSUME NEW d \in net' PROVE DatagramOK(d)'
  BY <1>2, DatagramStays DEF TypeOK, PathInv
<1>. QED
  BY <1>1, <1>2 DEF PathInv

LEMMA SameLeft == UNCHANGED left => LeftGrows
BY DEF LeftGrows

LEMMA QueuedParts ==
    ASSUME TypeOK, NEW p \in Peers, NEW x \in Queued(p)
    PROVE  x \in Commands[p] /\ (x.type = "Send" => x.conn \in Conn)
<1>1. Queued(p) \subseteq Commands[p]
  BY ElemsType DEF TypeOK, PeerTypeOK, CommandsTypeOK, Queued
<1>. QED
  BY <1>1, CommandParts

LEMMA UnchangedPath ==
    ASSUME TypeOK, PathInv, UNCHANGED <<cmds, events, thread, connections, net, left>>
    PROVE  PathInv'
<1>1. ASSUME NEW q \in Peers PROVE ProcessOK(q)'
  BY QueuedParts, ProcessStays, SameLeft DEF PathInv
<1>2. ASSUME NEW d \in net PROVE DatagramOK(d)'
  BY DatagramStays, SameLeft DEF TypeOK, PathInv
<1>. QED
  BY <1>1, <1>2 DEF PathInv

\* A call of the application.
LEMMA CallPath ==
    ASSUME TypeOK, TypeOK', PathInv, NEW p \in Peers, NEW x, SendCommand(p, x),
           UNCHANGED <<events, thread, connections, net, left>>,
           CommandOK(p, x), FoundOK(p, x)
    PROVE  PathInv'
<1>1. /\ cmds' = [cmds EXCEPT ![p] = Append(@, x)] /\ cmds[p] \in Seq(Commands[p])
      /\ cmds'[p] \in Seq(Commands[p]) /\ DOMAIN cmds = Peers
  BY DEF TypeOK, PeerTypeOK, CommandsTypeOK, SendCommand
<1>2. cmds'[p] = Append(cmds[p], x) /\ \A q \in Peers \ {p} : cmds'[q] = cmds[q]
  BY <1>1
<1>3. x \in Commands[p]
  BY <1>1, <1>2, AppendedElement
<1>4. Queued(p)' = Queued(p) \cup {x} /\ Told(p)' = Told(p)
  BY <1>1, <1>2, <1>3, ElemsAppend DEF Queued, Told
<1>5. ASSUME NEW y \in Queued(p)' PROVE CommandOK(p, y)' /\ FoundOK(p, y)'
  <2>1. CommandOK(p, y) /\ FoundOK(p, y)
    BY <1>4, <1>5 DEF PathInv, ProcessOK
  <2>. QED
    BY <2>1 DEF CommandOK, FoundOK, PartyOf
<1>6. ASSUME NEW y \in Told(p) PROVE EventOK(p, y)'
  BY <1>6, EventStays, SameLeft DEF PathInv, ProcessOK
<1>7. ASSUME NEW y \in Conn PROVE RouteOK(p, y)' /\ KnownOK(p, y)'
  BY <1>4 DEF PathInv, ProcessOK, RouteOK, KnownOK, PartyOf, Peer
<1>8. ProcessOK(p)'
  BY <1>4, <1>5, <1>6, <1>7 DEF ProcessOK
<1>. QED
  BY <1>2, <1>8, PathFrame, SameLeft

\* A step of a backend that goes on: it takes no command or one, forgets no
\* connection, and tells what may be told.
LEMMA StepPath ==
    ASSUME TypeOK, PathInv, LeftGrows, NEW p \in Peers, NEW N,
           Queued(p)' \subseteq Queued(p), Told(p)' \subseteq Told(p) \cup N,
           \A y \in N : /\ EventOK(p, y)'
                        /\ \A x \in Conn : y = Connected(x) => connections'[p][x] # Nowhere,
           \A x \in Conn : /\ RouteOK(p, x)'
                           /\ connections[p][x] # Nowhere => connections'[p][x] # Nowhere,
           UNCHANGED thread,
           \A q \in Peers \ {p} :
               /\ cmds'[q] = cmds[q] /\ events'[q] = events[q]
               /\ \A x \in Conn : connections'[q][x] = connections[q][x],
           \A d \in net' \ net : DatagramOK(d)'
    PROVE  PathInv'
<1>1. ASSUME NEW y \in Queued(p)' PROVE CommandOK(p, y)' /\ FoundOK(p, y)'
  <2>1. y \in Queued(p) /\ CommandOK(p, y) /\ FoundOK(p, y)
    BY <1>1 DEF PathInv, ProcessOK
  <2>2. y.type = "Send" => y.conn \in Conn
    BY <2>1, QueuedParts
  <2>. QED
    BY <2>1, <2>2 DEF CommandOK, FoundOK, PartyOf
<1>2. ASSUME NEW y \in Told(p)' PROVE EventOK(p, y)'
  <2>1. CASE y \in Told(p)
    BY <2>1, EventStays DEF PathInv, ProcessOK
  <2>. QED
    BY <1>2, <2>1
<1>3. ASSUME NEW x \in Conn PROVE KnownOK(p, x)'
  <2>1. CASE Connected(x) \in Told(p)
    BY <2>1 DEF PathInv, ProcessOK, KnownOK
  <2>2. CASE Connected(x) \notin Told(p)
    BY <2>2 DEF KnownOK
  <2>. QED
    BY <2>1, <2>2
<1>4. ProcessOK(p)'
  BY <1>1, <1>2, <1>3 DEF ProcessOK
<1>. QED
  BY <1>4, PathFrame

\* A process that has nothing left.
LEMMA EmptiedPath ==
    ASSUME TypeOK, PathInv, LeftGrows, NEW p \in Peers,
           cmds' = [cmds EXCEPT ![p] = <<>>],
           connections' = [connections EXCEPT ![p] = [x \in Conn |-> Nowhere]],
           events' = [events EXCEPT ![p] = <<>>] \/ (UNCHANGED events /\ thread'[p] = "exited"),
           \A q \in Peers \ {p} : thread'[q] = thread[q],
           net' \subseteq net
    PROVE  PathInv'
<1>1. /\ DOMAIN cmds = Peers /\ DOMAIN events = Peers /\ DOMAIN connections = Peers
  BY DEF TypeOK, PeerTypeOK, CommandsTypeOK, EventsTypeOK
<1>2. /\ cmds'[p] = <<>> /\ \A x \in Conn : connections'[p][x] = Nowhere
      /\ \A q \in Peers \ {p} : /\ cmds'[q] = cmds[q] /\ events'[q] = events[q]
                                 /\ connections'[q] = connections[q]
  BY <1>1
<1>3. Queued(p)' = {} /\ (Told(p)' = {} \/ (Told(p)' = Told(p) /\ thread'[p] = "exited"))
  <2>1. Elems(<<>>) = {}
    BY DEF Elems
  <2>. QED
    BY <1>1, <1>2, <2>1 DEF Queued, Told
<1>4. ASSUME NEW y \in Told(p) PROVE EventOK(p, y)'
  BY <1>4, EventStays DEF PathInv, ProcessOK
<1>5. ASSUME NEW x \in Conn PROVE RouteOK(p, x)' /\ KnownOK(p, x)'
  BY <1>2, <1>3 DEF RouteOK, KnownOK
<1>6. ProcessOK(p)'
  BY <1>3, <1>4, <1>5 DEF ProcessOK
<1>. QED
  BY <1>2, <1>6, PathFrame

LEMMA AppPath ==
    ASSUME TypeOK, TypeOK', PathInv, AppAction
    PROVE  PathInv'
<1>0. ASSUME NEW p \in Peers, NEW y \in Seen(p) PROVE y \in Told(p) /\ PartyOf(p, y.conn)
  BY SeenIsTold DEF TypeOK, PeerTypeOK, PathInv, ProcessOK, EventOK
<1>1. ASSUME NEW p \in Peers, NEW x \in Conn, KnowsConnection(p, x), thread[p] = "running"
      PROVE  PartyOf(p, x) /\ connections[p][x] # Nowhere
  <2>1. Connected(x) \in Told(p) /\ PartyOf(p, x)
    BY <1>0, <1>1 DEF KnowsConnection, Connected
  <2>. QED
    BY <1>1, <2>1 DEF PathInv, ProcessOK, KnownOK
<1> USE DEF CommandOK, FoundOK, OfConnection
<1>2. CASE AppListen
  BY <1>2, CallPath, UdpAssumption DEF AppListen, Listen, BindCmd, udpVars, backendVars, netVars
<1>3. ASSUME NEW c \in Clients, AppDial(c) PROVE PathInv'
  BY <1>3, CallPath DEF AppDial, Dial, ConnectCmd, udpVars, backendVars, netVars, Clients
<1>4. ASSUME NEW p \in Peers, NEW x \in Conn, NEW r \in Kinds, AppCreateStream(p, x, r)
      PROVE  PathInv'
  <2>1. KnowsConnection(p, x) /\ UNCHANGED <<events, thread, connections, net, left>>
    BY <1>4 DEF AppCreateStream, CreateStream, udpVars, backendVars, netVars
  <2>2. CASE UNCHANGED cmds
    BY <2>1, <2>2, UnchangedPath
  <2>3. ASSUME NEW cmd, SendCommand(p, cmd), cmd.type = "CreateStream", cmd.conn = x
        PROVE  PathInv'
    BY <1>1, <2>1, <2>3, CallPath DEF SendCommand
  <2>. QED
    BY <1>4, <2>2, <2>3 DEF AppCreateStream, CreateStream, CreateStreamCmd
<1>5. ASSUME NEW p \in Peers, NEW x \in Conn, NEW s \in KnownStreams(p, x), AppCloseStream(p, x, s)
      PROVE  PathInv'
  <2>1. PartyOf(p, x)
    BY <1>0 DEF KnownStreams
  <2>. QED
    BY <1>5, <2>1, CallPath
       DEF AppCloseStream, CloseStream, CloseStreamCmd, udpVars, backendVars, netVars
<1>6. ASSUME NEW p \in Peers, NEW x \in Conn, NEW s, AppSend(p, x, s) PROVE PathInv'
  <2>1. PICK cmd : /\ SendCommand(p, cmd) /\ cmd.type = "Send" /\ cmd.conn = x /\ cmd.packet.whole
                   /\ UNCHANGED <<events, thread, connections, net, left>>
                   /\ KnowsConnection(p, x)
    BY <1>6 DEF AppSend, Send, SendCmd, backendVars, netVars
  <2>. QED
    BY <1>1, <2>1, CallPath DEF SendCommand
<1>7. ASSUME NEW p \in Peers, AppShutdown(p) PROVE PathInv'
  BY <1>7, CallPath DEF AppShutdown, Shutdown, ShutdownCmd, udpVars, backendVars, netVars
<1>8. ASSUME NEW p \in Peers, AppPoll(p) \/ AppJoin(p) PROVE PathInv'
  <2>1. UNCHANGED <<cmds, events, thread, connections, net, left>>
    BY <1>8 DEF AppPoll, AppJoin, Poll, Join, udpVars, backendVars, netVars
  <2>. QED
    BY <2>1, UnchangedPath
<1>. QED
  BY <1>2, <1>3, <1>4, <1>5, <1>6, <1>7, <1>8 DEF AppAction

\* What a command of the backend finds, and what it leaves alone.
LEMMA TakenPath ==
    ASSUME TypeOK, PathInv, NEW p \in Peers, NEW type, HandlesQuietly(p, type)
    PROVE  /\ Queued(p)' \subseteq Queued(p) /\ UNCHANGED thread
           /\ \A q \in Peers \ {p} : cmds'[q] = cmds[q]
           /\ Head(cmds[p]) \in Commands[p] /\ Head(cmds[p]).type = type
           /\ CommandOK(p, Head(cmds[p])) /\ FoundOK(p, Head(cmds[p]))
           /\ \A x \in Conn : RouteOK(p, x)
<1>1. CommandsTypeOK(Commands) /\ cmds[p] # <<>> /\ TakeCommand(p)
  BY DEF TypeOK, PeerTypeOK, HandlesQuietly, Receives
<1>2. Head(cmds[p]) \in Queued(p) /\ Head(cmds[p]) \in Commands[p]
  BY <1>1, HeadQueued, QueuedParts
<1>. QED
  BY <1>1, <1>2, TakeCommandQueued DEF HandlesQuietly, Receives, PathInv, ProcessOK

\* A command that leaves events and connections alone.
LEMMA SilentPath ==
    ASSUME TypeOK, PathInv, NEW p \in Peers, NEW type, HandlesQuietly(p, type),
           UNCHANGED <<events, connections>>, LeftGrows,
           \A d \in net' \ net : DatagramOK(d)'
    PROVE  PathInv'
<1>1. PICK N : N = {} /\ Told(p)' \subseteq Told(p) \cup N
  BY DEF Told
<1>2. ASSUME NEW x \in Conn
      PROVE  /\ RouteOK(p, x)'
             /\ connections[p][x] # Nowhere => connections'[p][x] # Nowhere
  BY TakenPath DEF RouteOK, PartyOf, Peer
<1>3. /\ Queued(p)' \subseteq Queued(p) /\ UNCHANGED thread
      /\ \A q \in Peers \ {p} :
            /\ cmds'[q] = cmds[q] /\ events'[q] = events[q]
            /\ \A x \in Conn : connections'[q][x] = connections[q][x]
  BY TakenPath
<1>. QED
  BY <1>1, <1>2, <1>3, StepPath

\* A command that is answered with one event.
LEMMA AnsweredPath ==
    ASSUME TypeOK, PathInv, NEW p \in Peers, NEW type, HandlesQuietly(p, type),
           NEW x \in Events[p], Emit(p, <<x>>), UNCHANGED <<left, net>>,
           x.conn \in Conn, PartyOf(p, x.conn), x.type # "Message",
           \A y \in Conn : x = Connected(y) => connections'[p][y] # Nowhere,
           \A y \in Conn : /\ RouteOK(p, y)'
                           /\ connections[p][y] # Nowhere => connections'[p][y] # Nowhere,
           \A q \in Peers \ {p} : \A y \in Conn : connections'[q][y] = connections[q][y]
    PROVE  PathInv'
<1>1. EventsTypeOK(Events) /\ <<x>> \in Seq(Events[p])
  BY OneType DEF TypeOK, PeerTypeOK
<1>2. PICK N : N = Elems(<<x>>) /\ N = {x}
  <2>1. Elems(<<x>>) = {x}
    BY DEF Elems
  <2>. QED
    BY <2>1
<1>3. /\ Told(p)' \subseteq Told(p) \cup N
      /\ \A q \in Peers \ {p} : events'[q] = events[q]
  BY <1>1, <1>2, EmitTold
<1>4. EventOK(p, x)'
  BY DEF EventOK, PartyOf
<1>5. /\ Queued(p)' \subseteq Queued(p) /\ UNCHANGED thread
      /\ \A q \in Peers \ {p} :
            /\ cmds'[q] = cmds[q] /\ events'[q] = events[q]
            /\ \A y \in Conn : connections'[q][y] = connections[q][y]
  BY <1>3, TakenPath
<1>6. LeftGrows /\ \A d \in net' \ net : DatagramOK(d)'
  BY SameLeft
<1>7. \A z \in N : /\ EventOK(p, z)'
                   /\ \A y \in Conn : z = Connected(y) => connections'[p][y] # Nowhere
  BY <1>2, <1>4
<1>. QED
  BY <1>3, <1>5, <1>6, <1>7, StepPath

\* A connection that is remembered before it is announced.
LEMMA ConnectPath ==
    ASSUME TypeInv, PathInv, NEW c \in Clients, Connect(c)
    PROVE  PathInv'
<1>1. PICK x : /\ x = <<c, dials[c] + 1>>
               /\ connections' = [connections EXCEPT ![c][x] = ServerAddress]
               /\ Emit(c, <<Connected(x)>>)
  BY DEF Connect
<1>2. /\ HandlesQuietly(c, "Connect") /\ UNCHANGED <<left, net>> /\ c \in Peers
      /\ connections \in [Peers -> [Conn -> Address \cup {Nowhere}]] /\ TypeOK
  BY DEF Connect, Clients, TypeInv, TypeOK
<1>3. x \in Conn /\ x[1] = c /\ PartyOf(c, x) /\ Peer(c, x) = Server
  BY <1>1, <1>2, DialNumber DEF PartyOf, Peer, Clients
<1>4. connections'[c][x] = <<Server, 0>> /\ <<Server, 0>> # Nowhere
  BY <1>1, <1>2, <1>3 DEF ServerAddress, Nowhere
<1>5. /\ \A y \in Conn \ {x} : connections'[c][y] = connections[c][y]
      /\ \A q \in Peers \ {c} : connections'[q] = connections[q]
  BY <1>1, <1>2, <1>3
<1>6. ASSUME NEW y \in Conn PROVE RouteOK(c, y)'
  <2>1. CASE y = x
    BY <1>3, <1>4, <2>1 DEF RouteOK, PartyOf, Peer
  <2>2. CASE y # x
    BY <1>2, <1>5, <2>2, TakenPath DEF RouteOK, PartyOf, Peer
  <2>. QED
    BY <2>1, <2>2
<1>7. ASSUME NEW y \in Conn, connections[c][y] # Nowhere PROVE connections'[c][y] # Nowhere
  BY <1>4, <1>5, <1>7
<1>8. ASSUME NEW y \in Conn, Connected(x) = Connected(y) PROVE connections'[c][y] # Nowhere
  BY <1>4, <1>8 DEF Connected
<1>9. /\ Connected(x) \in Events[c] /\ Connected(x).conn = x /\ Connected(x).type = "Connected"
  BY <1>2, <1>3, EventTypes DEF Connected
<1>10. \A q \in Peers \ {c} : \A y \in Conn : connections'[q][y] = connections[q][y]
  BY <1>5
<1>. QED
  BY <1>1, <1>2, <1>3, <1>6, <1>7, <1>8, <1>9, <1>10, AnsweredPath

\* A datagram goes where the connection's address says.
LEMMA SendPath ==
    ASSUME TypeInv, PathInv, NEW p \in Peers, SendDatagram(p)
    PROVE  PathInv'
<1>1. PICK x, m, to :
          /\ x = Head(cmds[p]).conn /\ m = Head(cmds[p]).packet /\ to = connections[p][x]
          /\ to # Nowhere
          /\ net' = net \cup [from : {<<p, moves[p]>>}, to : {to}, conn : {x}, packet : {m}]
          /\ left' = [left EXCEPT ![EndOf(p, x)] = @ \cup {m}]
  BY DEF SendDatagram, Datagrams, AddressOf, HeadConn, HeadPacket
<1>2. /\ HandlesQuietly(p, "Send") /\ UNCHANGED <<events, connections>>
      /\ left \in [Ends -> SUBSET Packet] /\ TypeOK
  BY DEF SendDatagram, backendVars, TypeInv, TypeOK
<1>3. x \in Conn /\ m \in Packet /\ PartyOf(p, x) /\ m.whole
  BY <1>1, <1>2, TakenPath, CommandParts DEF CommandOK, OfConnection
<1>4. EndOf(p, x) \in Ends
  BY <1>3, ConnFacts
<1>5. LeftGrows /\ m \in left'[EndOf(p, x)]
  BY <1>1, <1>2, <1>4 DEF LeftGrows
<1>6. to[1] = Peer(p, x)
  BY <1>1, <1>2, <1>3, TakenPath DEF RouteOK
<1>7. ASSUME NEW d \in net' \ net PROVE DatagramOK(d)'
  <2>1. d.from[1] = p /\ d.to = to /\ d.conn = x /\ d.packet = m
    BY <1>1, <1>7
  <2>2. PartyOf(Peer(p, x), x) /\ Peer(Peer(p, x), x) = p
    BY <1>3, PartyFacts
  <2>. QED
    BY <1>3, <1>5, <1>6, <2>1, <2>2 DEF DatagramOK, PartyOf, Peer, EndOf
<1>. QED
  BY <1>2, <1>5, <1>7, SilentPath

\* A stream that is created or closed is announced where it was asked for.
LEMMA StreamPath ==
    ASSUME TypeInv, PathInv, NEW p \in Peers, BackendCreateStream(p) \/ BackendCloseStream(p)
    PROVE  PathInv'
<1>1. PICK type \in {"CreateStream", "CloseStream"} : HandlesQuietly(p, type)
  BY DEF BackendCreateStream, BackendCloseStream
<1>2. /\ UNCHANGED <<connections, left, net>> /\ TypeOK
  BY DEF BackendCreateStream, BackendCloseStream, backendVars, TypeInv
<1>3. /\ Head(cmds[p]) \in Commands[p] /\ Head(cmds[p]).type = type
      /\ PartyOf(p, Head(cmds[p]).conn) /\ Head(cmds[p]).conn \in Conn
  BY <1>1, <1>2, TakenPath, CommandParts DEF CommandOK, OfConnection
<1>4. \A y \in Conn : RouteOK(p, y)'
  BY <1>1, <1>2, TakenPath DEF RouteOK, PartyOf, Peer
<1>5. PICK x \in Events[p] : /\ Emit(p, <<x>>) /\ x.conn = Head(cmds[p]).conn
                             /\ x.type \notin {"Message", "Connected"}
  <2>1. CASE BackendCreateStream(p)
    <3>1. Head(cmds[p]).type = "CreateStream"
      BY <2>1 DEF BackendCreateStream, HandlesQuietly, Receives
    <3>2. NewStream(Head(cmds[p]).index, Head(cmds[p]).reliability) \in StreamId
      BY <1>3, <3>1, CommandParts, HandleType
    <3>. QED
      BY <1>3, <2>1, <3>2, EventTypes DEF BackendCreateStream, StreamCreated
  <2>2. CASE BackendCloseStream(p)
    <3>1. Head(cmds[p]).type = "CloseStream"
      BY <2>2 DEF BackendCloseStream, HandlesQuietly, Receives
    <3>2. Head(cmds[p]).stream \in StreamId
      BY <1>3, <3>1, CommandParts
    <3>. QED
      BY <1>3, <2>2, <3>2, EventTypes DEF BackendCloseStream, StreamClosed, HeadConn
  <2>. QED
    BY <2>1, <2>2
<1>6. \A y \in Conn : x # Connected(y)
  BY <1>5 DEF Connected
<1>. QED
  BY <1>1, <1>2, <1>3, <1>4, <1>5, <1>6, AnsweredPath

LEMMA CommandPath ==
    ASSUME TypeInv, PathInv, NEW p \in Peers, HandleCommand(p)
    PROVE  PathInv'
<1> USE DEF TypeInv
<1>1. CASE p = Server /\ Bind
  BY <1>1, SameLeft, SilentPath DEF Bind
<1>2. CASE p \in Clients /\ ConnectByName(p)
  BY <1>2, SameLeft, SilentPath DEF ConnectByName
<1>3. CASE SendDropped(p)
  BY <1>3, SameLeft, SilentPath DEF SendDropped, backendVars
<1>4. CASE BackendShutdown(p)
  <2>1. /\ cmds' = [cmds EXCEPT ![p] = <<>>] /\ UNCHANGED <<events, left, net>>
        /\ thread' = [thread EXCEPT ![p] = "exited"] /\ DOMAIN thread = Peers
        /\ connections' = [connections EXCEPT ![p] = [x \in Conn |-> Nowhere]]
    BY <1>4 DEF BackendShutdown, Stop, ThreadExits, netVars, TypeOK, PeerTypeOK, ThreadsTypeOK
  <2>2. thread'[p] = "exited" /\ \A q \in Peers \ {p} : thread'[q] = thread[q]
    BY <2>1
  <2>. QED
    BY <2>1, <2>2, SameLeft, EmptiedPath
<1>. QED
  BY <1>1, <1>2, <1>3, <1>4, ConnectPath, SendPath, StreamPath DEF HandleCommand

-------------------------------------------------------------------------------
(* A datagram arrives, and the server's process starts again               *)

\* The events of a datagram are about its connection, and its message is the packet.
LEMMA NewsParts ==
    ASSUME NEW p \in Peers, NEW d \in Datagram, NEW news,
           news = Announcements(p, d.conn, d.packet.stream) \o <<Message(d.conn, Received(d))>>
    PROVE  /\ news \in Seq(Events[p])
           /\ \A y \in Elems(news) : /\ y.conn = d.conn
                                     /\ y.type = "Message" => y.packet = Received(d)
<1> DEFINE S == {y \in Events[p] : /\ y.conn = d.conn
                                   /\ y.type = "Message" => y.packet = Received(d)}
<1>1. d.conn \in Conn /\ d.packet.stream \in StreamId /\ Received(d) \in Packet
  BY ReceivedType DEF Packet
<1>2. Connected(d.conn) \in S
  BY <1>1, EventTypes DEF Connected
<1>3. StreamCreated(d.conn, d.packet.stream) \in S
  BY <1>1, EventTypes DEF StreamCreated
<1>4. Message(d.conn, Received(d)) \in S
  BY <1>1, EventTypes DEF Message
<1> HIDE DEF S
<1>5. Announcements(p, d.conn, d.packet.stream) \in Seq(S)
  BY <1>2, <1>3, EmptySeq, OneType, ConcatProperties DEF Announcements
<1>6. news \in Seq(S)
  BY <1>4, <1>5, OneType, ConcatProperties
<1>7. Elems(news) \subseteq S /\ S \subseteq Events[p]
  BY <1>6, ElemsType DEF S
<1>8. news \in Seq(Events[p])
  BY <1>6, <1>7, SeqMonotonic
<1>. QED
  BY <1>7, <1>8 DEF S

LEMMA ReceivePath ==
    ASSUME TypeInv, PathInv, NEW p \in Peers, NEW d \in net, Receive(p, d)
    PROVE  PathInv'
<1>1. /\ d \in Datagram /\ DatagramOK(d) /\ d.to[1] = p /\ TypeOK
      /\ connections \in [Peers -> [Conn -> Address \cup {Nowhere}]]
  BY DEF TypeInv, TypeOK, PathInv, Receive, AddressOf
<1>2. PICK news :
          /\ news = Announcements(p, d.conn, d.packet.stream) \o <<Message(d.conn, Received(d))>>
          /\ Emit(p, news)
  BY DEF Receive, ProcessPacket
<1>3. /\ connections' = [connections EXCEPT ![p][d.conn] = d.from]
      /\ net' \subseteq net /\ UNCHANGED <<cmds, thread, left>>
  BY DEF Receive, ProcessPacket
<1>4. /\ d.conn \in Conn /\ d.from \in Address /\ PartyOf(p, d.conn)
      /\ d.from[1] = Peer(p, d.conn) /\ d.from # Nowhere
  <2>1. d.from # Nowhere
    BY <1>1, ReceivedType DEF Address, Nowhere
  <2>. QED
    BY <1>1, <2>1, ReceivedType DEF DatagramOK
<1>5. /\ connections'[p][d.conn] = d.from
      /\ \A y \in Conn \ {d.conn} : connections'[p][y] = connections[p][y]
      /\ \A q \in Peers \ {p} : connections'[q] = connections[q]
  BY <1>1, <1>3, <1>4
<1>6. ASSUME NEW y \in Conn
      PROVE  /\ RouteOK(p, y)'
             /\ connections[p][y] # Nowhere => connections'[p][y] # Nowhere
  <2>1. CASE y = d.conn
    BY <1>4, <1>5, <2>1 DEF RouteOK, PartyOf, Peer
  <2>2. CASE y # d.conn
    BY <1>5, <2>2 DEF PathInv, ProcessOK, RouteOK, PartyOf, Peer
  <2>. QED
    BY <2>1, <2>2
<1>7. /\ news \in Seq(Events[p])
      /\ \A y \in Elems(news) : /\ y.conn = d.conn
                                /\ y.type = "Message" => y.packet = Received(d)
  BY <1>1, <1>2, NewsParts
<1>8. /\ Told(p)' \subseteq Told(p) \cup Elems(news)
      /\ \A q \in Peers \ {p} : events'[q] = events[q]
  BY <1>1, <1>2, <1>7, EmitTold DEF TypeOK, PeerTypeOK
<1>9. ASSUME NEW y \in Elems(news)
      PROVE  /\ EventOK(p, y)'
             /\ \A x \in Conn : y = Connected(x) => connections'[p][x] # Nowhere
  <2>1. d.packet \in left[Other(EndOf(p, d.conn))] /\ d.packet.whole
    BY <1>1, <1>4, PartyFacts DEF DatagramOK
  <2>2. Received(d) = [d.packet EXCEPT !.whole = Peer(p, d.conn) \notin Long]
    BY <1>1, <1>4, <2>1, ReceivedType DEF Received, Packet
  <2>3. EventOK(p, y)
    BY <1>4, <1>7, <2>1, <2>2 DEF EventOK
  <2>4. EventOK(p, y)'
    BY <1>3, <2>3, EventStays, SameLeft
  <2>5. ASSUME NEW x \in Conn, y = Connected(x) PROVE x = d.conn
    BY <1>7, <2>5 DEF Connected
  <2>. QED
    BY <1>4, <1>5, <2>4, <2>5
<1>10. Queued(p)' \subseteq Queued(p) /\ \A q \in Peers \ {p} : cmds'[q] = cmds[q]
  BY <1>3 DEF Queued
<1>. QED
  BY <1>1, <1>3, <1>5, <1>6, <1>8, <1>9, <1>10, SameLeft, StepPath

LEMMA RestartPath ==
    ASSUME TypeInv, PathInv, Restart
    PROVE  PathInv'
<1>1. /\ cmds' = [cmds EXCEPT ![Server] = <<>>] /\ events' = [events EXCEPT ![Server] = <<>>]
      /\ connections' = [connections EXCEPT ![Server] = [x \in Conn |-> Nowhere]]
      /\ thread' = [thread EXCEPT ![Server] = "running"]
      /\ UNCHANGED <<left, net>>
  BY DEF Restart, netVars
<1>2. TypeOK /\ DOMAIN thread = Peers /\ Server \in Peers
  BY UdpAssumption DEF TypeInv, TypeOK, PeerTypeOK, ThreadsTypeOK
<1>3. \A q \in Peers \ {Server} : thread'[q] = thread[q]
  BY <1>1, <1>2
<1>. QED
  BY <1>1, <1>2, <1>3, SameLeft, EmptiedPath

-------------------------------------------------------------------------------
LEMMA PathInit == Init => PathInv
<1> SUFFICES ASSUME Init PROVE PathInv
  OBVIOUS
<1>1. ASSUME NEW p \in Peers
      PROVE  Queued(p) = {} /\ Told(p) = {} /\ \A x \in Conn : connections[p][x] = Nowhere
  BY DEF Init, PeerInit, Queued, Told, Elems
<1>2. ASSUME NEW p \in Peers PROVE ProcessOK(p)
  BY <1>1, <1>2 DEF ProcessOK, RouteOK, KnownOK
<1>. QED
  BY <1>2 DEF Init, PathInv

LEMMA PathStep == TypeInv /\ TypeInv' /\ PathInv /\ [Next]_vars => PathInv'
<1> SUFFICES ASSUME TypeInv, TypeInv', PathInv, [Next]_vars PROVE PathInv'
  OBVIOUS
<1>1. TypeOK /\ TypeOK'
  BY DEF TypeInv
<1>2. CASE AppAction
  BY <1>1, <1>2, AppPath
<1>3. ASSUME NEW c \in Clients, Move(c) PROVE PathInv'
  BY <1>1, <1>3, UnchangedPath DEF Move, peerVars, backendVars
<1>4. CASE UNCHANGED vars
  BY <1>1, <1>4, UnchangedPath DEF vars, peerVars, udpVars, backendVars, netVars
<1>. QED
  BY <1>2, <1>3, <1>4, CommandPath, ReceivePath, RestartPath DEF Next

LEMMA PathTheorem == Spec => [](TypeOK /\ PathInv)
<1>1. TypeInv => TypeOK
  BY DEF TypeInv
<1>. QED
  BY <1>1, TypeInit, TypeStep, PathInit, PathStep, PTL DEF Spec

\* Nobody hears of a connection it is not part of, and no datagram goes to a
\* client that did not make its uuid.
THEOREM OwnTheorem == Spec => []OnlyOwnConnections
<1>1. TypeOK /\ PathInv => OnlyOwnConnections
  BY DEF PathInv, ProcessOK, DatagramOK, EventOK, OnlyOwnConnections, Told, Elems
<1>. QED
  BY <1>1, PathTheorem, PTL

\* What an application gets on a connection was sent on it from the other
\* end, whatever the network repeats, delays or moves.
THEOREM DeliveredTheorem == Spec => []DeliveredWasSent
<1>1. ASSUME TypeOK, PathInv PROVE DeliveredWasSent
  <2> SUFFICES ASSUME NEW p \in Peers, NEW i \in DOMAIN events[p], events[p][i].type = "Message"
               PROVE  LET x == events[p][i] IN \E m \in left[Other(EndOf(p, x.conn))] :
                          \/ x.packet = m
                          \/ Peer(p, x.conn) \in Long /\ x.packet = [m EXCEPT !.whole = FALSE]
    BY DEF DeliveredWasSent
  <2>1. PICK x : x = events[p][i]
    OBVIOUS
  <2>2. x \in Told(p) /\ EventOK(p, x)
    BY <1>1, <2>1 DEF PathInv, ProcessOK, Told, Elems
  <2>3. PICK m \in left[Other(EndOf(p, x.conn))] :
            m.whole /\ x.packet = [m EXCEPT !.whole = Peer(p, x.conn) \notin Long]
    BY <2>1, <2>2 DEF EventOK
  <2>4. Other(EndOf(p, x.conn)) \in Ends
    BY <2>2, ConnFacts DEF EventOK
  <2>5. m \in Packet
    BY <1>1, <2>3, <2>4 DEF TypeOK
  <2>6. CASE Peer(p, x.conn) \in Long
    BY <2>1, <2>3, <2>6
  <2>7. CASE Peer(p, x.conn) \notin Long
    <3>1. m.whole = TRUE
      BY <2>3, <2>5 DEF Packet
    <3>2. x.packet = m
      BY <2>3, <2>5, <2>7, <3>1 DEF Packet
    <3>. QED
      BY <2>1, <3>2
  <2>. QED
    BY <2>6, <2>7
<1>. QED
  BY <1>1, PathTheorem, PTL

\* A Send that waits in a backend's queue finds its connection in the map.
THEOREM FindTheorem == Spec => []SendsFindConnection
<1>1. TypeOK /\ PathInv => SendsFindConnection
  BY DEF PathInv, ProcessOK, FoundOK, SendsFindConnection, Queued, Elems
<1>. QED
  BY <1>1, PathTheorem, PTL

-------------------------------------------------------------------------------
(* In which order.  What an application has heard of is what its backend    *)
(* has in its maps, so a datagram announces exactly what is new; and a      *)
(* uuid that a dial makes has not been heard of.                            *)

\* y may come after the events of E.
MayFollow(y, E) ==
    /\ "conn" \in DOMAIN y => (y = Connected(y.conn) <=> \A z \in E : ~Concerns(z, y.conn))
    /\ y.type = "Message" => StreamCreated(y.conn, y.packet.stream) \in E

InSequence(s) == \A j \in 1 .. Len(s) : MayFollow(s[j], Earlier(s, j))

Dialed(x) == x[2] <= dials[x[1]]

Heard(p, x) == \E y \in Told(p) : Concerns(y, x)

CallOK(p, cmd) == cmd.type \in OfConnection => Dialed(cmd.conn) /\ Heard(p, cmd.conn)

MapOK(p, x) ==
    /\ thread[p] = "running" => (connections[p][x] # Nowhere <=> Heard(p, x))
    /\ \A s \in known_streams[p][x] : StreamCreated(x, s) \in Told(p)
    /\ Heard(p, x) => Dialed(x)

OrderOK(p) ==
    /\ InSequence(events[p])
    /\ \A cmd \in Queued(p) : CallOK(p, cmd)
    /\ \A x \in Conn : MapOK(p, x)

OrderInv ==
    /\ \A p \in Peers : OrderOK(p)
    /\ \A d \in net : Dialed(d.conn)

DialsGrow == \A c \in Clients : dials[c] <= dials'[c]

LEMMA InSequenceAppend ==
    ASSUME NEW S, NEW s \in Seq(S), NEW y \in S, InSequence(s), MayFollow(y, Elems(s))
    PROVE  /\ Append(s, y) \in Seq(S) /\ Elems(Append(s, y)) = Elems(s) \cup {y}
           /\ InSequence(Append(s, y))
<1> DEFINE t == Append(s, y)
<1>1. /\ t \in Seq(S) /\ Len(t) = Len(s) + 1 /\ Elems(t) = Elems(s) \cup {y}
      /\ \A j \in 1 .. Len(s) + 1 :
            \/ t[j] = y /\ Earlier(t, j) = Elems(s)
            \/ j \in 1 .. Len(s) /\ t[j] = s[j] /\ Earlier(t, j) = Earlier(s, j)
  BY EarlierAppend
<1> HIDE DEF t
<1>2. \A j \in 1 .. Len(s) + 1 : MayFollow(t[j], Earlier(t, j))
  BY <1>1 DEF InSequence
<1>. QED
  BY <1>1, <1>2 DEF InSequence, t

LEMMA DialedStays ==
    ASSUME TypeOK, TypeOK', DialsGrow, NEW x \in Conn, Dialed(x)
    PROVE  Dialed(x)'
<1>1. /\ x[1] \in Clients /\ x[2] \in Nat /\ dials[x[1]] \in Nat /\ dials'[x[1]] \in Nat
      /\ dials[x[1]] <= dials'[x[1]]
  BY UdpAssumption DEF Conn, TypeOK, DialsGrow
<1>. QED
  BY <1>1 DEF Dialed

\* A process that has queued commands or lost some, and nothing else.
LEMMA QuietOrder ==
    ASSUME TypeOK, TypeOK', DialsGrow, NEW p \in Peers, OrderOK(p),
           events'[p] = events[p], thread'[p] = thread[p],
           \A x \in Conn : /\ connections'[p][x] = connections[p][x]
                           /\ known_streams'[p][x] = known_streams[p][x],
           \A cmd \in Queued(p)' : cmd \in Queued(p) \/ CallOK(p, cmd)
    PROVE  OrderOK(p)'
<1>1. Told(p)' = Told(p)
  BY DEF Told
<1>2. \A x : Heard(p, x)' <=> Heard(p, x)
  BY <1>1 DEF Heard
<1>3. ASSUME NEW cmd \in Queued(p)' PROVE CallOK(p, cmd)'
  <2>1. CallOK(p, cmd)
    BY <1>3 DEF OrderOK
  <2>2. cmd \in Commands[p]
    <3>1. Queued(p)' \subseteq Commands[p]
      BY ElemsType DEF TypeOK, PeerTypeOK, CommandsTypeOK, Queued
    <3>. QED
      BY <3>1
  <2>3. cmd.type \in OfConnection => cmd.conn \in Conn
    BY <2>2, CommandParts DEF OfConnection
  <2>. QED
    BY <1>2, <2>1, <2>3, DialedStays DEF CallOK
<1>4. ASSUME NEW x \in Conn PROVE MapOK(p, x)'
  <2>1. MapOK(p, x) /\ (Dialed(x) => Dialed(x)')
    BY DialedStays DEF OrderOK
  <2>. QED
    BY <1>1, <1>2, <2>1 DEF MapOK
<1>. QED
  BY <1>3, <1>4 DEF OrderOK, InSequence

\* A step of one process.
LEMMA OrderFrame ==
    ASSUME TypeOK, TypeOK', OrderInv, DialsGrow, NEW p \in Peers, OrderOK(p)',
           \A q \in Peers \ {p} :
               /\ cmds'[q] = cmds[q] /\ events'[q] = events[q] /\ thread'[q] = thread[q]
               /\ \A x \in Conn : /\ connections'[q][x] = connections[q][x]
                                  /\ known_streams'[q][x] = known_streams[q][x],
           \A d \in net' \ net : Dialed(d.conn)
    PROVE  OrderInv'
<1>1. ASSUME NEW q \in Peers \ {p} PROVE OrderOK(q)'
  <2>1. OrderOK(q) /\ Queued(q)' = Queued(q)
    BY <1>1 DEF OrderInv, Queued
  <2>. QED
    BY <1>1, <2>1, QuietOrder
<1>2. ASSUME NEW d \in net' PROVE Dialed(d.conn)'
  <2>1. d.conn \in Conn /\ Dialed(d.conn)
    BY <1>2, ReceivedType DEF TypeOK, OrderInv
  <2>. QED
    BY <2>1, DialedStays
<1>. QED
  BY <1>1, <1>2 DEF OrderInv

LEMMA SameDials ==
    ASSUME TypeOK, UNCHANGED dials
    PROVE  DialsGrow
<1>1. \A c \in Clients : dials[c] \in Nat
  BY UdpAssumption DEF TypeOK
<1>. QED
  BY <1>1 DEF DialsGrow

\* What the process has queued shrinks, or grows by a command that may be.
LEMMA QuietStep ==
    ASSUME TypeOK, TypeOK', OrderInv, DialsGrow, NEW p \in Peers,
           UNCHANGED <<events, thread, connections, known_streams>>,
           \A cmd \in Queued(p)' : cmd \in Queued(p) \/ CallOK(p, cmd),
           \A q \in Peers \ {p} : cmds'[q] = cmds[q],
           \A d \in net' \ net : Dialed(d.conn)
    PROVE  OrderInv'
<1>1. OrderOK(p)'
  BY QuietOrder DEF OrderInv
<1>. QED
  BY <1>1, OrderFrame

LEMMA UnchangedOrder ==
    ASSUME TypeOK, TypeOK', OrderInv,
           UNCHANGED <<cmds, events, thread, connections, known_streams, net, dials>>
    PROVE  OrderInv'
<1>1. \A cmd \in Queued(Server)' : cmd \in Queued(Server) \/ CallOK(Server, cmd)
  BY DEF Queued
<1>. QED
  BY <1>1, QuietStep, SameDials, UdpAssumption

LEMMA CallOrder ==
    ASSUME TypeOK, TypeOK', OrderInv, NEW p \in Peers, NEW x, SendCommand(p, x),
           UNCHANGED <<events, thread, connections, known_streams, net, dials>>,
           CallOK(p, x)
    PROVE  OrderInv'
<1>1. /\ cmds' = [cmds EXCEPT ![p] = Append(@, x)] /\ cmds[p] \in Seq(Commands[p])
      /\ cmds'[p] \in Seq(Commands[p]) /\ DOMAIN cmds = Peers
  BY DEF TypeOK, PeerTypeOK, CommandsTypeOK, SendCommand
<1>2. cmds'[p] = Append(cmds[p], x) /\ \A q \in Peers \ {p} : cmds'[q] = cmds[q]
  BY <1>1
<1>3. x \in Commands[p]
  BY <1>1, <1>2, AppendedElement
<1>4. Queued(p)' = Queued(p) \cup {x}
  BY <1>1, <1>2, <1>3, ElemsAppend DEF Queued
<1>. QED
  BY <1>2, <1>4, QuietStep, SameDials

LEMMA AppOrder ==
    ASSUME TypeOK, TypeOK', OrderInv, AppAction
    PROVE  OrderInv'
<1>1. ASSUME NEW p \in Peers, NEW x \in Conn, KnowsConnection(p, x)
      PROVE  Heard(p, x) /\ Dialed(x)
  <2>1. Connected(x) \in Told(p)
    BY <1>1, SeenIsTold DEF KnowsConnection, TypeOK, PeerTypeOK
  <2>2. Heard(p, x)
    BY <2>1 DEF Heard, Concerns, Connected
  <2>. QED
    BY <2>2 DEF OrderInv, OrderOK, MapOK
<1>2. ASSUME NEW p \in Peers, NEW x \in Conn, KnownStreams(p, x) # {}
      PROVE  Heard(p, x) /\ Dialed(x)
  <2>1. PICK y \in Seen(p) : y.type = "StreamCreated" /\ y.conn = x
    BY <1>2 DEF KnownStreams
  <2>2. y \in Told(p) /\ y \in Events[p]
    BY <2>1, SeenIsTold DEF TypeOK, PeerTypeOK
  <2>3. "conn" \in DOMAIN y
    BY <2>1, <2>2
       DEF Events, Event, Connected, Disconnected, ConnectError, Message, StreamCreated,
           StreamClosed
  <2>4. Heard(p, x)
    BY <2>1, <2>2, <2>3 DEF Heard, Concerns
  <2>. QED
    BY <2>4 DEF OrderInv, OrderOK, MapOK
<1> USE DEF CallOK, OfConnection
<1>3. CASE AppListen
  BY <1>3, CallOrder, UdpAssumption DEF AppListen, Listen, BindCmd, udpVars, backendVars, netVars
<1>4. ASSUME NEW c \in Clients, AppDial(c) PROVE OrderInv'
  BY <1>4, CallOrder DEF AppDial, Dial, ConnectCmd, udpVars, backendVars, netVars, Clients
<1>5. ASSUME NEW p \in Peers, NEW x \in Conn, NEW r \in Kinds, AppCreateStream(p, x, r)
      PROVE  OrderInv'
  <2>1. /\ UNCHANGED <<events, thread, connections, known_streams, net, dials>>
        /\ KnowsConnection(p, x)
    BY <1>5 DEF AppCreateStream, CreateStream, udpVars, backendVars, netVars
  <2>2. CASE UNCHANGED cmds
    BY <2>1, <2>2, UnchangedOrder
  <2>3. ASSUME NEW cmd, SendCommand(p, cmd), cmd.type = "CreateStream", cmd.conn = x
        PROVE  OrderInv'
    BY <1>1, <2>1, <2>3, CallOrder
  <2>. QED
    BY <1>5, <2>2, <2>3 DEF AppCreateStream, CreateStream, CreateStreamCmd
<1>6. ASSUME NEW p \in Peers, NEW x \in Conn, NEW s \in KnownStreams(p, x), AppCloseStream(p, x, s)
      PROVE  OrderInv'
  <2>1. PICK cmd : /\ SendCommand(p, cmd) /\ cmd.type = "CloseStream" /\ cmd.conn = x
                   /\ UNCHANGED <<events, thread, connections, known_streams, net, dials>>
    BY <1>6 DEF AppCloseStream, CloseStream, CloseStreamCmd, udpVars, backendVars, netVars
  <2>. QED
    BY <1>2, <1>6, <2>1, CallOrder
<1>7. ASSUME NEW p \in Peers, NEW x \in Conn, NEW s, AppSend(p, x, s) PROVE OrderInv'
  <2>1. PICK cmd : /\ SendCommand(p, cmd) /\ cmd.type = "Send" /\ cmd.conn = x
                   /\ UNCHANGED <<events, thread, connections, known_streams, net, dials>>
                   /\ KnowsConnection(p, x)
    BY <1>7 DEF AppSend, Send, SendCmd, backendVars, netVars
  <2>. QED
    BY <1>1, <2>1, CallOrder
<1>8. ASSUME NEW p \in Peers, AppShutdown(p) PROVE OrderInv'
  BY <1>8, CallOrder DEF AppShutdown, Shutdown, ShutdownCmd, udpVars, backendVars, netVars
<1>9. ASSUME NEW p \in Peers, AppPoll(p) \/ AppJoin(p) PROVE OrderInv'
  BY <1>9, UnchangedOrder DEF AppPoll, AppJoin, Poll, Join, udpVars, backendVars, netVars
<1>. QED
  BY <1>3, <1>4, <1>5, <1>6, <1>7, <1>8, <1>9 DEF AppAction

\* A backend that runs tells something of one connection, which it then has.
LEMMA TellOrder ==
    ASSUME TypeOK, TypeOK', OrderInv, DialsGrow, NEW p \in Peers, NEW x \in Conn, NEW N,
           thread[p] = "running", UNCHANGED thread,
           InSequence(events'[p]), Told(p)' = Told(p) \cup N, N # {},
           \A y \in N : "conn" \in DOMAIN y /\ y.conn = x,
           Dialed(x)', connections'[p][x] # Nowhere,
           \A s \in known_streams'[p][x] : StreamCreated(x, s) \in Told(p)',
           \A z \in Conn \ {x} : /\ connections'[p][z] = connections[p][z]
                                 /\ known_streams'[p][z] = known_streams[p][z],
           Queued(p)' \subseteq Queued(p),
           \A q \in Peers \ {p} :
               /\ cmds'[q] = cmds[q] /\ events'[q] = events[q]
               /\ connections'[q] = connections[q] /\ known_streams'[q] = known_streams[q],
           net' \subseteq net \/ \A d \in net' \ net : Dialed(d.conn)
    PROVE  OrderInv'
<1>1. \A z : Heard(p, z)' <=> Heard(p, z) \/ z = x
  BY DEF Heard, Concerns
<1>2. ASSUME NEW cmd \in Queued(p)' PROVE CallOK(p, cmd)'
  <2>1. CallOK(p, cmd)
    BY <1>2 DEF OrderInv, OrderOK
  <2>2. cmd.type \in OfConnection => cmd.conn \in Conn
    BY <1>2, QueuedParts, CommandParts DEF OfConnection
  <2>. QED
    BY <1>1, <2>1, <2>2, DialedStays DEF CallOK
<1>3. ASSUME NEW z \in Conn PROVE MapOK(p, z)'
  <2>1. CASE z = x
    BY <1>1, <2>1 DEF MapOK
  <2>2. CASE z # x
    <3>1. MapOK(p, z) /\ (Dialed(z) => Dialed(z)')
      BY DialedStays DEF OrderInv, OrderOK
    <3>. QED
      BY <1>1, <2>2, <3>1 DEF MapOK
  <2>. QED
    BY <2>1, <2>2
<1>4. OrderOK(p)'
  <2>1. InSequence(events[p])'
    BY DEF InSequence, Earlier
  <2>. QED
    BY <1>2, <1>3, <2>1 DEF OrderOK
<1>. QED
  BY <1>4, OrderFrame

\* A command that is answered with one event.
LEMMA AnsweredOrder ==
    ASSUME TypeOK, TypeOK', OrderInv, DialsGrow, NEW p \in Peers, NEW type, HandlesQuietly(p, type),
           NEW y \in Events[p], Emit(p, <<y>>), NEW x \in Conn, "conn" \in DOMAIN y, y.conn = x,
           MayFollow(y, Told(p)), Dialed(x)', connections'[p][x] # Nowhere,
           \A z \in Conn \ {x} : connections'[p][z] = connections[p][z],
           \A q \in Peers \ {p} : connections'[q] = connections[q],
           UNCHANGED <<known_streams, net>>
    PROVE  OrderInv'
<1>1. /\ events' = [events EXCEPT ![p] = @ \o <<y>>] /\ events[p] \in Seq(Events[p])
      /\ DOMAIN events = Peers
  BY DEF Emit, TypeOK, PeerTypeOK, EventsTypeOK
<1>2. events'[p] = Append(events[p], y) /\ \A q \in Peers \ {p} : events'[q] = events[q]
  BY <1>1, AppendIsConcat
<1>3. /\ InSequence(Append(events[p], y)) /\ Elems(Append(events[p], y)) = Elems(events[p]) \cup {y}
  BY <1>1, InSequenceAppend DEF OrderInv, OrderOK, Told
<1>4. PICK N : N = {y}
  OBVIOUS
<1>5. InSequence(events'[p]) /\ Told(p)' = Told(p) \cup N /\ N # {}
  BY <1>2, <1>3, <1>4 DEF Told
<1>6. \A z \in N : "conn" \in DOMAIN z /\ z.conn = x
  BY <1>4
<1>7. CommandsTypeOK(Commands) /\ cmds[p] # <<>> /\ TakeCommand(p) /\ thread[p] = "running"
      /\ UNCHANGED thread
  BY DEF TypeOK, PeerTypeOK, HandlesQuietly, Receives
<1>8. Queued(p)' \subseteq Queued(p) /\ \A q \in Peers \ {p} : cmds'[q] = cmds[q]
  BY <1>7, TakeCommandQueued
<1>9. \A s \in known_streams'[p][x] : StreamCreated(x, s) \in Told(p)'
  BY <1>5 DEF OrderInv, OrderOK, MapOK
<1>. QED
  BY <1>2, <1>5, <1>6, <1>7, <1>8, <1>9, TellOrder

\* A dial makes a uuid nobody has heard of.
LEMMA ConnectOrder ==
    ASSUME TypeInv, TypeInv', OrderInv, NEW c \in Clients, Connect(c)
    PROVE  OrderInv'
<1>1. PICK x : /\ x = <<c, dials[c] + 1>>
               /\ connections' = [connections EXCEPT ![c][x] = ServerAddress]
               /\ Emit(c, <<Connected(x)>>)
  BY DEF Connect
<1>2. /\ HandlesQuietly(c, "Connect") /\ UNCHANGED <<known_streams, net>> /\ c \in Peers
      /\ connections \in [Peers -> [Conn -> Address \cup {Nowhere}]] /\ TypeOK /\ TypeOK'
      /\ dials' = [dials EXCEPT ![c] = @ + 1] /\ dials \in [Clients -> 0 .. MaxDials]
  BY DEF Connect, Clients, TypeInv, TypeOK
<1>3. x \in Conn /\ x[1] = c /\ x[2] = dials[c] + 1 /\ dials[c] \in Nat
  BY <1>1, <1>2, DialNumber, UdpAssumption
<1>4. connections'[c][x] # Nowhere
  BY <1>1, <1>2, <1>3 DEF ServerAddress, Nowhere
<1>5. /\ \A y \in Conn \ {x} : connections'[c][y] = connections[c][y]
      /\ \A q \in Peers \ {c} : connections'[q] = connections[q]
  BY <1>1, <1>2, <1>3
<1>6. DialsGrow /\ Dialed(x)' /\ ~Dialed(x)
  <2>1. \A d \in Clients : dials[d] \in Nat /\ dials'[d] = dials[d] + IF d = c THEN 1 ELSE 0
    BY <1>2, UdpAssumption
  <2>. QED
    BY <1>3, <2>1 DEF DialsGrow, Dialed
<1>7. ~Heard(c, x)
  BY <1>2, <1>3, <1>6 DEF OrderInv, OrderOK, MapOK
<1>8. /\ Connected(x) \in Events[c] /\ Connected(x).conn = x /\ "conn" \in DOMAIN Connected(x)
  BY <1>2, <1>3, EventTypes DEF Connected
<1>9. MayFollow(Connected(x), Told(c))
  BY <1>7, <1>8 DEF MayFollow, Heard, Connected
<1>. QED
  BY <1>1, <1>2, <1>3, <1>4, <1>5, <1>6, <1>8, <1>9, AnsweredOrder

LEMMA StreamOrder ==
    ASSUME TypeInv, TypeInv', OrderInv, NEW p \in Peers,
           BackendCreateStream(p) \/ BackendCloseStream(p)
    PROVE  OrderInv'
<1>1. PICK type \in {"CreateStream", "CloseStream"} : HandlesQuietly(p, type)
  BY DEF BackendCreateStream, BackendCloseStream
<1>2. /\ UNCHANGED <<connections, known_streams, net, dials>> /\ TypeOK /\ TypeOK'
  BY DEF BackendCreateStream, BackendCloseStream, backendVars, TypeInv
<1>3. /\ Head(cmds[p]) \in Queued(p) /\ Head(cmds[p]).type = type
      /\ Head(cmds[p]) \in Commands[p] /\ thread[p] = "running"
  <2>1. CommandsTypeOK(Commands) /\ cmds[p] # <<>>
    BY <1>1, <1>2 DEF TypeOK, PeerTypeOK, HandlesQuietly, Receives
  <2>2. Head(cmds[p]) \in Queued(p)
    BY <2>1, HeadQueued
  <2>. QED
    BY <1>1, <1>2, <2>2, QueuedParts DEF HandlesQuietly, Receives
<1>4. PICK x \in Conn : x = Head(cmds[p]).conn
  BY <1>1, <1>3, CommandParts
<1>5. Dialed(x) /\ Heard(p, x) /\ connections[p][x] # Nowhere
  BY <1>1, <1>3, <1>4 DEF OrderInv, OrderOK, CallOK, OfConnection, MapOK
<1>6. PICK y \in Events[p] : /\ Emit(p, <<y>>) /\ y.conn = x /\ "conn" \in DOMAIN y
                             /\ y.type \notin {"Message", "Connected"}
  <2>1. CASE BackendCreateStream(p)
    <3>1. Head(cmds[p]).type = "CreateStream"
      BY <2>1 DEF BackendCreateStream, HandlesQuietly, Receives
    <3>2. NewStream(Head(cmds[p]).index, Head(cmds[p]).reliability) \in StreamId
      BY <1>3, <3>1, CommandParts, HandleType
    <3>. QED
      BY <1>4, <2>1, <3>2, EventTypes DEF BackendCreateStream, StreamCreated
  <2>2. CASE BackendCloseStream(p)
    <3>1. Head(cmds[p]).type = "CloseStream"
      BY <2>2 DEF BackendCloseStream, HandlesQuietly, Receives
    <3>2. Head(cmds[p]).stream \in StreamId
      BY <1>3, <3>1, CommandParts
    <3>. QED
      BY <1>4, <2>2, <3>2, EventTypes DEF BackendCloseStream, StreamClosed, HeadConn
  <2>. QED
    BY <2>1, <2>2
<1>7. y # Connected(x)
  BY <1>6 DEF Connected
<1>8. MayFollow(y, Told(p))
  BY <1>5, <1>6, <1>7 DEF MayFollow, Heard
<1>9. DialsGrow /\ Dialed(x)'
  BY <1>2, <1>5, SameDials DEF Dialed
<1>. QED
  BY <1>1, <1>2, <1>5, <1>6, <1>8, <1>9, AnsweredOrder

\* A command that tells nothing.
LEMMA SilentOrder ==
    ASSUME TypeOK, TypeOK', OrderInv, DialsGrow, NEW p \in Peers, NEW type, HandlesQuietly(p, type),
           UNCHANGED <<events, connections, known_streams>>,
           \A d \in net' \ net : Dialed(d.conn)
    PROVE  OrderInv'
<1>1. CommandsTypeOK(Commands) /\ cmds[p] # <<>> /\ TakeCommand(p) /\ UNCHANGED thread
  BY DEF TypeOK, PeerTypeOK, HandlesQuietly, Receives
<1>2. Queued(p)' \subseteq Queued(p) /\ \A q \in Peers \ {p} : cmds'[q] = cmds[q]
  BY <1>1, TakeCommandQueued
<1>. QED
  BY <1>1, <1>2, QuietStep

\* A process that has nothing left.
LEMMA EmptiedOrder ==
    ASSUME TypeOK, TypeOK', OrderInv, NEW p \in Peers,
           cmds' = [cmds EXCEPT ![p] = <<>>],
           connections' = [connections EXCEPT ![p] = [x \in Conn |-> Nowhere]],
           known_streams' = [known_streams EXCEPT ![p] = [x \in Conn |-> {}]],
           events' = [events EXCEPT ![p] = <<>>] \/ (UNCHANGED events /\ thread'[p] = "exited"),
           \A q \in Peers \ {p} : thread'[q] = thread[q],
           UNCHANGED <<net, dials>>
    PROVE  OrderInv'
<1>1. /\ DOMAIN cmds = Peers /\ DOMAIN events = Peers /\ DOMAIN connections = Peers
      /\ DOMAIN known_streams = Peers
  BY DEF TypeOK, PeerTypeOK, CommandsTypeOK, EventsTypeOK
<1>2. /\ cmds'[p] = <<>>
      /\ \A x \in Conn : connections'[p][x] = Nowhere /\ known_streams'[p][x] = {}
      /\ \A q \in Peers \ {p} :
            /\ cmds'[q] = cmds[q] /\ events'[q] = events[q]
            /\ connections'[q] = connections[q] /\ known_streams'[q] = known_streams[q]
  BY <1>1
<1>3. Elems(<<>>) = {} /\ InSequence(<<>>)
  BY DEF Elems, InSequence
<1>4. Queued(p)' = {}
  BY <1>2, <1>3 DEF Queued
<1>5. CASE events' = [events EXCEPT ![p] = <<>>]
  <2>1. events'[p] = <<>>
    BY <1>1, <1>5
  <2>2. InSequence(events'[p]) /\ Told(p)' = {}
    BY <1>3, <2>1 DEF Told
  <2>3. ASSUME NEW x \in Conn PROVE MapOK(p, x)'
    BY <1>2, <2>2 DEF MapOK, Heard
  <2>4. OrderOK(p)'
    BY <1>4, <2>2, <2>3 DEF OrderOK, InSequence, Earlier
  <2>. QED
    BY <1>2, <2>4, OrderFrame, SameDials
<1>6. CASE UNCHANGED events /\ thread'[p] = "exited"
  <2>1. Told(p)' = Told(p) /\ InSequence(events[p])'
    BY <1>6 DEF Told, OrderInv, OrderOK, InSequence, Earlier
  <2>2. ASSUME NEW x \in Conn PROVE MapOK(p, x)'
    <3>1. Heard(p, x) => Dialed(x)
      BY DEF OrderInv, OrderOK, MapOK
    <3>. QED
      BY <1>2, <1>6, <2>1, <3>1 DEF MapOK, Heard, Dialed
  <2>3. OrderOK(p)'
    BY <1>4, <2>1, <2>2 DEF OrderOK
  <2>. QED
    BY <1>2, <2>3, OrderFrame, SameDials
<1>. QED
  BY <1>5, <1>6

LEMMA CommandOrder ==
    ASSUME TypeInv, TypeInv', OrderInv, NEW p \in Peers, HandleCommand(p)
    PROVE  OrderInv'
<1>0. TypeOK /\ TypeOK' /\ \A c \in Clients : dials[c] \in Nat
  BY UdpAssumption DEF TypeInv, TypeOK
<1>1. CASE p = Server /\ Bind
  BY <1>0, <1>1, SameDials, SilentOrder DEF Bind
<1>2. CASE p \in Clients /\ ConnectByName(p)
  <2>1. DialsGrow
    BY <1>0, <1>2 DEF ConnectByName, DialsGrow
  <2>. QED
    BY <1>0, <1>2, <2>1, SilentOrder DEF ConnectByName
<1>3. CASE SendDropped(p)
  BY <1>0, <1>3, SameDials, SilentOrder DEF SendDropped, backendVars
<1>4. CASE SendDatagram(p)
  <2>1. /\ HandlesQuietly(p, "Send") /\ UNCHANGED <<events, connections, known_streams, dials>>
        /\ \A d \in net' \ net : d.conn = Head(cmds[p]).conn
    BY <1>4 DEF SendDatagram, Datagrams, HeadConn, backendVars
  <2>2. Head(cmds[p]) \in Queued(p) /\ Head(cmds[p]).type = "Send"
    <3>1. CommandsTypeOK(Commands) /\ cmds[p] # <<>>
      BY <1>0, <2>1 DEF TypeOK, PeerTypeOK, HandlesQuietly, Receives
    <3>. QED
      BY <2>1, <3>1, HeadQueued DEF HandlesQuietly, Receives
  <2>3. Dialed(Head(cmds[p]).conn)
    BY <2>2 DEF OrderInv, OrderOK, CallOK, OfConnection
  <2>4. \A d \in net' \ net : Dialed(d.conn)
    BY <2>1, <2>3
  <2>. QED
    BY <1>0, <2>1, <2>4, SameDials, SilentOrder
<1>5. CASE BackendShutdown(p)
  <2>1. /\ cmds' = [cmds EXCEPT ![p] = <<>>] /\ UNCHANGED <<events, net, dials>>
        /\ thread' = [thread EXCEPT ![p] = "exited"] /\ DOMAIN thread = Peers
        /\ connections' = [connections EXCEPT ![p] = [x \in Conn |-> Nowhere]]
        /\ known_streams' = [known_streams EXCEPT ![p] = [x \in Conn |-> {}]]
    BY <1>0, <1>5 DEF BackendShutdown, Stop, ThreadExits, netVars, TypeOK, PeerTypeOK, ThreadsTypeOK
  <2>2. thread'[p] = "exited" /\ \A q \in Peers \ {p} : thread'[q] = thread[q]
    BY <2>1
  <2>. QED
    BY <1>0, <2>1, <2>2, EmptiedOrder
<1>. QED
  BY <1>1, <1>2, <1>3, <1>4, <1>5, ConnectOrder, StreamOrder DEF HandleCommand

\* The maps have what the events s tell of the connection and the stream of d.
MapsFollow(p, s, d) ==
    /\ connections[p][d.conn] # Nowhere <=> \E z \in Elems(s) : Concerns(z, d.conn)
    /\ d.packet.stream \in known_streams[p][d.conn] =>
          StreamCreated(d.conn, d.packet.stream) \in Elems(s)

\* After s, t tells of the connection of d, and of its stream then or before.
TellsOf(t, s, d) ==
    /\ \E N : /\ Elems(t) = Elems(s) \cup N /\ N # {}
              /\ \A y \in N : "conn" \in DOMAIN y /\ y.conn = d.conn
    /\ StreamCreated(d.conn, d.packet.stream) \in Elems(t)

\* Four sequences may be put together from either end.
Parts(E, h, f, g, l) == h \in Seq(E) /\ f \in Seq(E) /\ g \in Seq(E) /\ l \in Seq(E)

LEMMA FourParts ==
    ASSUME NEW E, NEW h, NEW f, NEW g, NEW l, Parts(E, h, f, g, l)
    PROVE  ((h \o f) \o g) \o l = h \o ((f \o g) \o l)
<1>0. h \in Seq(E) /\ f \in Seq(E) /\ g \in Seq(E) /\ l \in Seq(E)
  BY DEF Parts
<1>1. (h \o f) \o g = h \o (f \o g)
  BY <1>0, ConcatAssociative
<1>2. PICK k : k = f \o g /\ k \in Seq(E)
  BY <1>0, ConcatProperties
<1>3. k \in Seq(E) /\ h \in Seq(E) /\ l \in Seq(E)
  BY <1>0, <1>2
<1>4. (h \o k) \o l = h \o (k \o l)
  BY <1>3, ConcatAssociative
<1>. QED
  BY <1>1, <1>2, <1>4

\* To s is added that the connection of d is new, to u that its stream is.
Announces(p, d, s, u, v) ==
    /\ u = IF connections[p][d.conn] = Nowhere THEN Append(s, Connected(d.conn)) ELSE s
    /\ v = IF d.packet.stream \in known_streams[p][d.conn] THEN u
           ELSE Append(u, StreamCreated(d.conn, d.packet.stream))

\* The events of a datagram, appended one by one.
LEMMA NewsAppended ==
    ASSUME NEW p \in Peers, NEW s \in Seq(Events[p]), NEW d \in Datagram, NEW u, NEW v,
           Announces(p, d, s, u, v)
    PROVE  s \o NewsOf(p, d) = Append(v, Message(d.conn, Received(d)))
<1>1. PICK c, n, m, t : /\ c = Connected(d.conn) /\ n = StreamCreated(d.conn, d.packet.stream)
                        /\ m = Message(d.conn, Received(d)) /\ t = s \o NewsOf(p, d)
  OBVIOUS
<1>2. PICK S : S = Events[p]
  OBVIOUS
<1>3. c \in S /\ n \in S /\ m \in S /\ s \in Seq(S)
  BY <1>1, <1>2, ReceivedType, EventTypes DEF Packet
<1>4. PICK a, b, w : /\ a = (IF connections[p][d.conn] = Nowhere THEN <<c>> ELSE <<>>)
                     /\ b = (IF d.packet.stream \in known_streams[p][d.conn] THEN <<>> ELSE <<n>>)
                     /\ w = <<m>>
  OBVIOUS
<1>5. Parts(S, s, a, b, w)
  BY <1>3, <1>4, OneType, EmptySeq DEF Parts
<1>6. u = s \o a /\ u \in Seq(S)
  <2>1. Append(s, c) = s \o <<c>> /\ s \o <<>> = s /\ Append(s, c) \in Seq(S)
    BY <1>3, AppendIsConcat, ConcatEmptySeq, AppendType
  <2>. QED
    BY <1>1, <1>3, <1>4, <2>1 DEF Announces
<1>7. v = u \o b /\ v \in Seq(S)
  <2>1. Append(u, n) = u \o <<n>> /\ u \o <<>> = u /\ Append(u, n) \in Seq(S)
    BY <1>3, <1>6, AppendIsConcat, ConcatEmptySeq, AppendType
  <2>. QED
    BY <1>1, <1>4, <1>6, <2>1 DEF Announces
<1>8. Append(v, m) = v \o w
  BY <1>3, <1>4, <1>7, AppendIsConcat
<1>9. t = s \o ((a \o b) \o w)
  BY <1>1, <1>4 DEF Announcements, NewsOf
<1>10. ((s \o a) \o b) \o w = s \o ((a \o b) \o w)
  BY <1>5, FourParts
<1>11. ((s \o a) \o b) \o w = Append(v, m)
  BY <1>6, <1>7, <1>8
<1>12. t = Append(v, m)
  BY <1>9, <1>10, <1>11, Zenon
<1>. QED
  BY <1>1, <1>12

\* The events of a datagram: what is new is announced, then the message.
LEMMA NewsOrder ==
    ASSUME NEW p \in Peers, NEW s \in Seq(Events[p]), InSequence(s), NEW d \in Datagram,
           MapsFollow(p, s, d), NEW t, t = s \o (Announcements(p, d.conn, d.packet.stream)
                                \o <<Message(d.conn, Received(d))>>)
    PROVE  InSequence(t) /\ TellsOf(t, s, d)
<1>1. PICK c, n, m : /\ c = Connected(d.conn) /\ n = StreamCreated(d.conn, d.packet.stream)
                     /\ m = Message(d.conn, Received(d))
  OBVIOUS
<1>2. c \in Events[p] /\ n \in Events[p] /\ m \in Events[p]
  BY <1>1, ReceivedType, EventTypes DEF Packet
<1>3. /\ "conn" \in DOMAIN c /\ c.conn = d.conn /\ c.type = "Connected"
      /\ "conn" \in DOMAIN n /\ n.conn = d.conn /\ n.type = "StreamCreated"
      /\ "conn" \in DOMAIN m /\ m.conn = d.conn /\ m.type = "Message" /\ m.packet = Received(d)
  BY <1>1 DEF Connected, StreamCreated, Message
<1>4. m.packet.stream = d.packet.stream
  BY <1>3, ReceivedType DEF Received, Packet
<1> DEFINE new == connections[p][d.conn] = Nowhere
           unknown == d.packet.stream \notin known_streams[p][d.conn]
<1>0. PICK S : S = Events[p]
  OBVIOUS
<1>5. PICK u \in Seq(Events[p]) :
          /\ u = IF new THEN Append(s, c) ELSE s
          /\ InSequence(u) /\ Elems(u) = Elems(s) \cup (IF new THEN {c} ELSE {})
          /\ \E z \in Elems(u) : Concerns(z, d.conn)
  <2>1. CASE new
    <3>1. MayFollow(c, Elems(s))
      BY <1>1, <1>3, <2>1 DEF MayFollow, MapsFollow
    <3>2. Append(s, c) \in Seq(Events[p]) /\ InSequence(Append(s, c))
          /\ Elems(Append(s, c)) = Elems(s) \cup {c}
      BY <1>2, <3>1, InSequenceAppend
    <3>3. Concerns(c, d.conn)
      BY <1>3 DEF Concerns
    <3>. QED
      BY <2>1, <3>2, <3>3
  <2>2. CASE ~new
    BY <2>2 DEF MapsFollow
  <2>. QED
    BY <2>1, <2>2
<1>6. PICK v \in Seq(Events[p]) :
          /\ v = IF unknown THEN Append(u, n) ELSE u
          /\ InSequence(v) /\ Elems(v) = Elems(u) \cup (IF unknown THEN {n} ELSE {})
          /\ n \in Elems(v)
  <2>1. CASE unknown
    <3>1. n # Connected(d.conn)
      BY <1>1, <1>3
    <3>2. MayFollow(n, Elems(u))
      BY <1>3, <1>5, <3>1 DEF MayFollow
    <3>3. Append(u, n) \in Seq(S) /\ InSequence(Append(u, n))
          /\ Elems(Append(u, n)) = Elems(u) \cup {n}
      <4>1. u \in Seq(S) /\ n \in S /\ InSequence(u)
        BY <1>0, <1>2, <1>5
      <4>. QED
        BY <3>2, <4>1, InSequenceAppend
    <3>. QED
      BY <1>0, <2>1, <3>3
  <2>2. CASE ~unknown
    BY <1>1, <1>5, <2>2 DEF MapsFollow
  <2>. QED
    BY <2>1, <2>2
<1>7. /\ InSequence(Append(v, m)) /\ Elems(Append(v, m)) = Elems(v) \cup {m}
  <2>1. m # Connected(d.conn)
    BY <1>1, <1>3
  <2>2. \E z \in Elems(v) : Concerns(z, d.conn)
    BY <1>5, <1>6
  <2>3. MayFollow(m, Elems(v))
    BY <1>1, <1>3, <1>4, <1>6, <2>1, <2>2 DEF MayFollow
  <2>. QED
    BY <1>2, <1>6, <2>3, InSequenceAppend
<1>8. t = Append(v, m)
  <2>1. Announces(p, d, s, u, v)
    BY <1>1, <1>5, <1>6 DEF Announces
  <2>2. t = s \o NewsOf(p, d)
    BY DEF NewsOf
  <2>. QED
    BY <1>1, <2>1, <2>2, NewsAppended
<1>9. PICK N : N = (IF new THEN {c} ELSE {}) \cup (IF unknown THEN {n} ELSE {}) \cup {m}
  OBVIOUS
<1>10. Elems(t) = Elems(s) \cup N /\ N # {} /\ \A y \in N : "conn" \in DOMAIN y /\ y.conn = d.conn
  BY <1>3, <1>5, <1>6, <1>7, <1>8, <1>9
<1>. QED
  BY <1>1, <1>6, <1>7, <1>8, <1>10 DEF TellsOf

LEMMA ReceiveOrder ==
    ASSUME TypeInv, TypeInv', OrderInv, NEW p \in Peers, NEW d \in net, Receive(p, d)
    PROVE  OrderInv'
<1>1. /\ d \in Datagram /\ Dialed(d.conn) /\ TypeOK /\ TypeOK' /\ thread[p] = "running"
      /\ connections \in [Peers -> [Conn -> Address \cup {Nowhere}]]
      /\ known_streams \in [Peers -> [Conn -> SUBSET StreamId]]
      /\ events[p] \in Seq(Events[p]) /\ DOMAIN events = Peers
      /\ OrderOK(p)
  BY DEF TypeInv, TypeOK, PeerTypeOK, EventsTypeOK, OrderInv, Receive
<1>2. PICK x \in Conn : x = d.conn
  BY <1>1, ReceivedType
<1>3. /\ connections' = [connections EXCEPT ![p][x] = d.from]
      /\ known_streams' = [known_streams EXCEPT ![p][x] = @ \cup {d.packet.stream}]
      /\ net' \subseteq net /\ UNCHANGED <<cmds, thread, dials>>
      /\ events' = [events EXCEPT ![p] = @ \o (Announcements(p, d.conn, d.packet.stream)
                                                  \o <<Message(d.conn, Received(d))>>)]
  <2>1. ProcessPacket(p, d) /\ net' \subseteq net /\ UNCHANGED <<cmds, thread, dials>>
    BY DEF Receive
  <2>. QED
    BY <1>2, <2>1 DEF ProcessPacket, Emit
<1>4. d.from # Nowhere
  <2>1. d.from \in Address
    BY <1>1, ReceivedType
  <2>. QED
    BY <2>1 DEF Address, Nowhere
<1>5. /\ connections'[p][x] = d.from
      /\ known_streams'[p][x] = known_streams[p][x] \cup {d.packet.stream}
      /\ \A z \in Conn \ {x} : /\ connections'[p][z] = connections[p][z]
                               /\ known_streams'[p][z] = known_streams[p][z]
  BY <1>1, <1>2, <1>3
<1>6. \A q \in Peers \ {p} :
          /\ cmds'[q] = cmds[q] /\ events'[q] = events[q]
          /\ connections'[q] = connections[q] /\ known_streams'[q] = known_streams[q]
  BY <1>1, <1>3
<1>7. events'[p] = events[p] \o (Announcements(p, d.conn, d.packet.stream)
                                    \o <<Message(d.conn, Received(d))>>)
  BY <1>1, <1>3
<1>8. /\ InSequence(events[p]) /\ (connections[p][x] # Nowhere <=> Heard(p, x))
      /\ \A s \in known_streams[p][x] : StreamCreated(x, s) \in Told(p)
  BY <1>1 DEF OrderOK, MapOK
<1>9. PICK t : t = events'[p]
  OBVIOUS
<1>10. InSequence(t) /\ TellsOf(t, events[p], d)
  <2>1. events[p] \in Seq(Events[p]) /\ InSequence(events[p])
    BY <1>1, <1>8
  <2>2. MapsFollow(p, events[p], d)
    <3>1. connections[p][d.conn] # Nowhere <=> \E z \in Elems(events[p]) : Concerns(z, d.conn)
      BY <1>2, <1>8 DEF Heard, Told
    <3>2. d.packet.stream \in known_streams[p][d.conn] =>
              StreamCreated(d.conn, d.packet.stream) \in Elems(events[p])
      BY <1>2, <1>8 DEF Told
    <3>. QED
      BY <3>1, <3>2 DEF MapsFollow
  <2>3. d \in Datagram
    BY <1>1
  <2>. QED
    BY <1>7, <1>9, <2>1, <2>2, <2>3, NewsOrder
<1>11. PICK N : /\ Told(p)' = Told(p) \cup N /\ N # {}
                /\ \A y \in N : "conn" \in DOMAIN y /\ y.conn = x
  BY <1>2, <1>9, <1>10 DEF Told, TellsOf
<1>12. InSequence(events'[p]) /\ StreamCreated(x, d.packet.stream) \in Told(p)'
  BY <1>2, <1>9, <1>10 DEF Told, TellsOf
<1>13. \A s \in known_streams'[p][x] : StreamCreated(x, s) \in Told(p)'
  BY <1>5, <1>8, <1>11, <1>12
<1>14. DialsGrow /\ Dialed(x)'
  BY <1>1, <1>2, <1>3, SameDials DEF Dialed
<1>15. Queued(p)' \subseteq Queued(p)
  BY <1>3 DEF Queued
<1>. QED
  BY <1>1, <1>3, <1>4, <1>5, <1>6, <1>11, <1>12, <1>13, <1>14, <1>15, TellOrder

LEMMA RestartOrder ==
    ASSUME TypeInv, TypeInv', OrderInv, Restart
    PROVE  OrderInv'
<1>1. /\ cmds' = [cmds EXCEPT ![Server] = <<>>] /\ events' = [events EXCEPT ![Server] = <<>>]
      /\ connections' = [connections EXCEPT ![Server] = [x \in Conn |-> Nowhere]]
      /\ known_streams' = [known_streams EXCEPT ![Server] = [x \in Conn |-> {}]]
      /\ thread' = [thread EXCEPT ![Server] = "running"]
      /\ UNCHANGED <<net, dials>>
  BY DEF Restart, netVars
<1>2. TypeOK /\ TypeOK' /\ DOMAIN thread = Peers /\ Server \in Peers
  BY UdpAssumption DEF TypeInv, TypeOK, PeerTypeOK, ThreadsTypeOK
<1>3. \A q \in Peers \ {Server} : thread'[q] = thread[q]
  BY <1>1, <1>2
<1>. QED
  BY <1>1, <1>2, <1>3, EmptiedOrder

LEMMA OrderInit == Init => OrderInv
<1> SUFFICES ASSUME Init PROVE OrderInv
  OBVIOUS
<1>1. ASSUME NEW p \in Peers
      PROVE  /\ Queued(p) = {} /\ Told(p) = {} /\ InSequence(events[p])
             /\ \A x \in Conn : connections[p][x] = Nowhere /\ known_streams[p][x] = {}
  <2>1. Elems(<<>>) = {} /\ InSequence(<<>>)
    BY DEF Elems, InSequence
  <2>2. cmds[p] = <<>> /\ events[p] = <<>>
    BY DEF Init, PeerInit
  <2>. QED
    BY <2>1, <2>2 DEF Init, Queued, Told
<1>2. ASSUME NEW p \in Peers PROVE OrderOK(p)
  BY <1>1, <1>2 DEF OrderOK, MapOK, Heard
<1>. QED
  BY <1>2 DEF Init, OrderInv

LEMMA OrderStep == TypeInv /\ TypeInv' /\ OrderInv /\ [Next]_vars => OrderInv'
<1> SUFFICES ASSUME TypeInv, TypeInv', OrderInv, [Next]_vars PROVE OrderInv'
  OBVIOUS
<1>1. TypeOK /\ TypeOK'
  BY DEF TypeInv
<1>2. CASE AppAction
  BY <1>1, <1>2, AppOrder
<1>3. ASSUME NEW c \in Clients, Move(c) PROVE OrderInv'
  BY <1>1, <1>3, UnchangedOrder DEF Move, peerVars, backendVars
<1>4. CASE UNCHANGED vars
  BY <1>1, <1>4, UnchangedOrder DEF vars, peerVars, udpVars, backendVars, netVars
<1>. QED
  BY <1>2, <1>3, <1>4, CommandOrder, ReceiveOrder, RestartOrder DEF Next

\* An application hears of a connection once and before anything else of it,
\* and of a stream before its messages, whichever datagram is the first, and
\* after a restart too.
THEOREM OrderTheorem == Spec => [](ConnectedOnceAndFirst /\ MessagesAnnounced)
<1>1. ASSUME TypeOK, OrderInv PROVE ConnectedOnceAndFirst /\ MessagesAnnounced
  <2>1. ASSUME NEW p \in Peers, NEW j \in DOMAIN events[p]
        PROVE  MayFollow(events[p][j], Before(p, j))
    <3>1. DOMAIN events[p] = 1 .. Len(events[p])
      BY <1>1, LenProperties DEF TypeOK, PeerTypeOK, EventsTypeOK
    <3>. QED
      BY <1>1, <2>1, <3>1 DEF OrderInv, OrderOK, InSequence, Earlier, Before
  <2>. QED
    BY <2>1 DEF ConnectedOnceAndFirst, MessagesAnnounced, MayFollow
<1>2. TypeInv /\ OrderInv => ConnectedOnceAndFirst /\ MessagesAnnounced
  BY <1>1 DEF TypeInv
<1>. QED
  BY <1>2, TypeInit, TypeStep, OrderInit, OrderStep, PTL DEF Spec

-------------------------------------------------------------------------------
(* How often.  A count of events is no induction hypothesis: a StreamCreated *)
(* may still be on its way as a command.  Counted together, the announced   *)
(* and those asked for are at most one for the datagrams, which have put    *)
(* the stream into the map, and one for the call of create_stream, as long  *)
(* as no two calls make the same handle.                                    *)

\* The calls of create_stream that make the handle s.
Creates(p, x, s) ==
    {cmd \in Commands[p] : /\ cmd.type = "CreateStream" /\ cmd.conn = x
                           /\ NewStream(cmd.index, cmd.reliability) = s}

Announced(p, x, s) == Count(events[p], {StreamCreated(x, s)})

Asked(p, x, s) == Count(cmds[p], Creates(p, x, s))

ByDatagram(p, x, s) == IF thread[p] = "exited" \/ s \in known_streams[p][x] THEN 1 ELSE 0

ByCall(p, s) == IF Created(p, s) THEN 1 ELSE 0

OnceOK(p, x, s) == Announced(p, x, s) + Asked(p, x, s) <= ByDatagram(p, x, s) + ByCall(p, s)

OnceInv == \A p \in Peers, x \in Conn, s \in StreamId : OnceOK(p, x, s)

LEMMA OnceTypes ==
    ASSUME TypeOK, NEW p \in Peers, NEW x, NEW s
    PROVE  /\ cmds[p] \in Seq(Commands[p]) /\ events[p] \in Seq(Events[p])
           /\ DOMAIN cmds = Peers /\ DOMAIN events = Peers /\ DOMAIN thread = Peers
           /\ DOMAIN next_stream_id = Peers /\ next_stream_id[p] \in 0 .. MaxStreams
           /\ known_streams \in [Peers -> [Conn -> SUBSET StreamId]]
           /\ Announced(p, x, s) \in Nat /\ Asked(p, x, s) \in Nat
           /\ ByDatagram(p, x, s) \in {0, 1} /\ ByCall(p, s) \in {0, 1}
<1>1. cmds[p] \in Seq(Commands[p]) /\ events[p] \in Seq(Events[p])
  BY DEF TypeOK, PeerTypeOK, CommandsTypeOK, EventsTypeOK
<1>2. Announced(p, x, s) \in Nat /\ Asked(p, x, s) \in Nat
  BY <1>1, CountType DEF Announced, Asked
<1>. QED
  BY <1>1, <1>2
     DEF TypeOK, PeerTypeOK, CommandsTypeOK, EventsTypeOK, ThreadsTypeOK, ByDatagram, ByCall

\* A step of p that leaves the others alone.
LEMMA OnceFrame ==
    ASSUME OnceInv, NEW p \in Peers,
           \A q \in Peers \ {p} :
               /\ cmds'[q] = cmds[q] /\ events'[q] = events[q] /\ thread'[q] = thread[q]
               /\ known_streams'[q] = known_streams[q] /\ next_stream_id'[q] = next_stream_id[q],
           \A x \in Conn, s \in StreamId : OnceOK(p, x, s)'
    PROVE  OnceInv'
<1>1. ASSUME NEW q \in Peers, NEW x \in Conn, NEW s \in StreamId PROVE OnceOK(q, x, s)'
  <2>1. CASE q = p
    BY <2>1
  <2>2. CASE q # p
    <3>1. /\ cmds'[q] = cmds[q] /\ events'[q] = events[q] /\ thread'[q] = thread[q]
          /\ known_streams'[q] = known_streams[q] /\ next_stream_id'[q] = next_stream_id[q]
      BY <2>2
    <3>2. /\ Announced(q, x, s)' = Announced(q, x, s) /\ Asked(q, x, s)' = Asked(q, x, s)
          /\ ByDatagram(q, x, s)' = ByDatagram(q, x, s) /\ ByCall(q, s)' = ByCall(q, s)
      BY <3>1 DEF Announced, Asked, ByDatagram, ByCall, Created, Creates
    <3>3. OnceOK(q, x, s)
      BY DEF OnceInv
    <3>. QED
      BY <3>2, <3>3 DEF OnceOK
  <2>. QED
    BY <2>1, <2>2
<1>. QED
  BY <1>1 DEF OnceInv

\* Of p nothing changes but what is counted.
LEMMA OnceStep ==
    ASSUME TypeOK, TypeOK', OnceInv, NEW p \in Peers,
           \A q \in Peers \ {p} : cmds'[q] = cmds[q] /\ events'[q] = events[q],
           UNCHANGED <<thread, known_streams, next_stream_id>>,
           \A x \in Conn, s \in StreamId :
               Announced(p, x, s)' + Asked(p, x, s)' <= Announced(p, x, s) + Asked(p, x, s)
    PROVE  OnceInv'
<1>1. ASSUME NEW x \in Conn, NEW s \in StreamId PROVE OnceOK(p, x, s)'
  <2>1. ByDatagram(p, x, s)' = ByDatagram(p, x, s) /\ ByCall(p, s)' = ByCall(p, s)
    BY DEF ByDatagram, ByCall, Created
  <2>2. OnceOK(p, x, s)
    BY DEF OnceInv
  <2>3. /\ Announced(p, x, s) \in Nat /\ Asked(p, x, s) \in Nat
        /\ ByDatagram(p, x, s) \in {0, 1} /\ ByCall(p, s) \in {0, 1}
    BY OnceTypes
  <2>4. Announced(p, x, s)' \in Nat /\ Asked(p, x, s)' \in Nat
    BY OnceTypes, CountType DEF TypeOK, PeerTypeOK, CommandsTypeOK, EventsTypeOK, Announced, Asked,
                                Creates
  <2>. QED
    BY <2>1, <2>2, <2>3, <2>4 DEF OnceOK
<1>. QED
  BY <1>1, OnceFrame

LEMMA SameOnce ==
    ASSUME TypeOK, OnceInv, UNCHANGED <<cmds, events, thread, known_streams, next_stream_id>>
    PROVE  OnceInv'
<1>1. ASSUME NEW x \in Conn, NEW s \in StreamId PROVE OnceOK(Server, x, s)'
  <2>1. OnceOK(Server, x, s)
    BY UdpAssumption DEF OnceInv
  <2>. QED
    BY <2>1 DEF OnceOK, Announced, Asked, ByDatagram, ByCall, Created, Creates
<1>. QED
  BY <1>1, OnceFrame, UdpAssumption

\* A call that creates nothing.
LEMMA CallOnce ==
    ASSUME TypeOK, TypeOK', OnceInv, NEW p \in Peers, NEW cmd, cmd.type # "CreateStream",
           SendCommand(p, cmd), UNCHANGED <<events, thread, known_streams, next_stream_id>>
    PROVE  OnceInv'
<1>1. cmds[p] \in Seq(Commands[p]) /\ cmds'[p] \in Seq(Commands[p]) /\ DOMAIN cmds = Peers
  BY DEF TypeOK, PeerTypeOK, CommandsTypeOK
<1>2. cmds'[p] = Append(cmds[p], cmd) /\ \A q \in Peers \ {p} : cmds'[q] = cmds[q]
  BY <1>1 DEF SendCommand
<1>3. cmd \in Commands[p]
  BY <1>1, <1>2, AppendedElement
<1>4. ASSUME NEW x \in Conn, NEW s \in StreamId
      PROVE  Announced(p, x, s)' = Announced(p, x, s) /\ Asked(p, x, s)' = Asked(p, x, s)
  <2>1. cmd \notin Creates(p, x, s)
    BY DEF Creates
  <2>2. Count(Append(cmds[p], cmd), Creates(p, x, s)) = Count(cmds[p], Creates(p, x, s))
    BY <1>1, <1>3, <2>1, CountAppend, CountType
  <2>. QED
    BY <1>2, <2>2 DEF Announced, Asked, Creates
<1>5. ASSUME NEW x \in Conn, NEW s \in StreamId
      PROVE  Announced(p, x, s)' + Asked(p, x, s)' <= Announced(p, x, s) + Asked(p, x, s)
  BY <1>4, OnceTypes
<1>. QED
  BY <1>2, <1>5, OnceStep

\* A call of create_stream takes an index that no call took before.
LEMMA CreateOnce ==
    ASSUME MaxStreams <= Slots, TypeOK, TypeOK', OnceInv, NEW p \in Peers, NEW y \in Conn,
           NEW r \in Kinds, AppCreateStream(p, y, r)
    PROVE  OnceInv'
<1>0. PICK n : n = next_stream_id[p] + 1
  OBVIOUS
<1> DEFINE h == NewStream(n, r)
           cmd == CreateStreamCmd(y, n, r)
<1>1. /\ next_stream_id[p] \in 0 .. MaxStreams /\ DOMAIN next_stream_id = Peers
      /\ cmds[p] \in Seq(Commands[p]) /\ cmds'[p] \in Seq(Commands[p]) /\ DOMAIN cmds = Peers
      /\ r \in Reliability
  BY OnceTypes, UdpAssumption DEF TypeOK, PeerTypeOK, CommandsTypeOK
<1>2. /\ next_stream_id[p] < MaxStreams
      /\ next_stream_id' = [next_stream_id EXCEPT ![p] = (@ + 1) % IdSpace]
      /\ \/ cmds' = [cmds EXCEPT ![p] = Append(@, CreateStreamCmd(y, next_stream_id'[p], r))]
         \/ UNCHANGED cmds
      /\ UNCHANGED <<events, thread, known_streams>>
  BY DEF AppCreateStream, CreateStream, SendCommand, udpVars, backendVars
<1>3. n \in 1 .. MaxStreams /\ n % IdSpace = n
  <2>1. n \in 1 .. MaxStreams /\ IdSpace \in Nat \ {0} /\ n \in 0 .. (IdSpace - 1)
    BY <1>0, <1>1, <1>2, MaxStreamsAssumption, SlotsAssumption DEF IdSpace
  <2>2. n = IdSpace * 0 + n /\ 0 \in Int
    BY <2>1
  <2>. QED
    BY <2>1, <2>2, RemainderUnique
<1>4. /\ next_stream_id'[p] = n
      /\ \A q \in Peers \ {p} : next_stream_id'[q] = next_stream_id[q] /\ cmds'[q] = cmds[q]
      /\ \/ cmds'[p] = Append(cmds[p], cmd)
         \/ cmds'[p] = cmds[p]
  BY <1>0, <1>1, <1>2, <1>3
<1>5. cmds'[p] = Append(cmds[p], cmd) => cmd \in Commands[p]
  BY <1>1, AppendedElement
<1>6. ASSUME NEW s \in StreamId
      PROVE  Created(p, s)' <=> Created(p, s) \/ \E q \in Reliability : s = NewStream(n, q)
  <2>1. 1 .. n = (1 .. next_stream_id[p]) \cup {n}
    BY <1>0, <1>1
  <2>. QED
    BY <1>4, <2>1 DEF Created
<1>7. ~Created(p, h) /\ Created(p, h)'
  <2>1. ASSUME NEW i \in 1 .. next_stream_id[p], NEW q \in Reliability, h = NewStream(i, q)
        PROVE  FALSE
    <3>1. i \in 1 .. MaxStreams /\ i # n
      BY <1>0, <1>1, MaxStreamsAssumption
    <3>. QED
      BY <1>1, <1>3, <2>1, <3>1, HandlesDiffer
  <2>2. h \in StreamId
    <3>1. n \in Nat
      BY <1>3, MaxStreamsAssumption
    <3>. QED
      BY <1>1, <3>1, HandleParts
  <2>3. ~Created(p, h)
    BY <2>1 DEF Created
  <2>. QED
    BY <1>1, <1>6, <2>2, <2>3
<1>8. ASSUME NEW x \in Conn, NEW s \in StreamId PROVE OnceOK(p, x, s)'
  <2>1. /\ Announced(p, x, s) \in Nat /\ Asked(p, x, s) \in Nat
        /\ ByDatagram(p, x, s) \in {0, 1} /\ ByCall(p, s) \in {0, 1} /\ OnceOK(p, x, s)
    BY OnceTypes DEF OnceInv
  <2>2. Announced(p, x, s)' = Announced(p, x, s) /\ ByDatagram(p, x, s)' = ByDatagram(p, x, s)
    BY <1>2 DEF Announced, ByDatagram
  <2>3. \/ Asked(p, x, s)' = Asked(p, x, s) + (IF cmd \in Creates(p, x, s) THEN 1 ELSE 0)
        \/ Asked(p, x, s)' = Asked(p, x, s)
    <3>1. CASE cmds'[p] = Append(cmds[p], cmd)
      <4>1. Count(Append(cmds[p], cmd), Creates(p, x, s))
                = Count(cmds[p], Creates(p, x, s)) + (IF cmd \in Creates(p, x, s) THEN 1 ELSE 0)
        <5> HIDE DEF cmd
        <5>. QED
          BY <1>1, <1>5, <3>1, CountAppend
      <4>. QED
        BY <3>1, <4>1 DEF Asked, Creates
    <3>2. CASE cmds'[p] = cmds[p]
      BY <3>2 DEF Asked, Creates
    <3>. QED
      BY <1>4, <3>1, <3>2
  <2>4. cmd \in Creates(p, x, s) => s = h
    BY DEF Creates, CreateStreamCmd
  <2>5. CASE s = h
    <3>1. ByCall(p, s) = 0 /\ ByCall(p, s)' = 1
      BY <1>7, <2>5 DEF ByCall
    <3>. QED
      BY <2>1, <2>2, <2>3, <3>1 DEF OnceOK
  <2>6. CASE s # h
    <3>1. ByCall(p, s)' \in {0, 1} /\ ByCall(p, s)' >= ByCall(p, s)
      BY <1>6 DEF ByCall
    <3>. QED
      BY <2>1, <2>2, <2>3, <2>4, <2>6, <3>1 DEF OnceOK
  <2>. QED
    BY <2>5, <2>6
<1>. QED
  BY <1>2, <1>4, <1>8, OnceFrame

LEMMA AppOnce ==
    ASSUME MaxStreams <= Slots, TypeOK, TypeOK', OnceInv, AppAction
    PROVE  OnceInv'
<1>1. CASE AppListen
  BY <1>1, CallOnce, UdpAssumption DEF AppListen, Listen, BindCmd, udpVars, backendVars
<1>2. ASSUME NEW c \in Clients, AppDial(c) PROVE OnceInv'
  BY <1>2, CallOnce DEF AppDial, Dial, ConnectCmd, udpVars, backendVars, Clients
<1>3. ASSUME NEW p \in Peers, NEW x \in Conn, NEW r \in Kinds, AppCreateStream(p, x, r)
      PROVE  OnceInv'
  BY <1>3, CreateOnce
<1>4. ASSUME NEW p \in Peers, NEW x \in Conn, NEW s, AppCloseStream(p, x, s)
      PROVE  OnceInv'
  BY <1>4, CallOnce DEF AppCloseStream, CloseStream, CloseStreamCmd, udpVars, backendVars
<1>5. ASSUME NEW p \in Peers, NEW x \in Conn, NEW s, AppSend(p, x, s) PROVE OnceInv'
  BY <1>5, CallOnce DEF AppSend, Send, SendCmd, backendVars
<1>6. ASSUME NEW p \in Peers, AppShutdown(p) PROVE OnceInv'
  BY <1>6, CallOnce DEF AppShutdown, Shutdown, ShutdownCmd, udpVars, backendVars
<1>7. ASSUME NEW p \in Peers, AppPoll(p) \/ AppJoin(p) PROVE OnceInv'
  <2>1. UNCHANGED <<cmds, events, thread, known_streams, next_stream_id>>
    BY <1>7 DEF AppPoll, AppJoin, Poll, Join, udpVars, backendVars
  <2>. QED
    BY <2>1, SameOnce
<1>. QED
  BY <1>1, <1>2, <1>3, <1>4, <1>5, <1>6, <1>7 DEF AppAction

\* A command that announces no stream.
LEMMA TakenOnce ==
    ASSUME TypeOK, TypeOK', OnceInv, NEW p \in Peers, NEW type, HandlesQuietly(p, type),
           UNCHANGED known_streams,
           events' = events \/ \E y \in Events[p] : Emit(p, <<y>>) /\ y.type # "StreamCreated"
    PROVE  OnceInv'
<1>1. /\ cmds[p] \in Seq(Commands[p]) /\ events[p] \in Seq(Events[p]) /\ cmds[p] # <<>>
      /\ DOMAIN cmds = Peers /\ DOMAIN events = Peers
      /\ cmds' = [cmds EXCEPT ![p] = Tail(@)] /\ UNCHANGED <<thread, next_stream_id>>
  BY OnceTypes
  DEF TypeOK, PeerTypeOK, CommandsTypeOK, EventsTypeOK, HandlesQuietly, Receives, TakeCommand
<1>2. cmds'[p] = Tail(cmds[p]) /\ Tail(cmds[p]) \in Seq(Commands[p])
  BY <1>1, HeadTailProperties
<1>3. \A q \in Peers \ {p} : cmds'[q] = cmds[q] /\ events'[q] = events[q]
  BY <1>1 DEF Emit
<1>4. ASSUME NEW x \in Conn, NEW s \in StreamId PROVE Announced(p, x, s)' = Announced(p, x, s)
  <2>1. CASE events' = events
    BY <2>1 DEF Announced
  <2>2. ASSUME NEW y \in Events[p], Emit(p, <<y>>), y.type # "StreamCreated"
        PROVE  Announced(p, x, s)' = Announced(p, x, s)
    <3>1. events'[p] = Append(events[p], y)
      BY <1>1, <2>2, AppendIsConcat DEF Emit
    <3>2. y \notin {StreamCreated(x, s)}
      BY <2>2 DEF StreamCreated
    <3>3. Count(Append(events[p], y), {StreamCreated(x, s)}) = Count(events[p], {StreamCreated(x, s)})
      BY <1>1, <3>2, CountAppend, CountType
    <3>. QED
      BY <3>1, <3>3 DEF Announced
  <2>. QED
    BY <2>1, <2>2
<1>5. ASSUME NEW x \in Conn, NEW s \in StreamId
      PROVE  Announced(p, x, s)' + Asked(p, x, s)' <= Announced(p, x, s) + Asked(p, x, s)
  <2>1. /\ Count(cmds[p], Creates(p, x, s)) =
              Count(Tail(cmds[p]), Creates(p, x, s))
                  + (IF Head(cmds[p]) \in Creates(p, x, s) THEN 1 ELSE 0)
        /\ Count(Tail(cmds[p]), Creates(p, x, s)) \in Nat
    BY <1>1, <1>2, CountTail, CountType
  <2>2. Asked(p, x, s) = Count(cmds[p], Creates(p, x, s))
        /\ Asked(p, x, s)' = Count(Tail(cmds[p]), Creates(p, x, s))
    BY <1>2 DEF Asked, Creates
  <2>3. Announced(p, x, s) \in Nat
    BY OnceTypes
  <2>. QED
    BY <1>4, <2>1, <2>2, <2>3
<1>. QED
  BY <1>1, <1>3, <1>5, OnceStep

\* create_stream is answered: what was asked for is announced.
LEMMA AnsweredOnce ==
    ASSUME TypeOK, TypeOK', OnceInv, NEW p \in Peers, BackendCreateStream(p)
    PROVE  OnceInv'
<1> DEFINE cmd == Head(cmds[p])
           y == StreamCreated(cmd.conn, NewStream(cmd.index, cmd.reliability))
<1>1. HandlesQuietly(p, "CreateStream") /\ Emit(p, <<y>>) /\ UNCHANGED known_streams
  BY DEF BackendCreateStream, backendVars
<1>2. /\ cmds[p] \in Seq(Commands[p]) /\ events[p] \in Seq(Events[p]) /\ cmds[p] # <<>>
      /\ DOMAIN cmds = Peers /\ DOMAIN events = Peers /\ cmd \in Commands[p]
      /\ cmds' = [cmds EXCEPT ![p] = Tail(@)] /\ UNCHANGED <<thread, next_stream_id>>
      /\ cmd.type = "CreateStream"
  BY <1>1, HeadCommandType
  DEF TypeOK, PeerTypeOK, CommandsTypeOK, EventsTypeOK, HandlesQuietly, Receives,
                               TakeCommand
<1>3. cmds'[p] = Tail(cmds[p]) /\ Tail(cmds[p]) \in Seq(Commands[p])
  BY <1>2, HeadTailProperties
<1>4. y \in Events[p]
  BY <1>2, CommandParts, HandleType, EventTypes
<1>5. events'[p] = Append(events[p], y)
  <2> HIDE DEF y
  <2>. QED
    BY <1>1, <1>2, <1>4, AppendIsConcat DEF Emit
<1>6. \A q \in Peers \ {p} : cmds'[q] = cmds[q] /\ events'[q] = events[q]
  BY <1>1, <1>2 DEF Emit
<1>7. ASSUME NEW x \in Conn, NEW s \in StreamId
      PROVE  Announced(p, x, s)' + Asked(p, x, s)' <= Announced(p, x, s) + Asked(p, x, s)
  <2>1. cmd \in Creates(p, x, s) <=> y \in {StreamCreated(x, s)}
    BY <1>2 DEF Creates, StreamCreated
  <2> HIDE DEF y, cmd
  <2>2. /\ Count(cmds[p], Creates(p, x, s)) =
              Count(Tail(cmds[p]), Creates(p, x, s)) + (IF cmd \in Creates(p, x, s) THEN 1 ELSE 0)
        /\ Count(Tail(cmds[p]), Creates(p, x, s)) \in Nat
    BY <1>2, <1>3, CountTail, CountType DEF cmd
  <2>3. /\ Count(Append(events[p], y), {StreamCreated(x, s)}) =
              Count(events[p], {StreamCreated(x, s)}) + (IF y \in {StreamCreated(x, s)} THEN 1 ELSE 0)
        /\ Count(events[p], {StreamCreated(x, s)}) \in Nat
    BY <1>2, <1>4, CountAppend, CountType
  <2>4. /\ Asked(p, x, s) = Count(cmds[p], Creates(p, x, s))
        /\ Asked(p, x, s)' = Count(Tail(cmds[p]), Creates(p, x, s))
        /\ Announced(p, x, s) = Count(events[p], {StreamCreated(x, s)})
        /\ Announced(p, x, s)' = Count(Append(events[p], y), {StreamCreated(x, s)})
    BY <1>3, <1>5 DEF Asked, Announced, Creates
  <2>. QED
    BY <2>1, <2>2, <2>3, <2>4
<1>. QED
  BY <1>1, <1>2, <1>6, <1>7, OnceStep

\* A process that has nothing left.
LEMMA EmptiedOnce ==
    ASSUME TypeOK, TypeOK', OnceInv, NEW p \in Peers,
           cmds' = [cmds EXCEPT ![p] = <<>>],
           \/ events' = [events EXCEPT ![p] = <<>>]
           \/ UNCHANGED <<events, next_stream_id>> /\ thread'[p] = "exited",
           \A q \in Peers \ {p} : /\ thread'[q] = thread[q] /\ known_streams'[q] = known_streams[q]
                                  /\ next_stream_id'[q] = next_stream_id[q]
    PROVE  OnceInv'
<1>1. DOMAIN cmds = Peers /\ DOMAIN events = Peers
  BY DEF TypeOK, PeerTypeOK, CommandsTypeOK, EventsTypeOK
<1>2. \A q \in Peers \ {p} : cmds'[q] = cmds[q] /\ events'[q] = events[q]
  BY <1>1
<1>3. ASSUME NEW x \in Conn, NEW s \in StreamId PROVE OnceOK(p, x, s)'
  <2>1. /\ Announced(p, x, s) \in Nat /\ Asked(p, x, s) \in Nat
        /\ ByDatagram(p, x, s) \in {0, 1} /\ ByCall(p, s) \in {0, 1} /\ OnceOK(p, x, s)
    BY OnceTypes DEF OnceInv
  <2>2. ByDatagram(p, x, s)' \in {0, 1} /\ ByCall(p, s)' \in {0, 1}
    BY DEF ByDatagram, ByCall
  <2>3. Asked(p, x, s)' = 0
    BY <1>1, CountEmpty DEF Asked
  <2>4. CASE events' = [events EXCEPT ![p] = <<>>]
    <3>1. Announced(p, x, s)' = 0
      BY <1>1, <2>4, CountEmpty DEF Announced
    <3>. QED
      BY <2>2, <2>3, <3>1 DEF OnceOK
  <2>5. CASE UNCHANGED <<events, next_stream_id>> /\ thread'[p] = "exited"
    <3>1. /\ Announced(p, x, s)' = Announced(p, x, s) /\ ByDatagram(p, x, s)' = 1
          /\ ByCall(p, s)' = ByCall(p, s)
      BY <2>5 DEF Announced, ByDatagram, ByCall, Created
    <3>. QED
      BY <2>1, <2>3, <3>1 DEF OnceOK
  <2>. QED
    BY <2>4, <2>5
<1>. QED
  BY <1>2, <1>3, OnceFrame

LEMMA CommandOnce ==
    ASSUME TypeOK, TypeOK', OnceInv, NEW p \in Peers, HandleCommand(p)
    PROVE  OnceInv'
<1>1. CASE p = Server /\ Bind
  BY <1>1, TakenOnce DEF Bind
<1>2. CASE p \in Clients /\ Connect(p)
  <2>1. PICK y : y = Connected(<<p, dials[p] + 1>>)
    OBVIOUS
  <2>2. /\ HandlesQuietly(p, "Connect") /\ UNCHANGED known_streams /\ Emit(p, <<y>>)
        /\ y.type # "StreamCreated"
    BY <1>2, <2>1 DEF Connect, Connected
  <2>3. y \in Events[p]
    <3>1. /\ events[p] \in Seq(Events[p]) /\ DOMAIN events = Peers
          /\ events'[p] \in Seq(Events[p])
      BY DEF TypeOK, PeerTypeOK, EventsTypeOK
    <3>2. events'[p] = events[p] \o <<y>>
      BY <2>2, <3>1 DEF Emit
    <3>3. events'[p] = Append(events[p], y)
      BY <3>1, <3>2
    <3>. QED
      BY <3>1, <3>3, AppendedElement
  <2>. QED
    BY <2>2, <2>3, TakenOnce
<1>3. CASE p \in Clients /\ ConnectByName(p)
  BY <1>3, TakenOnce DEF ConnectByName
<1>4. CASE SendDropped(p)
  BY <1>4, TakenOnce DEF SendDropped, backendVars
<1>5. CASE SendDatagram(p)
  BY <1>5, TakenOnce DEF SendDatagram, backendVars
<1>6. CASE BackendCloseStream(p)
  <2>1. HandlesQuietly(p, "CloseStream") /\ UNCHANGED known_streams
    BY <1>6 DEF BackendCloseStream, backendVars
  <2>2. /\ Head(cmds[p]) \in Commands[p] /\ Head(cmds[p]).type = "CloseStream"
    BY <2>1, QuietType DEF TypeOK
  <2>3. PICK y \in Events[p] : Emit(p, <<y>>) /\ y.type # "StreamCreated"
    <3>1. StreamClosed(HeadConn(p), Head(cmds[p]).stream) \in Events[p]
      BY <2>2, CommandParts, EventTypes DEF HeadConn
    <3>. QED
      BY <1>6, <3>1 DEF BackendCloseStream, StreamClosed
  <2>. QED
    BY <2>1, <2>3, TakenOnce
<1>7. CASE BackendShutdown(p)
  <2>1. /\ cmds' = [cmds EXCEPT ![p] = <<>>] /\ UNCHANGED <<events, next_stream_id>>
        /\ thread' = [thread EXCEPT ![p] = "exited"] /\ DOMAIN thread = Peers
        /\ known_streams' = [known_streams EXCEPT ![p] = [x \in Conn |-> {}]]
        /\ DOMAIN known_streams = Peers
    BY <1>7 DEF BackendShutdown, Stop, ThreadExits, TypeOK, PeerTypeOK, ThreadsTypeOK
  <2>2. /\ thread'[p] = "exited"
        /\ \A q \in Peers \ {p} : /\ thread'[q] = thread[q] /\ known_streams'[q] = known_streams[q]
                                  /\ next_stream_id'[q] = next_stream_id[q]
    BY <2>1
  <2>. QED
    BY <2>1, <2>2, EmptiedOnce
<1>. QED
  BY <1>1, <1>2, <1>3, <1>4, <1>5, <1>6, <1>7, AnsweredOnce DEF HandleCommand

\* The datagram d is the first of the stream.
Fresh(p, d, x, s) ==
    x = d.conn /\ s = d.packet.stream /\ d.packet.stream \notin known_streams[p][d.conn]

\* The events of a datagram announce its stream if it is not in the map.
LEMMA NewsOnce ==
    ASSUME NEW p \in Peers, NEW s \in Seq(Events[p]), NEW d \in Datagram, NEW x, NEW stream,
           NEW y, y = StreamCreated(x, stream)
    PROVE  Count(s \o NewsOf(p, d), {y}) = Count(s, {y}) + (IF Fresh(p, d, x, stream) THEN 1 ELSE 0)
<1> DEFINE new == connections[p][d.conn] = Nowhere
           unknown == d.packet.stream \notin known_streams[p][d.conn]
<1>1. PICK c, n, m : /\ c = Connected(d.conn) /\ n = StreamCreated(d.conn, d.packet.stream)
                     /\ m = Message(d.conn, Received(d))
  OBVIOUS
<1>2. PICK E : E = Events[p]
  OBVIOUS
<1>3. c \in E /\ n \in E /\ m \in E /\ s \in Seq(E)
  BY <1>1, <1>2, ReceivedType, EventTypes DEF Packet
<1>4. /\ c \notin {y} /\ m \notin {y}
      /\ n \in {y} <=> x = d.conn /\ stream = d.packet.stream
  BY <1>1 DEF Connected, StreamCreated, Message
<1>5. PICK u \in Seq(E) : u = (IF new THEN Append(s, c) ELSE s) /\ Count(u, {y}) = Count(s, {y})
  <2>1. Append(s, c) \in Seq(E) /\ Count(Append(s, c), {y}) = Count(s, {y})
    BY <1>3, <1>4, AppendType, CountAppend, CountType
  <2>. QED
    BY <1>3, <2>1
<1>6. PICK v \in Seq(E) :
          /\ v = IF unknown THEN Append(u, n) ELSE u
          /\ Count(v, {y}) = Count(u, {y}) + (IF unknown /\ n \in {y} THEN 1 ELSE 0)
  <2>1. /\ Append(u, n) \in Seq(E)
        /\ Count(Append(u, n), {y}) = Count(u, {y}) + (IF n \in {y} THEN 1 ELSE 0)
        /\ Count(u, {y}) \in Nat
    BY <1>3, AppendType, CountAppend, CountType
  <2>2. CASE unknown
    BY <2>1, <2>2
  <2>3. CASE ~unknown
    BY <2>1, <2>3
  <2>. QED
    BY <2>2, <2>3
<1>7. Count(Append(v, m), {y}) = Count(v, {y})
  BY <1>3, <1>4, CountAppend, CountType
<1>8. s \o NewsOf(p, d) = Append(v, m)
  <2>1. Announces(p, d, s, u, v)
    BY <1>1, <1>5, <1>6 DEF Announces
  <2>. QED
    BY <1>1, <2>1, NewsAppended
<1>9. Fresh(p, d, x, stream) <=> unknown /\ n \in {y}
  BY <1>4 DEF Fresh
<1>10. Count(s, {y}) \in Nat
  BY <1>3, CountType
<1> HIDE DEF unknown
<1>. QED
  BY <1>5, <1>6, <1>7, <1>8, <1>9, <1>10

LEMMA ReceiveOnce ==
    ASSUME TypeOK, TypeOK', OnceInv, NEW p \in Peers, NEW d \in net, Receive(p, d)
    PROVE  OnceInv'
<1>1. /\ d \in Datagram /\ d.conn \in Conn /\ d.packet.stream \in StreamId
      /\ events[p] \in Seq(Events[p]) /\ DOMAIN events = Peers
      /\ known_streams \in [Peers -> [Conn -> SUBSET StreamId]] /\ thread[p] = "running"
  <2>1. d \in Datagram
    BY DEF TypeOK
  <2>. QED
    BY <2>1, ReceivedType DEF TypeOK, PeerTypeOK, EventsTypeOK, Receive, Packet
<1>2. PICK news : news = NewsOf(p, d)
  OBVIOUS
<1>3. /\ events' = [events EXCEPT ![p] = @ \o news] /\ UNCHANGED <<cmds, thread, next_stream_id>>
      /\ known_streams' = [known_streams EXCEPT ![p][d.conn] = @ \cup {d.packet.stream}]
  BY <1>2 DEF Receive, ProcessPacket, Emit, NewsOf
<1>4. /\ events'[p] = events[p] \o news
      /\ known_streams'[p][d.conn] = known_streams[p][d.conn] \cup {d.packet.stream}
      /\ \A x \in Conn \ {d.conn} : known_streams'[p][x] = known_streams[p][x]
      /\ \A q \in Peers \ {p} : events'[q] = events[q] /\ known_streams'[q] = known_streams[q]
  BY <1>1, <1>3
<1>5. ASSUME NEW x \in Conn, NEW s \in StreamId PROVE OnceOK(p, x, s)'
  <2>1. /\ Announced(p, x, s) \in Nat /\ Asked(p, x, s) \in Nat
        /\ ByDatagram(p, x, s) \in {0, 1} /\ ByCall(p, s) \in {0, 1} /\ OnceOK(p, x, s)
    BY OnceTypes DEF OnceInv
  <2>2. Announced(p, x, s)' = Announced(p, x, s) + (IF Fresh(p, d, x, s) THEN 1 ELSE 0)
    <3>1. PICK y, t : y = StreamCreated(x, s) /\ t = events'[p]
      OBVIOUS
    <3>2. events[p] \in Seq(Events[p]) /\ d \in Datagram /\ t = events[p] \o NewsOf(p, d)
      BY <1>1, <1>2, <1>4, <3>1
    <3>3. Count(events[p] \o NewsOf(p, d), {y}) =
              Count(events[p], {y}) + (IF Fresh(p, d, x, s) THEN 1 ELSE 0)
      BY <3>1, <3>2, NewsOnce
    <3>. QED
      BY <3>1, <3>2, <3>3 DEF Announced
  <2>3. Asked(p, x, s)' = Asked(p, x, s) /\ ByCall(p, s)' = ByCall(p, s)
    BY <1>3 DEF Asked, ByCall, Created, Creates
  <2>4. ByDatagram(p, x, s)' = ByDatagram(p, x, s) + (IF Fresh(p, d, x, s) THEN 1 ELSE 0)
    <3>1. thread'[p] = "running"
      BY <1>1, <1>3
    <3>2. CASE x = d.conn
      BY <1>1, <1>4, <3>1, <3>2 DEF ByDatagram, Fresh
    <3>3. CASE x # d.conn
      BY <1>1, <1>3, <1>4, <3>1, <3>3 DEF ByDatagram, Fresh
    <3>. QED
      BY <3>2, <3>3
  <2>. QED
    BY <2>1, <2>2, <2>3, <2>4 DEF OnceOK
<1>. QED
  BY <1>3, <1>4, <1>5, OnceFrame

LEMMA OnceInit == Init => OnceInv
<1> SUFFICES ASSUME Init, NEW p \in Peers, NEW x \in Conn, NEW s \in StreamId PROVE OnceOK(p, x, s)
  BY DEF OnceInv
<1>1. cmds[p] = <<>> /\ events[p] = <<>>
  BY DEF Init, PeerInit
<1>2. Announced(p, x, s) = 0 /\ Asked(p, x, s) = 0
  BY <1>1, CountEmpty DEF Announced, Asked
<1>. QED
  BY <1>2 DEF OnceOK, ByDatagram, ByCall

LEMMA OnceNext ==
    ASSUME MaxStreams <= Slots
    PROVE  TypeInv /\ TypeInv' /\ OnceInv /\ [Next]_vars => OnceInv'
<1> SUFFICES ASSUME TypeInv, TypeInv', OnceInv, [Next]_vars PROVE OnceInv'
  OBVIOUS
<1>1. TypeOK /\ TypeOK'
  BY DEF TypeInv
<1>2. CASE AppAction
  BY <1>1, <1>2, AppOnce
<1>3. CASE Restart
  <2>1. /\ cmds' = [cmds EXCEPT ![Server] = <<>>] /\ events' = [events EXCEPT ![Server] = <<>>]
        /\ thread' = [thread EXCEPT ![Server] = "running"]
        /\ next_stream_id' = [next_stream_id EXCEPT ![Server] = 0]
        /\ known_streams' = [known_streams EXCEPT ![Server] = [x \in Conn |-> {}]]
        /\ DOMAIN thread = Peers /\ DOMAIN next_stream_id = Peers /\ DOMAIN known_streams = Peers
        /\ Server \in Peers
    BY <1>1, <1>3, UdpAssumption DEF Restart, TypeOK, PeerTypeOK, ThreadsTypeOK
  <2>2. \A q \in Peers \ {Server} : /\ thread'[q] = thread[q] /\ known_streams'[q] = known_streams[q]
                                    /\ next_stream_id'[q] = next_stream_id[q]
    BY <2>1
  <2>. QED
    BY <1>1, <2>1, <2>2, EmptiedOnce
<1>4. ASSUME NEW c \in Clients, Move(c) PROVE OnceInv'
  BY <1>1, <1>4, SameOnce DEF Move, peerVars, backendVars
<1>5. CASE UNCHANGED vars
  BY <1>1, <1>5, SameOnce DEF vars, peerVars, udpVars, backendVars
<1>. QED
  BY <1>1, <1>2, <1>3, <1>4, <1>5, CommandOnce, ReceiveOnce DEF Next

\* A stream is announced once by the datagrams and once in answer to
\* create_stream, for any number of datagrams, duplicates and restarts, while
\* the indices of streams do not come round.
LEMMA OnceTheorem ==
    ASSUME MaxStreams <= Slots
    PROVE  Spec => []AnnouncedOnce
<1>1. ASSUME TypeOK, OnceInv PROVE AnnouncedOnce
  <2> SUFFICES ASSUME NEW p \in Peers, NEW y \in ToSet(events[p]), y.type = "StreamCreated"
               PROVE  Times(p, y) <= IF Created(p, y.stream) THEN 2 ELSE 1
    BY DEF AnnouncedOnce
  <2>1. y \in Events[p]
    BY <1>1, ElemsType DEF TypeOK, PeerTypeOK, EventsTypeOK, ToSet, Elems
  <2>2. PICK x \in Conn, s \in StreamId : y = StreamCreated(x, s)
    BY <2>1
    DEF Events, Event, Connected, Disconnected, ConnectError, Message, StreamCreated, StreamClosed
  <2>3. Times(p, y) = Announced(p, x, s) /\ y.stream = s
    <3>1. {i \in DOMAIN events[p] : events[p][i] = y} = At(events[p], {StreamCreated(x, s)})
      BY <2>2 DEF At
    <3>. QED
      BY <2>2, <3>1 DEF Times, Announced, Count, StreamCreated
  <2>4. /\ Announced(p, x, s) \in Nat /\ Asked(p, x, s) \in Nat
        /\ ByDatagram(p, x, s) \in {0, 1} /\ OnceOK(p, x, s)
    BY <1>1, OnceTypes DEF OnceInv
  <2>. QED
    BY <2>3, <2>4 DEF OnceOK, ByCall
<1>2. TypeInv /\ OnceInv => AnnouncedOnce
  BY <1>1 DEF TypeInv
<1>3. TypeInv /\ TypeInv' /\ OnceInv /\ [Next]_vars => OnceInv'
  BY OnceNext
<1>. QED
  BY <1>2, <1>3, TypeInit, TypeStep, OnceInit, PTL DEF Spec

\* On every process, for any number of connections and datagrams: Connected
\* comes once and first, a message after its stream, and a stream once.
THEOREM EventsTheorem ==
    ASSUME MaxStreams <= Slots
    PROVE  Spec => []EventsInOrder
<1>1. ConnectedOnceAndFirst /\ MessagesAnnounced /\ AnnouncedOnce => EventsInOrder
  BY DEF EventsInOrder
<1>. QED
  BY <1>1, OrderTheorem, OnceTheorem, PTL

===============================================================================
