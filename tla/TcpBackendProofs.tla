--------------------------- MODULE TcpBackendProofs ---------------------------
(***************************************************************************)
(* Theorems about TcpBackend, for any number of clients, any capacities of *)
(* the queues and sockets, and any bounds:                                 *)
(*  - every queue and map holds what it may (TypeOK);                      *)
(*  - nothing accepted is lost, duplicated or reordered (NothingLost, and  *)
(*    the refinement of ReliableLinks);                                    *)
(*  - the accept task neither loses nor doubles a registration             *)
(*    (HandlerReachable), what the tasks tell an application of a          *)
(*    connection is in order (EventsInOrder), and no send of a dialing     *)
(*    side is dropped (DialerSendsAccepted).                               *)
(***************************************************************************)
EXTENDS TcpBackend, GamePeerProofs

-------------------------------------------------------------------------------
(* Ends, commands and events *)

LEMMA EndFacts ==
    ASSUME NEW e \in Ends
    PROVE  /\ Owner(e) \in Peers /\ e \in EndsOf(Owner(e))
           /\ Other(e) \in Ends /\ Other(Other(e)) = e /\ Other(e) # e
           /\ e[1] \in Clients /\ Other(e)[1] = e[1]
BY TcpAssumption DEF Ends, DialEnds, AcceptEnds, Clients, Owner, Other, EndsOf

LEMMA ClientEnds ==
    ASSUME NEW c \in Clients
    PROVE  /\ <<c, "dial">> \in DialEnds /\ <<c, "accept">> \in AcceptEnds
           /\ <<c, "dial">> \in Ends /\ <<c, "accept">> \in Ends
           /\ Owner(<<c, "dial">>) = c /\ Owner(<<c, "accept">>) = Server
           /\ Other(<<c, "dial">>) = <<c, "accept">> /\ c \in Peers
BY DEF Ends, DialEnds, AcceptEnds, Clients, Owner, Other

LEMMA EndsOfFacts ==
    ASSUME NEW p \in Peers, NEW e \in EndsOf(p)
    PROVE  e \in Ends /\ Owner(e) = p
BY DEF EndsOf

LEMMA CommandTypes ==
    ASSUME NEW p \in Peers
    PROVE  /\ {BindCmd, ConnectCmd, ShutdownCmd} \subseteq TcpCommand[p]
           /\ \A e \in EndsOf(p), m \in Packet : SendCmd(e, m) \in TcpCommand[p]
           /\ \A e \in EndsOf(p), i \in StreamId, r \in Reliability :
                  CreateStreamCmd(e, i, r) \in TcpCommand[p]
           /\ \A e \in EndsOf(p), s \in StreamId : CloseStreamCmd(e, s) \in TcpCommand[p]
BY DEF TcpCommand, Command

LEMMA SendCommandParts ==
    ASSUME NEW p \in Peers, NEW cmd \in TcpCommand[p], cmd.type = "Send"
    PROVE  cmd.conn \in EndsOf(p) /\ cmd.packet \in Packet
BY DEF TcpCommand, Command, BindCmd, ConnectCmd, ShutdownCmd, SendCmd, CreateStreamCmd, CloseStreamCmd

LEMMA CreateStreamCommandParts ==
    ASSUME NEW p \in Peers, NEW cmd \in TcpCommand[p], cmd.type = "CreateStream"
    PROVE  cmd.conn \in EndsOf(p) /\ cmd.index \in StreamId /\ cmd.reliability \in Reliability
BY DEF TcpCommand, Command, BindCmd, ConnectCmd, ShutdownCmd, SendCmd, CreateStreamCmd, CloseStreamCmd

LEMMA CloseStreamCommandParts ==
    ASSUME NEW p \in Peers, NEW cmd \in TcpCommand[p], cmd.type = "CloseStream"
    PROVE  cmd.conn \in EndsOf(p) /\ cmd.stream \in StreamId
BY DEF TcpCommand, Command, BindCmd, ConnectCmd, ShutdownCmd, SendCmd, CreateStreamCmd, CloseStreamCmd

LEMMA EventTypes ==
    ASSUME NEW p \in Peers
    PROVE  /\ ConnectError \in TcpEvent[p]
           /\ \A e \in EndsOf(p) : Connected(e) \in TcpEvent[p] /\ Disconnected(e) \in TcpEvent[p]
           /\ \A e \in EndsOf(p), m \in Packet : Message(e, m) \in TcpEvent[p]
           /\ \A e \in EndsOf(p), s \in StreamId :
                  StreamCreated(e, s) \in TcpEvent[p] /\ StreamClosed(e, s) \in TcpEvent[p]
BY DEF TcpEvent, Event

LEMMA StreamCreatedParts ==
    ASSUME NEW p \in Peers, NEW x \in TcpEvent[p], x.type = "StreamCreated"
    PROVE  x.stream \in StreamId
BY DEF TcpEvent, Event, Connected, Disconnected, ConnectError, Message, StreamCreated, StreamClosed

\* What an application knows is a handle.
LEMMA KnownStreamsType ==
    ASSUME EventsTypeOK(TcpEvent), NEW p \in Peers, NEW e
    PROVE  KnownStreams(p, e) \subseteq StreamId
<1> SUFFICES ASSUME NEW i \in 1 .. polled[p], events[p][i].type = "StreamCreated"
             PROVE  events[p][i].stream \in StreamId
  BY DEF KnownStreams, Seen
<1>1. /\ events[p] \in Seq(TcpEvent[p]) /\ polled[p] <= Len(events[p])
      /\ polled[p] \in Nat /\ Len(events[p]) \in Nat
  BY LenProperties DEF EventsTypeOK
<1>2. i \in 1 .. Len(events[p])
  BY <1>1
<1>3. events[p][i] \in TcpEvent[p]
  BY <1>1, <1>2, ElementOfSeq
<1>. QED
  BY <1>3, StreamCreatedParts

LEMMA HandleType ==
    ASSUME NEW i \in StreamId, NEW r \in Reliability
    PROVE  NewStream(i, r) \in StreamId
BY HandleParts DEF StreamId, IdSpace

-------------------------------------------------------------------------------
(* What the steps share *)

\* The application's calls: one command more, and tcpVars as the call says.
LEMMA CallType ==
    ASSUME TypeOK, NEW p \in Peers, NEW cmd \in TcpCommand[p], SendCommand(p, cmd),
           UNCHANGED <<events, polled>>, ThreadsTypeOK'
    PROVE  PeerTypeOK(TcpCommand, TcpEvent)'
BY SendCommandType, UnchangedEventsType DEF TypeOK, PeerTypeOK

\* A command of the backend.
LEMMA QuietType ==
    ASSUME TypeOK, NEW p \in Peers, NEW type, HandlesQuietly(p, type)
    PROVE  /\ CommandsTypeOK(TcpCommand)' /\ ThreadsTypeOK' /\ UNCHANGED polled
           /\ Head(cmds[p]) \in TcpCommand[p] /\ Head(cmds[p]).type = type
           /\ \A e \in EndsOf(p) : waiting[e] = <<>>
<1>1. cmds[p] # <<>> /\ TakeCommand(p) /\ Head(cmds[p]).type = type
  BY DEF HandlesQuietly, Handles, Receives
<1>2. CommandsTypeOK(TcpCommand) /\ ThreadsTypeOK
  BY DEF TypeOK, PeerTypeOK
<1>3. CommandsTypeOK(TcpCommand)' /\ Head(cmds[p]) \in TcpCommand[p]
  BY <1>1, <1>2, TakeCommandType, HeadCommandType
<1>4. ThreadsTypeOK' /\ UNCHANGED polled
  BY <1>2, UnchangedThreadsType DEF HandlesQuietly
<1>. QED
  BY <1>1, <1>3, <1>4 DEF HandlesQuietly, Handles, Blocked

LEMMA SendParts ==
    ASSUME TypeOK, NEW p \in Peers, HandlesQuietly(p, "Send")
    PROVE  HeadConn(p) \in EndsOf(p) /\ HeadConn(p) \in Ends /\ Owner(HeadConn(p)) = p
           /\ HeadPacket(p) \in Packet /\ waiting[HeadConn(p)] = <<>>
BY QuietType, SendCommandParts, EndsOfFacts DEF HeadConn, HeadPacket

\* One event more.
LEMMA EmitOneType ==
    ASSUME TypeOK, NEW p \in Peers, NEW x \in TcpEvent[p], Emit(p, <<x>>), UNCHANGED polled
    PROVE  EventsTypeOK(TcpEvent)'
BY OneType, EmitType DEF TypeOK, PeerTypeOK

LEMMA SameEventsType ==
    ASSUME TypeOK, UNCHANGED <<events, polled>>
    PROVE  EventsTypeOK(TcpEvent)'
BY UnchangedEventsType DEF TypeOK, PeerTypeOK

LEMMA SamePeerType ==
    ASSUME TypeOK, UNCHANGED peerVars
    PROVE  PeerTypeOK(TcpCommand, TcpEvent)'
BY UnchangedCommandsType, UnchangedEventsType, UnchangedThreadsType DEF TypeOK, PeerTypeOK, peerVars

LEMMA SameThreadsType ==
    ASSUME TypeOK, UNCHANGED <<next_stream_id, app, thread>>
    PROVE  ThreadsTypeOK'
BY UnchangedThreadsType DEF TypeOK, PeerTypeOK

LEMMA SameTcpType ==
    ASSUME TypeOK, UNCHANGED tcpVars
    PROVE  AcceptTypeOK' /\ LinkTypeOK' /\ HistoryTypeOK'
BY DEF TypeOK, AcceptTypeOK, LinkTypeOK, HistoryTypeOK, tcpVars

LEMMA OnePacket ==
    ASSUME NEW S, NEW x \in S
    PROVE  <<x>> \in AtMostOne(S) /\ <<>> \in AtMostOne(S)
BY DEF AtMostOne

LEMMA AtMostOneType ==
    ASSUME NEW S, NEW s \in AtMostOne(S)
    PROVE  s \in Seq(S) /\ Len(s) <= 1 /\ (s # <<>> => \E x \in S : s = <<x>>)
<1>1. CASE s = <<>>
  BY <1>1, EmptySeq
<1>2. ASSUME NEW x \in S, s = <<x>> PROVE s \in Seq(S) /\ Len(s) <= 1
  BY <1>2, OneType
<1>. QED
  BY <1>1, <1>2 DEF AtMostOne

\* create_stream queues its command, or is refused.
LEMMA CreateParts ==
    ASSUME TypeOK, NEW e \in Ends, NEW r \in Kinds, AppCreateStream(e, r)
    PROVE  /\ Owner(e) \in Peers /\ KnowsConnection(Owner(e), e) /\ ThreadsTypeOK'
           /\ UNCHANGED tcpVars /\ UNCHANGED <<events, polled>>
           /\ \E x \in TcpCommand[Owner(e)] :
                 /\ x.type = "CreateStream" /\ x.conn = e /\ x.index = next_stream_id'[Owner(e)]
                 /\ SendCommand(Owner(e), x) \/ UNCHANGED cmds
<1>1. PICK p \in Peers : p = Owner(e) /\ e \in EndsOf(p) /\ r \in Reliability
  BY EndFacts, TcpAssumption
<1>2. ThreadsTypeOK /\ CreateStream(p, e, r) /\ UNCHANGED tcpVars
  BY <1>1 DEF TypeOK, PeerTypeOK, AppCreateStream
<1>3. /\ KnowsConnection(p, e) /\ ThreadsTypeOK' /\ UNCHANGED <<events, polled>>
      /\ next_stream_id'[p] \in StreamId
      /\ SendCommand(p, CreateStreamCmd(e, next_stream_id'[p], r)) \/ UNCHANGED cmds
  BY <1>2, CreateStreamParts
<1>4. PICK x \in TcpCommand[p] : x = CreateStreamCmd(e, next_stream_id'[p], r)
  BY <1>1, <1>3, CommandTypes
<1>5. x.type = "CreateStream" /\ x.conn = e /\ x.index = next_stream_id'[p]
  BY <1>4 DEF CreateStreamCmd
<1>. QED
  BY <1>1, <1>2, <1>3, <1>4, <1>5

-------------------------------------------------------------------------------
(* Type correctness, one lemma for each group of actions *)

LEMMA AppType == TypeOK /\ AppAction => TypeOK'
<1> SUFFICES ASSUME TypeOK, AppAction PROVE TypeOK'
  OBVIOUS
<1> USE DEF TypeOK
<1>1. CASE AppListen
  <2>1. SendCommand(Server, BindCmd) /\ Server \in Peers /\ BindCmd \in TcpCommand[Server]
    BY <1>1, TcpAssumption, CommandTypes DEF AppListen, Listen
  <2>2. UNCHANGED tcpVars /\ UNCHANGED <<events, polled, next_stream_id, app, thread>>
    BY <1>1 DEF AppListen, Listen
  <2>. QED
    BY <2>1, <2>2, CallType, SameThreadsType, SameTcpType
<1>2. ASSUME NEW c \in Clients, AppDial(c) PROVE TypeOK'
  <2>1. SendCommand(c, ConnectCmd) /\ c \in Peers /\ ConnectCmd \in TcpCommand[c]
    BY <1>2, ClientEnds, CommandTypes DEF AppDial, Dial
  <2>2. UNCHANGED tcpVars /\ UNCHANGED <<events, polled, next_stream_id, app, thread>>
    BY <1>2 DEF AppDial, Dial
  <2>. QED
    BY <2>1, <2>2, CallType, SameThreadsType, SameTcpType
<1>3. ASSUME NEW e \in Ends, NEW r \in Kinds, AppCreateStream(e, r) PROVE TypeOK'
  <2>1. PICK x \in TcpCommand[Owner(e)] : SendCommand(Owner(e), x) \/ UNCHANGED cmds
    BY <1>3, CreateParts
  <2>2. /\ Owner(e) \in Peers /\ ThreadsTypeOK' /\ UNCHANGED tcpVars
        /\ UNCHANGED <<events, polled>>
    BY <1>3, CreateParts
  <2>3. CASE SendCommand(Owner(e), x)
    BY <2>2, <2>3, CallType, SameTcpType
  <2>4. CASE UNCHANGED cmds
    BY <2>2, <2>4, UnchangedCommandsType, SameEventsType, SameTcpType DEF PeerTypeOK
  <2>. QED
    BY <2>1, <2>3, <2>4
<1>4. ASSUME NEW e \in Ends, NEW s \in KnownStreams(Owner(e), e), AppCloseStream(e, s)
      PROVE  TypeOK'
  <2>1. s \in StreamId /\ Owner(e) \in Peers /\ e \in EndsOf(Owner(e))
    BY EndFacts, KnownStreamsType DEF PeerTypeOK
  <2>2. SendCommand(Owner(e), CloseStreamCmd(e, s)) /\ CloseStreamCmd(e, s) \in TcpCommand[Owner(e)]
    BY <1>4, <2>1, CommandTypes DEF AppCloseStream, CloseStream
  <2>3. UNCHANGED tcpVars /\ UNCHANGED <<events, polled, next_stream_id, app, thread>>
    BY <1>4 DEF AppCloseStream, CloseStream
  <2>. QED
    BY <2>1, <2>2, <2>3, CallType, SameThreadsType, SameTcpType
<1>5. ASSUME NEW e \in Ends, NEW s \in KnownStreams(Owner(e), e), AppSend(e, s)
      PROVE  TypeOK'
  <2> DEFINE m == [stream |-> s, n |-> sent[e] + 1]
  <2>1. s \in StreamId /\ Owner(e) \in Peers /\ e \in EndsOf(Owner(e))
    BY EndFacts, KnownStreamsType DEF PeerTypeOK
  <2>2. sent[e] < MaxSends[e] /\ sent[e] \in Nat /\ MaxSends[e] \in Nat
    BY <1>5, TcpAssumption DEF AppSend, HistoryTypeOK
  <2>3. m \in Packet
    BY <2>1, <2>2 DEF Packet
  <2>4. SendCommand(Owner(e), SendCmd(e, m)) /\ SendCmd(e, m) \in TcpCommand[Owner(e)]
    BY <1>5, <2>1, <2>3, CommandTypes DEF AppSend, Send
  <2>5. /\ UNCHANGED <<events, polled, next_stream_id, app, thread>>
        /\ UNCHANGED <<registered, acceptVars, linkVars, accepted, delivered>>
        /\ sent' = [sent EXCEPT ![e] = @ + 1]
    BY <1>5 DEF AppSend, Send
  <2>6. AcceptTypeOK' /\ LinkTypeOK'
    BY <2>5 DEF AcceptTypeOK, LinkTypeOK, acceptVars, linkVars
  <2>7. HistoryTypeOK'
    BY <2>2, <2>5 DEF HistoryTypeOK
  <2>. QED
    BY <2>1, <2>4, <2>5, <2>6, <2>7, CallType, SameThreadsType
<1>6. ASSUME NEW p \in Peers, AppPoll(p) PROVE TypeOK'
  <2>1. Poll(p) /\ UNCHANGED <<cmds, next_stream_id, app, thread>> /\ UNCHANGED tcpVars
    BY <1>6 DEF AppPoll, Poll
  <2>. QED
    BY <2>1, PollType, UnchangedCommandsType, SameThreadsType, SameTcpType DEF PeerTypeOK
<1>7. ASSUME NEW p \in Peers, AppShutdown(p) PROVE TypeOK'
  <2>1. /\ SendCommand(p, ShutdownCmd) /\ app' = [app EXCEPT ![p] = "joining"]
        /\ UNCHANGED <<events, polled, next_stream_id, thread>> /\ UNCHANGED tcpVars
    BY <1>7 DEF AppShutdown, Shutdown
  <2>2. ThreadsTypeOK' /\ ShutdownCmd \in TcpCommand[p]
    BY <2>1, CommandTypes DEF PeerTypeOK, ThreadsTypeOK
  <2>. QED
    BY <2>1, <2>2, CallType, SameTcpType
<1>8. ASSUME NEW p \in Peers, AppJoin(p) PROVE TypeOK'
  <2>1. /\ app' = [app EXCEPT ![p] = "joined"]
        /\ UNCHANGED <<cmds, events, polled, next_stream_id, thread>> /\ UNCHANGED tcpVars
    BY <1>8 DEF AppJoin, Join
  <2>2. ThreadsTypeOK'
    BY <2>1 DEF PeerTypeOK, ThreadsTypeOK
  <2>. QED
    BY <2>1, <2>2, UnchangedCommandsType, SameEventsType, SameTcpType DEF PeerTypeOK
<1>. QED
  BY <1>1, <1>2, <1>3, <1>4, <1>5, <1>6, <1>7, <1>8 DEF AppAction

LEMMA CommandType ==
    ASSUME TypeOK, NEW p \in Peers, HandleCommand(p), ~BackendShutdown(p), ~(p = Server /\ BindFails)
    PROVE  TypeOK'
<1> USE DEF TypeOK
<1>1. CASE p = Server /\ Bind
  <2>1. /\ HandlesQuietly(p, "Bind") /\ listening' = TRUE
        /\ UNCHANGED <<events, backlog, registering, regQ, registered, linkVars, historyVars>>
    BY <1>1 DEF Bind
  <2>2. AcceptTypeOK' /\ LinkTypeOK' /\ HistoryTypeOK'
    BY <2>1 DEF AcceptTypeOK, LinkTypeOK, HistoryTypeOK, linkVars, historyVars
  <2>. QED
    BY <2>1, <2>2, QuietType, SameEventsType DEF PeerTypeOK
<1>2. CASE p \in Clients /\ Connect(p)
  <2> DEFINE e == <<p, "dial">>
  <2>1. /\ e \in Ends /\ Owner(e) = p /\ Other(e) \in AcceptEnds /\ e \in EndsOf(p)
    BY <1>2, ClientEnds DEF EndsOf
  <2>2. /\ HandlesQuietly(p, "Connect") /\ backlog' = Append(backlog, Other(e))
        /\ handler' = [handler EXCEPT ![e] = "running"]
        /\ registered' = registered \cup {e} /\ Emit(p, <<Connected(e)>>)
        /\ UNCHANGED <<listening, registering, regQ, waiting, writeQ, hold, sock, known, reset,
                       historyVars>>
    BY <1>2 DEF Connect
  <2>3. PeerTypeOK(TcpCommand, TcpEvent)'
    BY <2>1, <2>2, QuietType, EmitOneType, EventTypes DEF PeerTypeOK
  <2>4. AcceptTypeOK'
    BY <2>1, <2>2, AppendType DEF AcceptTypeOK
  <2>5. LinkTypeOK' /\ HistoryTypeOK'
    BY <2>1, <2>2 DEF LinkTypeOK, HistoryTypeOK, historyVars
  <2>. QED
    BY <2>3, <2>4, <2>5
<1>3. CASE p \in Clients /\ ConnectFails(p)
  <2>1. HandlesQuietly(p, "Connect") /\ Emit(p, <<ConnectError>>) /\ UNCHANGED tcpVars
    BY <1>3 DEF ConnectFails
  <2>. QED
    BY <2>1, QuietType, EmitOneType, EventTypes, SameTcpType DEF PeerTypeOK
<1>4. CASE SendUnknown(p) \/ SendClosed(p)
  <2>1. HandlesQuietly(p, "Send") /\ UNCHANGED <<events, tcpVars>>
    BY <1>4 DEF SendUnknown, SendClosed
  <2>. QED
    BY <2>1, QuietType, SameEventsType, SameTcpType DEF PeerTypeOK
<1>5. CASE SendQueued(p) \/ SendWaits(p)
  <2> DEFINE e == HeadConn(p)
             m == HeadPacket(p)
  <2>1. HandlesQuietly(p, "Send") /\ UNCHANGED events
    BY <1>5 DEF SendQueued, SendWaits
  <2>2. e \in Ends /\ m \in Packet
    BY <2>1, SendParts
  <2>3. PeerTypeOK(TcpCommand, TcpEvent)'
    BY <2>1, QuietType, SameEventsType DEF PeerTypeOK
  <2>4. AcceptTypeOK'
    BY <1>5 DEF SendQueued, SendWaits, AcceptTypeOK, acceptVars
  <2>5. HistoryTypeOK'
    <3>1. accepted' = [accepted EXCEPT ![e] = Append(@, m)] /\ UNCHANGED <<sent, delivered>>
      BY <1>5 DEF SendQueued, SendWaits
    <3> HIDE DEF e, m
    <3>2. Append(accepted[e], m) \in Seq(Packet)
      BY <2>2, AppendType DEF HistoryTypeOK
    <3>. QED
      BY <2>2, <3>1, <3>2 DEF HistoryTypeOK
  <2>6. CASE SendQueued(p)
    <3>1. /\ Len(writeQ[e]) < WriteCap /\ writeQ' = [writeQ EXCEPT ![e] = Append(@, m)]
          /\ UNCHANGED <<waiting, hold, sock, handler, known, reset>>
      BY <2>6 DEF SendQueued
    <3>2. Append(writeQ[e], m) \in Seq(Packet) /\ Len(Append(writeQ[e], m)) = Len(writeQ[e]) + 1
      BY <2>2, AppendType DEF LinkTypeOK
    <3>3. LinkTypeOK'
      BY <2>2, <3>1, <3>2, TcpAssumption, LenProperties DEF LinkTypeOK
    <3>. QED
      BY <2>3, <2>4, <2>5, <3>3
  <2>7. CASE SendWaits(p)
    <3>1. LinkTypeOK'
      BY <2>2, <2>7, OnePacket DEF SendWaits, LinkTypeOK
    <3>. QED
      BY <2>3, <2>4, <2>5, <3>1
  <2>. QED
    BY <1>5, <2>6, <2>7
<1>6. CASE BackendCreateStream(p)
  <2> DEFINE cmd == Head(cmds[p])
  <2>1. HandlesQuietly(p, "CreateStream") /\ UNCHANGED tcpVars
        /\ Emit(p, <<StreamCreated(cmd.conn, NewStream(cmd.index, cmd.reliability))>>)
    BY <1>6 DEF BackendCreateStream
  <2>2. cmd.conn \in EndsOf(p) /\ NewStream(cmd.index, cmd.reliability) \in StreamId
    BY <2>1, QuietType, CreateStreamCommandParts, HandleType
  <2>. QED
    BY <2>1, <2>2, QuietType, EmitOneType, EventTypes, SameTcpType DEF PeerTypeOK
<1>7. CASE BackendCloseStream(p)
  <2>1. HandlesQuietly(p, "CloseStream") /\ UNCHANGED tcpVars
        /\ Emit(p, <<StreamClosed(Head(cmds[p]).conn, Head(cmds[p]).stream)>>)
    BY <1>7 DEF BackendCloseStream, HeadConn
  <2>2. Head(cmds[p]).conn \in EndsOf(p) /\ Head(cmds[p]).stream \in StreamId
    BY <2>1, QuietType, CloseStreamCommandParts
  <2>. QED
    BY <2>1, <2>2, QuietType, EmitOneType, EventTypes, SameTcpType DEF PeerTypeOK
<1>. QED
  BY <1>1, <1>2, <1>3, <1>4, <1>5, <1>6, <1>7 DEF HandleCommand

\* The accept task and the registration.
LEMMA AcceptType ==
    ASSUME TypeOK, RegisterPeer \/ Accept \/ Register
    PROVE  TypeOK'
<1> USE DEF TypeOK
<1>1. CASE RegisterPeer
  <2>1. /\ regQ # <<>> /\ registered' = registered \cup {Head(regQ)} /\ regQ' = Tail(regQ)
        /\ UNCHANGED <<peerVars, listening, backlog, registering, linkVars, historyVars>>
    BY <1>1 DEF RegisterPeer
  <2>2. /\ Head(regQ) \in AcceptEnds /\ Tail(regQ) \in Seq(AcceptEnds)
        /\ Len(Tail(regQ)) = Len(regQ) - 1 /\ Len(regQ) \in Nat
    BY <2>1, HeadTailProperties, LenProperties DEF AcceptTypeOK
  <2>3. AcceptTypeOK'
    BY <2>1, <2>2, TcpAssumption DEF AcceptTypeOK, Ends
  <2>4. LinkTypeOK' /\ HistoryTypeOK'
    BY <2>1 DEF LinkTypeOK, HistoryTypeOK, linkVars, historyVars
  <2>. QED
    BY <2>1, <2>3, <2>4, SamePeerType
<1>2. CASE Accept
  <2> DEFINE e == Head(backlog)
  <2>1. /\ backlog # <<>> /\ backlog' = Tail(backlog) /\ registering' = <<e>>
        /\ handler' = [handler EXCEPT ![e] = "running"] /\ Emit(Server, <<Connected(e)>>)
        /\ UNCHANGED <<cmds, polled, next_stream_id, app, thread, listening, regQ, registered,
                       waiting, writeQ, hold, sock, known, reset, historyVars>>
    BY <1>2 DEF Accept
  <2>2. e \in AcceptEnds /\ Tail(backlog) \in Seq(AcceptEnds)
    BY <2>1, HeadTailProperties DEF AcceptTypeOK
  <2>3. e \in Ends /\ e \in EndsOf(Server) /\ Server \in Peers
    BY <2>2, TcpAssumption DEF Ends, AcceptEnds, EndsOf, Owner
  <2>4. PeerTypeOK(TcpCommand, TcpEvent)'
    BY <2>1, <2>3, UnchangedCommandsType, SameThreadsType, EmitOneType, EventTypes DEF PeerTypeOK
  <2>5. AcceptTypeOK'
    BY <2>1, <2>2, OnePacket DEF AcceptTypeOK
  <2>6. LinkTypeOK' /\ HistoryTypeOK'
    BY <2>1, <2>3 DEF LinkTypeOK, HistoryTypeOK, historyVars
  <2>. QED
    BY <2>4, <2>5, <2>6
<1>3. CASE Register
  <2>1. /\ Len(regQ) < RegCap /\ regQ' = regQ \o registering /\ registering' = <<>>
        /\ UNCHANGED <<peerVars, listening, backlog, registered, linkVars, historyVars>>
    BY <1>3 DEF Register
  <2>2. registering \in Seq(AcceptEnds) /\ Len(registering) <= 1
    BY AtMostOneType DEF AcceptTypeOK
  <2>3. regQ \o registering \in Seq(AcceptEnds) /\ Len(regQ \o registering) <= RegCap
    BY <2>1, <2>2, ConcatProperties, LenProperties, TcpAssumption DEF AcceptTypeOK
  <2>4. <<>> \in AtMostOne(AcceptEnds)
    BY DEF AtMostOne
  <2>5. AcceptTypeOK'
    BY <2>1, <2>3, <2>4 DEF AcceptTypeOK
  <2>6. LinkTypeOK' /\ HistoryTypeOK'
    BY <2>1 DEF LinkTypeOK, HistoryTypeOK, linkVars, historyVars
  <2>. QED
    BY <2>1, <2>5, <2>6, SamePeerType
<1>. QED
  BY <1>1, <1>2, <1>3

LEMMA SendType ==
    ASSUME TypeOK, NEW e \in Ends, ResumeSend(e)
    PROVE  TypeOK'
<1> USE DEF TypeOK
<1>1. /\ waiting' = [waiting EXCEPT ![e] = <<>>]
      /\ UNCHANGED <<peerVars, acceptVars, registered, hold, sock, handler, known, reset, historyVars>>
  BY DEF ResumeSend, SendResumes, SendGivesUp
<1>2. AcceptTypeOK' /\ HistoryTypeOK'
  BY <1>1 DEF AcceptTypeOK, HistoryTypeOK, acceptVars, historyVars
<1>3. waiting' \in [Ends -> AtMostOne(Packet)]
  BY <1>1 DEF LinkTypeOK, AtMostOne
<1>4. CASE SendResumes(e)
  <2>1. Len(writeQ[e]) < WriteCap /\ writeQ' = [writeQ EXCEPT ![e] = @ \o waiting[e]]
    BY <1>4 DEF SendResumes
  <2>2. waiting[e] \in Seq(Packet) /\ Len(waiting[e]) <= 1
    BY AtMostOneType DEF LinkTypeOK
  <2>3. writeQ[e] \o waiting[e] \in Seq(Packet) /\ Len(writeQ[e] \o waiting[e]) <= WriteCap
    BY <2>1, <2>2, ConcatProperties, LenProperties, TcpAssumption DEF LinkTypeOK
  <2>4. LinkTypeOK'
    BY <1>1, <1>3, <2>1, <2>3 DEF LinkTypeOK
  <2>. QED
    BY <1>1, <1>2, <2>4, SamePeerType
<1>5. CASE SendGivesUp(e)
  <2>1. LinkTypeOK'
    BY <1>1, <1>3, <1>5 DEF LinkTypeOK, SendGivesUp
  <2>. QED
    BY <1>1, <1>2, <2>1, SamePeerType
<1>. QED
  BY <1>4, <1>5 DEF ResumeSend

\* The peer handlers.
LEMMA HandlerType ==
    ASSUME TypeOK, NEW e \in Ends,
           HandlerRead(e) \/ HandlerEof(e) \/ HandlerTake(e) \/ WriteOut(e)
    PROVE  TypeOK'
<1> USE DEF TypeOK
<1>0. Owner(e) \in Peers /\ e \in EndsOf(Owner(e)) /\ Other(e) \in Ends
  BY EndFacts
<1>1. CASE HandlerRead(e)
  <2> DEFINE packet == Head(sock[Other(e)])
             news == (IF packet.stream \in known[e] THEN <<>>
                      ELSE <<StreamCreated(e, packet.stream)>>) \o <<Message(e, packet)>>
  <2>1. /\ sock[Other(e)] # <<>> /\ sock' = [sock EXCEPT ![Other(e)] = Tail(@)]
        /\ known' = [known EXCEPT ![e] = @ \cup {packet.stream}]
        /\ Emit(Owner(e), news) /\ delivered' = [delivered EXCEPT ![e] = Append(@, packet)]
        /\ UNCHANGED <<cmds, polled, next_stream_id, app, thread, acceptVars, registered, waiting,
                       writeQ, hold, handler, reset, sent, accepted>>
    BY <1>1 DEF HandlerRead
  <2>2. sock[Other(e)] \in Seq(Packet) /\ Len(sock[Other(e)]) <= SockCap
    BY <1>0 DEF LinkTypeOK
  <2>3. /\ packet \in Packet /\ Tail(sock[Other(e)]) \in Seq(Packet)
        /\ Len(Tail(sock[Other(e)])) <= SockCap
    BY <2>1, <2>2, HeadTailProperties, LenProperties, TcpAssumption
  <2>4. packet.stream \in StreamId
    BY <2>3 DEF Packet
  <2>5. news \in Seq(TcpEvent[Owner(e)])
    <3>1. /\ StreamCreated(e, packet.stream) \in TcpEvent[Owner(e)]
          /\ Message(e, packet) \in TcpEvent[Owner(e)]
      BY <1>0, <2>3, <2>4, EventTypes
    <3>2. <<StreamCreated(e, packet.stream)>> \in Seq(TcpEvent[Owner(e)])
          /\ <<Message(e, packet)>> \in Seq(TcpEvent[Owner(e)])
          /\ <<>> \in Seq(TcpEvent[Owner(e)])
      BY <3>1, OneType, EmptySeq
    <3>. QED
      BY <3>2, ConcatProperties
  <2> HIDE DEF packet, news
  <2>6. PeerTypeOK(TcpCommand, TcpEvent)'
    BY <1>0, <2>1, <2>5, UnchangedCommandsType, SameThreadsType, EmitType DEF PeerTypeOK
  <2>7. AcceptTypeOK'
    BY <2>1 DEF AcceptTypeOK, acceptVars
  <2>8. LinkTypeOK'
    BY <1>0, <2>1, <2>3, <2>4 DEF LinkTypeOK
  <2>9. HistoryTypeOK'
    BY <2>1, <2>3, AppendType DEF HistoryTypeOK
  <2>. QED
    BY <2>6, <2>7, <2>8, <2>9
<1>2. CASE HandlerEof(e)
  <2>1. /\ Emit(Owner(e), <<Disconnected(e)>>) /\ handler' = [handler EXCEPT ![e] = "done"]
        /\ writeQ' = [writeQ EXCEPT ![e] = <<>>]
        /\ UNCHANGED <<cmds, polled, next_stream_id, app, thread, acceptVars, registered, waiting,
                       hold, sock, known, reset, historyVars>>
    BY <1>2 DEF HandlerEof
  <2>2. PeerTypeOK(TcpCommand, TcpEvent)'
    BY <1>0, <2>1, UnchangedCommandsType, SameThreadsType, EmitOneType, EventTypes DEF PeerTypeOK
  <2>3. AcceptTypeOK' /\ HistoryTypeOK'
    BY <2>1 DEF AcceptTypeOK, HistoryTypeOK, acceptVars, historyVars
  <2>4. <<>> \in Seq(Packet) /\ Len(<<>>) <= WriteCap
    BY EmptySeq, TcpAssumption
  <2>5. LinkTypeOK'
    BY <2>1, <2>4 DEF LinkTypeOK
  <2>. QED
    BY <2>2, <2>3, <2>5
<1>3. CASE HandlerTake(e)
  <2>1. /\ writeQ[e] # <<>> /\ hold' = [hold EXCEPT ![e] = <<Head(writeQ[e])>>]
        /\ writeQ' = [writeQ EXCEPT ![e] = Tail(@)]
        /\ UNCHANGED <<peerVars, acceptVars, registered, waiting, sock, handler, known, reset,
                       historyVars>>
    BY <1>3 DEF HandlerTake
  <2>2. writeQ[e] \in Seq(Packet) /\ Len(writeQ[e]) <= WriteCap
    BY DEF LinkTypeOK
  <2>3. /\ Head(writeQ[e]) \in Packet /\ Tail(writeQ[e]) \in Seq(Packet)
        /\ Len(Tail(writeQ[e])) <= WriteCap
    BY <2>1, <2>2, HeadTailProperties, LenProperties, TcpAssumption
  <2>4. AcceptTypeOK' /\ HistoryTypeOK'
    BY <2>1 DEF AcceptTypeOK, HistoryTypeOK, acceptVars, historyVars
  <2>5. LinkTypeOK'
    BY <2>1, <2>3, OnePacket DEF LinkTypeOK
  <2>. QED
    BY <2>1, <2>4, <2>5, SamePeerType
<1>4. CASE HandlerWrite(e)
  <2>1. /\ Len(sock[e]) < SockCap /\ sock' = [sock EXCEPT ![e] = @ \o hold[e]]
        /\ hold' = [hold EXCEPT ![e] = <<>>]
        /\ UNCHANGED <<peerVars, acceptVars, registered, waiting, writeQ, handler, known, reset,
                       historyVars>>
    BY <1>4 DEF HandlerWrite
  <2>2. hold[e] \in Seq(Packet) /\ Len(hold[e]) <= 1
    BY AtMostOneType DEF LinkTypeOK
  <2>3. sock[e] \o hold[e] \in Seq(Packet) /\ Len(sock[e] \o hold[e]) <= SockCap
    BY <2>1, <2>2, ConcatProperties, LenProperties, TcpAssumption DEF LinkTypeOK
  <2>4. AcceptTypeOK' /\ HistoryTypeOK'
    BY <2>1 DEF AcceptTypeOK, HistoryTypeOK, acceptVars, historyVars
  <2>5. <<>> \in AtMostOne(Packet)
    BY DEF AtMostOne
  <2>6. LinkTypeOK'
    BY <2>1, <2>3, <2>5 DEF LinkTypeOK
  <2>. QED
    BY <2>1, <2>4, <2>6, SamePeerType
<1>5. CASE HandlerWriteFails(e)
  <2>1. /\ hold' = [hold EXCEPT ![e] = <<>>]
        /\ UNCHANGED <<peerVars, acceptVars, registered, waiting, writeQ, sock, handler, known,
                       reset, historyVars>>
    BY <1>5 DEF HandlerWriteFails
  <2>2. <<>> \in AtMostOne(Packet)
    BY DEF AtMostOne
  <2>3. AcceptTypeOK' /\ HistoryTypeOK' /\ LinkTypeOK'
    BY <2>1, <2>2 DEF AcceptTypeOK, HistoryTypeOK, LinkTypeOK, acceptVars, historyVars
  <2>. QED
    BY <2>1, <2>3, SamePeerType
<1>. QED
  BY <1>1, <1>2, <1>3, <1>4, <1>5 DEF WriteOut

\* The ends of things.
LEMMA DropBacklogType ==
    ASSUME TypeOK, DropBacklog
    PROVE  /\ backlog' \in Seq(AcceptEnds) /\ reset' \subseteq Clients
           /\ sock' \in [Ends -> Seq(Packet)] /\ \A e \in Ends : Len(sock'[e]) <= SockCap
<1> DEFINE dropped == {backlog[i][1] : i \in DOMAIN backlog}
<1>1. /\ backlog' = <<>> /\ reset' = reset \cup dropped
      /\ sock' = [e \in Ends |-> IF e[1] \in dropped THEN <<>> ELSE sock[e]]
  BY DEF DropBacklog
<1>2. dropped \subseteq Clients
  <2> SUFFICES ASSUME NEW i \in DOMAIN backlog PROVE backlog[i][1] \in Clients
    OBVIOUS
  <2>1. backlog[i] \in AcceptEnds
    BY LenProperties, ElementOfSeq DEF TypeOK, AcceptTypeOK
  <2>. QED
    BY <2>1 DEF AcceptEnds
<1>3. <<>> \in Seq(AcceptEnds) /\ <<>> \in Seq(Packet) /\ Len(<<>>) <= SockCap
  BY EmptySeq, TcpAssumption
<1> HIDE DEF dropped
<1>. QED
  BY <1>1, <1>2, <1>3 DEF TypeOK, LinkTypeOK

LEMMA StopType ==
    ASSUME TypeOK, NEW p \in Peers, Stop(p), app' \in [Peers -> {"running", "joining", "joined", "dead"}]
    PROVE  TypeOK'
<1> USE DEF TypeOK
<1>1. /\ ThreadExits(p) /\ registered' = registered \ EndsOf(p)
      /\ handler' = [e \in Ends |-> IF Owner(e) = p /\ Running(e) THEN "done" ELSE handler[e]]
      /\ waiting' = [e \in Ends |-> IF Owner(e) = p THEN <<>> ELSE waiting[e]]
      /\ writeQ' = [e \in Ends |-> IF Owner(e) = p THEN <<>> ELSE writeQ[e]]
      /\ hold' = [e \in Ends |-> IF Owner(e) = p THEN <<>> ELSE hold[e]]
      /\ UNCHANGED <<events, polled, next_stream_id, known, historyVars>>
  BY DEF Stop
<1>2. PeerTypeOK(TcpCommand, TcpEvent)'
  <2>1. CommandsTypeOK(TcpCommand)'
    BY <1>1, ThreadExitsType DEF PeerTypeOK
  <2>2. ThreadsTypeOK'
    BY <1>1 DEF PeerTypeOK, ThreadsTypeOK, ThreadExits
  <2>. QED
    BY <1>1, <2>1, <2>2, SameEventsType DEF PeerTypeOK
<1>3. HistoryTypeOK'
  BY <1>1 DEF HistoryTypeOK, historyVars
<1>4. /\ <<>> \in AtMostOne(Packet) /\ <<>> \in AtMostOne(AcceptEnds)
      /\ <<>> \in Seq(Packet) /\ <<>> \in Seq(AcceptEnds) /\ Len(<<>>) = 0
  BY EmptySeq DEF AtMostOne
<1>5. /\ handler' \in [Ends -> {"none", "running", "done"}]
      /\ waiting' \in [Ends -> AtMostOne(Packet)] /\ hold' \in [Ends -> AtMostOne(Packet)]
      /\ writeQ' \in [Ends -> Seq(Packet)] /\ \A e \in Ends : Len(writeQ'[e]) <= WriteCap
      /\ known' \in [Ends -> SUBSET StreamId]
  BY <1>1, <1>4, TcpAssumption DEF LinkTypeOK
<1>6. CASE p = Server
  <2>1. listening' = FALSE /\ registering' = <<>> /\ regQ' = <<>> /\ DropBacklog
    BY <1>6 DEF Stop
  <2>2. AcceptTypeOK'
    <3>1. listening' \in BOOLEAN
      BY <2>1
    <3>2. regQ' \in Seq(AcceptEnds) /\ Len(regQ') <= RegCap /\ registering' \in AtMostOne(AcceptEnds)
      BY <1>4, <2>1, TcpAssumption
    <3>3. backlog' \in Seq(AcceptEnds)
      BY <2>1, DropBacklogType
    <3>4. registered' \subseteq Ends
      BY <1>1 DEF AcceptTypeOK
    <3>. QED
      BY <3>1, <3>2, <3>3, <3>4 DEF AcceptTypeOK
  <2>3. LinkTypeOK'
    BY <1>5, <2>1, DropBacklogType DEF LinkTypeOK
  <2>. QED
    BY <1>2, <1>3, <2>2, <2>3
<1>7. CASE p # Server
  <2>1. UNCHANGED <<acceptVars, reset, sock>>
    BY <1>7 DEF Stop
  <2>2. AcceptTypeOK' /\ LinkTypeOK'
    BY <1>1, <1>5, <2>1 DEF AcceptTypeOK, LinkTypeOK, acceptVars
  <2>. QED
    BY <1>2, <1>3, <2>2
<1>. QED
  BY <1>6, <1>7

LEMMA EndType ==
    ASSUME TypeOK, \/ AcceptFails \/ BindFails
                   \/ \E p \in Peers : BackendShutdown(p) \/ Die(p)
                   \/ \E c \in Clients : Reset(c)
    PROVE  TypeOK'
<1>1. CASE AcceptFails
  <2>1. /\ listening' = FALSE /\ DropBacklog
        /\ UNCHANGED <<peerVars, registering, regQ, registered, waiting, writeQ, hold, handler,
                       known, historyVars>>
    BY <1>1 DEF AcceptFails
  <2>2. AcceptTypeOK' /\ LinkTypeOK' /\ HistoryTypeOK'
    BY <2>1, DropBacklogType DEF TypeOK, AcceptTypeOK, LinkTypeOK, HistoryTypeOK, historyVars
  <2>. QED
    BY <2>1, <2>2, SamePeerType DEF TypeOK
<1>2. ThreadsTypeOK
  BY DEF TypeOK, PeerTypeOK
<1>3. CASE BindFails
  <2>1. app' = [app EXCEPT ![Server] = "dead"] \/ app' = app
    BY <1>3 DEF BindFails
  <2>2. app' \in [Peers -> {"running", "joining", "joined", "dead"}]
    BY <1>2, <2>1 DEF ThreadsTypeOK
  <2>. QED
    BY <1>3, <2>2, StopType, TcpAssumption DEF BindFails
<1>4. ASSUME NEW p \in Peers, BackendShutdown(p) PROVE TypeOK'
  <2>1. app' \in [Peers -> {"running", "joining", "joined", "dead"}]
    BY <1>2, <1>4 DEF ThreadsTypeOK, BackendShutdown
  <2>. QED
    BY <1>4, <2>1, StopType DEF BackendShutdown
<1>5. ASSUME NEW p \in Peers, Die(p) PROVE TypeOK'
  <2>1. app' \in [Peers -> {"running", "joining", "joined", "dead"}]
    BY <1>2, <1>5 DEF ThreadsTypeOK, Die
  <2>. QED
    BY <1>5, <2>1, StopType DEF Die
<1>6. ASSUME NEW c \in Clients, Reset(c) PROVE TypeOK'
  <2>1. PICK link : /\ reset' = reset \cup {c}
                    /\ sock' = [e \in Ends |-> IF e \in link THEN <<>> ELSE sock[e]]
                    /\ UNCHANGED <<peerVars, acceptVars, registered, waiting, writeQ, hold,
                                   handler, known, historyVars>>
    BY <1>6 DEF Reset
  <2>2. <<>> \in Seq(Packet) /\ Len(<<>>) <= SockCap
    BY EmptySeq, TcpAssumption
  <2>3. AcceptTypeOK' /\ LinkTypeOK' /\ HistoryTypeOK'
    BY <2>1, <2>2 DEF TypeOK, AcceptTypeOK, LinkTypeOK, HistoryTypeOK, acceptVars, historyVars
  <2>. QED
    BY <2>1, <2>3, SamePeerType DEF TypeOK
<1>. QED
  BY <1>1, <1>3, <1>4, <1>5, <1>6

-------------------------------------------------------------------------------
LEMMA InitType == Init => TypeOK
<1> SUFFICES ASSUME Init PROVE TypeOK
  OBVIOUS
<1>1. PeerTypeOK(TcpCommand, TcpEvent)
  BY PeerInitType DEF Init
<1>2. /\ <<>> \in AtMostOne(Packet) /\ <<>> \in AtMostOne(AcceptEnds)
      /\ <<>> \in Seq(Packet) /\ <<>> \in Seq(AcceptEnds) /\ Len(<<>>) = 0
  BY EmptySeq DEF AtMostOne
<1>3. AcceptTypeOK
  <2>1. /\ listening = FALSE /\ backlog = <<>> /\ registering = <<>> /\ regQ = <<>>
        /\ registered = {}
    BY DEF Init
  <2>2. Len(regQ) <= RegCap
    BY <1>2, <2>1, TcpAssumption
  <2>3. /\ listening \in BOOLEAN /\ registered \subseteq Ends /\ backlog \in Seq(AcceptEnds)
        /\ regQ \in Seq(AcceptEnds) /\ registering \in AtMostOne(AcceptEnds)
    BY <1>2, <2>1
  <2>. QED
    BY <2>2, <2>3 DEF AcceptTypeOK
<1>4. LinkTypeOK
  BY <1>2, TcpAssumption DEF Init, LinkTypeOK
<1>5. HistoryTypeOK
  BY <1>2, TcpAssumption DEF Init, HistoryTypeOK
<1>. QED
  BY <1>1, <1>3, <1>4, <1>5 DEF TypeOK

LEMMA NextType == TypeOK /\ [Next]_vars => TypeOK'
<1> SUFFICES ASSUME TypeOK, [Next]_vars PROVE TypeOK'
  OBVIOUS
<1>1. CASE AppAction
  BY <1>1, AppType
<1>2. ASSUME NEW p \in Peers, HandleCommand(p) PROVE TypeOK'
  BY <1>2, CommandType, EndType
<1>3. CASE RegisterPeer \/ Accept \/ Register
  BY <1>3, AcceptType
<1>4. ASSUME NEW e \in Ends,
             ResumeSend(e) \/ HandlerRead(e) \/ HandlerEof(e) \/ HandlerTake(e) \/ WriteOut(e)
      PROVE  TypeOK'
  BY <1>4, SendType, HandlerType
<1>5. CASE AcceptFails \/ (\E p \in Peers : Die(p)) \/ (\E c \in Clients : Reset(c))
  BY <1>5, EndType
<1>6. CASE UNCHANGED vars
  BY <1>6, SamePeerType, SameTcpType DEF vars, TypeOK
<1>. QED
  BY <1>1, <1>2, <1>3, <1>4, <1>5, <1>6 DEF Next

(***************************************************************************)
(* Type correctness for any number of clients and any capacities: no queue *)
(* holds more than it may, and a process handles commands and events of    *)
(* its own connections only.                                               *)
(***************************************************************************)
THEOREM TcpTypeTheorem == Spec => []TypeOK
BY InitType, NextType, PTL DEF Spec

-------------------------------------------------------------------------------
(***************************************************************************)
(* Part two: nothing accepted is lost, duplicated or reordered.            *)
(***************************************************************************)

-------------------------------------------------------------------------------
(* Sequences *)

\* Queues of packets.
LEMMA PacketsAssociative ==
    \A s, t, u \in Seq(Packet) : (s \o t) \o u = s \o (t \o u)
BY ConcatAssociative

\* What is before two places is a prefix of what they make up.
LEMMA PrefixOf ==
    ASSUME NEW d \in Seq(Packet), NEW v \in Seq(Packet), NEW w \in Seq(Packet)
    PROVE  v \o w \in Seq(Packet) /\ ((d \o <<>>) \o v) \o w = d \o (v \o w)
BY ConcatProperties, ConcatEmptySeq, PacketsAssociative

\* A packet goes to the end of a queue that is followed by an empty one.
LEMMA QueueLast ==
    ASSUME NEW p \in Seq(Packet), NEW w \in Seq(Packet), NEW x \in Packet
    PROVE  Append((p \o w) \o <<>>, x) = (p \o Append(w, x)) \o <<>>
<1>1. p \o w \in Seq(Packet) /\ <<x>> \in Seq(Packet) /\ Append(w, x) \in Seq(Packet)
  BY ConcatProperties, AppendProperties
<1>2. p \o Append(w, x) \in Seq(Packet)
  BY <1>1, ConcatProperties
<1>3. Append((p \o w) \o <<>>, x) = (p \o w) \o <<x>>
  BY <1>1, ConcatEmptySeq, AppendIsConcat
<1>4. (p \o Append(w, x)) \o <<>> = p \o (w \o <<x>>)
  BY <1>1, <1>2, ConcatEmptySeq, AppendIsConcat
<1>5. (p \o w) \o <<x>> = p \o (w \o <<x>>)
  BY <1>1, PacketsAssociative
<1>. QED
  BY <1>3, <1>4, <1>5

\* A packet takes the last place, which was empty.
LEMMA WaitLast ==
    ASSUME NEW p \in Seq(Packet), NEW x \in Packet
    PROVE  Append(p \o <<>>, x) = p \o <<x>>
BY ConcatEmptySeq, AppendIsConcat

\* What is in one place moves to the end of the place before it.
LEMMA MoveTogether ==
    ASSUME NEW p \in Seq(Packet), NEW v \in Seq(Packet), NEW w \in Seq(Packet)
    PROVE  (p \o v) \o w = (p \o (v \o w)) \o <<>>
<1>1. p \o (v \o w) \in Seq(Packet)
  BY ConcatProperties
<1>. QED
  BY <1>1, ConcatEmptySeq, PacketsAssociative

\* The head of a queue moves to the place before it.
LEMMA MoveHead ==
    ASSUME NEW p \in Seq(Packet), NEW w \in Seq(Packet), w # <<>>
    PROVE  /\ p \o w = Append(p, Head(w)) \o Tail(w)
           /\ (p \o <<>>) \o w = (p \o <<Head(w)>>) \o Tail(w)
<1>1. Head(w) \in Packet /\ Tail(w) \in Seq(Packet)
  BY HeadTailProperties
<1>2. <<Head(w)>> \in Seq(Packet) /\ w = <<Head(w)>> \o Tail(w)
  BY <1>1, HeadTailConcat
<1>3. (p \o <<Head(w)>>) \o Tail(w) = p \o w
  BY <1>1, <1>2, PacketsAssociative
<1>. QED
  BY <1>1, <1>3, ConcatEmptySeq, AppendIsConcat

-------------------------------------------------------------------------------
(* The inductive invariant.  NothingLost alone is not inductive: it would   *)
(* break if a handler that has ended ran again, if a backend's end emptied  *)
(* the queues of a connection that is not open, or if a handler that has    *)
(* ended still wrote.                                                       *)

Wanted(s) == \E i \in DOMAIN s : s[i] = ConnectCmd

Once(s) == \A i, j \in DOMAIN s : s[i] = ConnectCmd /\ s[j] = ConnectCmd => j = i

\* A client has at most one attempt to connect under way, and no connection then.
ConnectOnce ==
    \A c \in Clients : Once(cmds[c]) /\ (Wanted(cmds[c]) => handler[<<c, "dial">>] = "none")

\* A connection waits for accept() once, and before its handler runs.
BacklogFresh ==
    \A i \in DOMAIN backlog :
        /\ handler[backlog[i]] = "none"
        /\ \A j \in DOMAIN backlog : backlog[j] = backlog[i] => j = i

\* The server knows no connection that the client has not opened.
DialFirst ==
    \A c \in Clients : handler[<<c, "dial">>] = "none" =>
        /\ handler[<<c, "accept">>] = "none"
        /\ \A i \in DOMAIN backlog : backlog[i] # <<c, "accept">>

FreshInv == ConnectOnce /\ BacklogFresh /\ DialFirst

\* An end that is not open is in no map, and its queues are empty.
UnopenedInv ==
    \A e \in Ends : handler[e] = "none" =>
        /\ e \notin registered /\ registering # <<e>>
        /\ \A i \in DOMAIN regQ : regQ[i] # e
        /\ waiting[e] = <<>> /\ writeQ[e] = <<>> /\ hold[e] = <<>>

\* What the other end has got and the socket holds are the oldest accepted packets.
Delivers(e) ==
    \E rest \in Seq(Packet) : accepted[e] = (delivered[Other(e)] \o sock[e]) \o rest

Complete(e) ==
    accepted[e] = delivered[Other(e)] \o sock[e] \o hold[e] \o writeQ[e] \o waiting[e]

LinkOK(e) ==
    /\ hold[e] # <<>> => ~Closed(e)
    /\ Intact(e) => Complete(e)
    /\ Delivers(e)

LinkInv == \A e \in Ends : LinkOK(e)

OrderInv == TypeOK /\ FreshInv /\ UnopenedInv /\ LinkInv

-------------------------------------------------------------------------------
(* Connections are opened once *)

LEMMA HeadConnect ==
    ASSUME TypeOK, NEW c \in Clients, Handles(c, "Connect")
    PROVE  c \in Peers /\ cmds[c] # <<>> /\ Head(cmds[c]) = ConnectCmd
<1>1. c \in Peers /\ cmds[c] # <<>> /\ Head(cmds[c]).type = "Connect"
  BY DEF Clients, Handles, Receives
<1>2. Head(cmds[c]) \in TcpCommand[c]
  BY <1>1, HeadCommandType DEF TypeOK, PeerTypeOK
<1>. QED
  BY <1>1, <1>2 DEF TcpCommand, Command, BindCmd, ConnectCmd, ShutdownCmd, SendCmd,
                    CreateStreamCmd, CloseStreamCmd

LEMMA Elements ==
    ASSUME NEW S, NEW s \in Seq(S)
    PROVE  /\ DOMAIN s = 1 .. Len(s) /\ Len(s) \in Nat
           /\ s # <<>> => /\ 1 \in DOMAIN s /\ Head(s) = s[1] /\ Tail(s) \in Seq(S)
                          /\ \A i \in DOMAIN Tail(s) : i + 1 \in DOMAIN s /\ Tail(s)[i] = s[i + 1]
           /\ \A x \in S : \A i \in DOMAIN Append(s, x) :
                  \/ i \in DOMAIN s /\ Append(s, x)[i] = s[i]
                  \/ i = Len(s) + 1 /\ Append(s, x)[i] = x
<1>1. DOMAIN s = 1 .. Len(s) /\ Len(s) \in Nat
  BY LenProperties
<1>2. ASSUME s # <<>>
      PROVE  /\ 1 \in DOMAIN s /\ Head(s) = s[1] /\ Tail(s) \in Seq(S)
             /\ \A i \in DOMAIN Tail(s) : i + 1 \in DOMAIN s /\ Tail(s)[i] = s[i + 1]
  <2>1. /\ Tail(s) \in Seq(S) /\ Len(Tail(s)) = Len(s) - 1
        /\ \A i \in 1 .. Len(Tail(s)) : Tail(s)[i] = s[i + 1]
    BY <1>2, HeadTailProperties
  <2>2. DOMAIN Tail(s) = 1 .. Len(Tail(s)) /\ Len(Tail(s)) \in Nat
    BY <2>1, LenProperties
  <2>3. Head(s) = s[1]
    BY <1>2
  <2>. QED
    BY <1>1, <2>1, <2>2, <2>3
<1>3. ASSUME NEW x \in S, NEW i \in DOMAIN Append(s, x)
      PROVE  \/ i \in DOMAIN s /\ Append(s, x)[i] = s[i]
             \/ i = Len(s) + 1 /\ Append(s, x)[i] = x
  <2>1. /\ Append(s, x) \in Seq(S) /\ Len(Append(s, x)) = Len(s) + 1
        /\ \A k \in 1 .. Len(s) : Append(s, x)[k] = s[k]
        /\ Append(s, x)[Len(s) + 1] = x
    BY AppendProperties
  <2>2. i \in 1 .. Len(s) + 1
    BY <2>1, LenProperties
  <2>. QED
    BY <1>1, <2>1, <2>2
<1>. QED
  BY <1>1, <1>2, <1>3

OpensNothing(S, s, t) ==
    \/ t = s
    \/ s # <<>> /\ t = Tail(s)
    \/ t = <<>>
    \/ \E x \in S : x # ConnectCmd /\ t = Append(s, x)

\* A queue of commands that is only shortened, or gets another command, has
\* no second attempt to connect.
LEMMA OnceFrame ==
    ASSUME NEW S, NEW s \in Seq(S), NEW t,
           Once(s), OpensNothing(S, s, t)
    PROVE  Once(t) /\ (Wanted(t) => Wanted(s))
<1> SUFFICES ASSUME NEW i \in DOMAIN t, t[i] = ConnectCmd
             PROVE  /\ \E j \in DOMAIN s : s[j] = ConnectCmd
                    /\ \A j \in DOMAIN t : t[j] = ConnectCmd => j = i
  BY DEF Once, Wanted
<1> USE DEF Once, OpensNothing
<1>1. DOMAIN s = 1 .. Len(s) /\ Len(s) \in Nat
  BY Elements
<1>2. CASE s # <<>> /\ t = Tail(s)
  <2>1. \A k \in DOMAIN t : k + 1 \in DOMAIN s /\ t[k] = s[k + 1]
    BY <1>2, Elements
  <2>2. DOMAIN t \subseteq Nat
    BY <1>2, Elements, LenProperties
  <2>3. \A j \in DOMAIN t : t[j] = ConnectCmd => j + 1 = i + 1
    BY <1>2, <2>1
  <2>. QED
    BY <1>2, <2>1, <2>2, <2>3
<1>3. ASSUME NEW x \in S, x # ConnectCmd, t = Append(s, x)
      PROVE  /\ \E j \in DOMAIN s : s[j] = ConnectCmd
             /\ \A j \in DOMAIN t : t[j] = ConnectCmd => j = i
  <2>1. \A k \in DOMAIN t : t[k] = ConnectCmd => k \in DOMAIN s /\ t[k] = s[k]
    BY <1>3, Elements
  <2>. QED
    BY <1>3, <2>1
<1>4. CASE t = <<>>
  BY <1>4
<1>. QED
  BY <1>2, <1>3, <1>4

\* A step that opens no connection and queues no connect command.
LEMMA FreshFrame ==
    ASSUME TypeOK, FreshInv, NEW p \in Peers,
           \A q \in Peers \ {p} : cmds'[q] = cmds[q],
           OpensNothing(TcpCommand[p], cmds[p], cmds'[p]),
           \A e \in Ends : handler'[e] = "none" <=> handler[e] = "none",
           backlog' = backlog \/ backlog' = <<>>
    PROVE  FreshInv'
<1>1. ASSUME NEW c \in Clients
      PROVE  Once(cmds'[c]) /\ (Wanted(cmds'[c]) => handler'[<<c, "dial">>] = "none")
  <2>1. c \in Peers /\ cmds[c] \in Seq(TcpCommand[c]) /\ <<c, "dial">> \in Ends
    BY ClientEnds DEF TypeOK, PeerTypeOK, CommandsTypeOK
  <2>2. Once(cmds[c]) /\ (Wanted(cmds[c]) => handler[<<c, "dial">>] = "none")
    BY DEF FreshInv, ConnectOnce
  <2>3. OpensNothing(TcpCommand[c], cmds[c], cmds'[c])
    BY <2>1 DEF OpensNothing
  <2>. QED
    BY <2>1, <2>2, <2>3, OnceFrame
<1>2. ConnectOnce'
  BY <1>1 DEF ConnectOnce
<1>3. \A i \in DOMAIN backlog : backlog[i] \in Ends
  BY Elements, ElementOfSeq DEF TypeOK, AcceptTypeOK, Ends
<1>4. BacklogFresh'
  BY <1>3 DEF FreshInv, BacklogFresh
<1>5. DialFirst'
  <2> SUFFICES ASSUME NEW c \in Clients, handler'[<<c, "dial">>] = "none"
               PROVE  /\ handler'[<<c, "accept">>] = "none"
                      /\ \A i \in DOMAIN backlog' : backlog'[i] # <<c, "accept">>
    BY DEF DialFirst
  <2>. QED
    BY ClientEnds DEF FreshInv, DialFirst
<1>. QED
  BY <1>2, <1>4, <1>5 DEF FreshInv

\* The application's calls other than connect, and the commands other than Connect.
LEMMA CallFresh ==
    ASSUME TypeOK, FreshInv, NEW p \in Peers, NEW x \in TcpCommand[p], x # ConnectCmd,
           SendCommand(p, x), UNCHANGED <<handler, backlog>>
    PROVE  FreshInv'
<1>1. cmds' = [cmds EXCEPT ![p] = Append(@, x)]
  BY DEF SendCommand
<1>2. (\A q \in Peers \ {p} : cmds'[q] = cmds[q]) /\ cmds'[p] = Append(cmds[p], x)
  BY <1>1 DEF TypeOK, PeerTypeOK, CommandsTypeOK
<1>. QED
  BY <1>2, FreshFrame DEF OpensNothing

LEMMA TakeFresh ==
    ASSUME TypeOK, FreshInv, NEW p \in Peers, NEW type, HandlesQuietly(p, type),
           \A e \in Ends : handler'[e] = "none" <=> handler[e] = "none",
           backlog' = backlog
    PROVE  FreshInv'
<1>1. cmds' = [cmds EXCEPT ![p] = Tail(@)] /\ cmds[p] # <<>>
  BY DEF HandlesQuietly, Handles, Receives, TakeCommand
<1>2. (\A q \in Peers \ {p} : cmds'[q] = cmds[q]) /\ cmds'[p] = Tail(cmds[p])
  BY <1>1 DEF TypeOK, PeerTypeOK, CommandsTypeOK
<1>. QED
  BY <1>1, <1>2, FreshFrame DEF OpensNothing

\* Steps that do not touch the commands.
LEMMA QuietFresh ==
    ASSUME TypeOK, FreshInv, cmds' = cmds,
           \A e \in Ends : handler'[e] = "none" <=> handler[e] = "none",
           backlog' = backlog \/ backlog' = <<>>
    PROVE  FreshInv'
BY FreshFrame, TcpAssumption DEF OpensNothing

LEMMA StopFresh ==
    ASSUME TypeOK, FreshInv, NEW p \in Peers, Stop(p)
    PROVE  FreshInv'
<1>1. /\ cmds' = [cmds EXCEPT ![p] = <<>>]
      /\ handler' = [e \in Ends |-> IF Owner(e) = p /\ Running(e) THEN "done" ELSE handler[e]]
  BY DEF Stop, ThreadExits
<1>2. backlog' = backlog \/ backlog' = <<>>
  BY DEF Stop, DropBacklog, acceptVars
<1>3. (\A q \in Peers \ {p} : cmds'[q] = cmds[q]) /\ cmds'[p] = <<>>
  BY <1>1 DEF TypeOK, PeerTypeOK, CommandsTypeOK
<1>4. \A e \in Ends : handler'[e] = "none" <=> handler[e] = "none"
  BY <1>1 DEF Running
<1>. QED
  BY <1>2, <1>3, <1>4, FreshFrame DEF OpensNothing

LEMMA DialFresh ==
    ASSUME TypeOK, FreshInv, NEW c \in Clients, AppDial(c)
    PROVE  FreshInv'
<1>1. /\ handler[<<c, "dial">>] = "none" /\ ~Wanted(cmds[c])
      /\ cmds' = [cmds EXCEPT ![c] = Append(@, ConnectCmd)]
      /\ UNCHANGED <<handler, backlog>>
  BY DEF AppDial, Dial, SendCommand, tcpVars, Contains, Wanted
<1>2. c \in Peers /\ cmds[c] \in Seq(TcpCommand[c]) /\ ConnectCmd \in TcpCommand[c]
  BY ClientEnds, CommandTypes DEF TypeOK, PeerTypeOK, CommandsTypeOK
<1>3. cmds'[c] = Append(cmds[c], ConnectCmd) /\ \A q \in Peers \ {c} : cmds'[q] = cmds[q]
  BY <1>1, <1>2 DEF TypeOK, PeerTypeOK, CommandsTypeOK
<1>4. Once(cmds'[c])
  <2>1. \A i \in DOMAIN cmds'[c] :
            \/ i \in DOMAIN cmds[c] /\ cmds'[c][i] = cmds[c][i]
            \/ i = Len(cmds[c]) + 1
    BY <1>2, <1>3, Elements
  <2>. QED
    BY <1>1, <2>1 DEF Once, Wanted
<1>5. ConnectOnce'
  <2> SUFFICES ASSUME NEW d \in Clients
               PROVE  Once(cmds'[d]) /\ (Wanted(cmds'[d]) => handler'[<<d, "dial">>] = "none")
    BY DEF ConnectOnce
  <2>1. CASE d = c
    BY <1>1, <1>4, <2>1
  <2>2. CASE d # c
    BY <1>1, <1>3, <2>2 DEF FreshInv, ConnectOnce, Clients
  <2>. QED
    BY <2>1, <2>2
<1>6. BacklogFresh' /\ DialFirst'
  BY <1>1 DEF FreshInv, BacklogFresh, DialFirst
<1>. QED
  BY <1>5, <1>6 DEF FreshInv

LEMMA ConnectFresh ==
    ASSUME TypeOK, FreshInv, NEW c \in Clients, Connect(c)
    PROVE  FreshInv' /\ handler[<<c, "dial">>] = "none"
<1> DEFINE e == <<c, "dial">>
           a == <<c, "accept">>
<1>1. /\ Handles(c, "Connect") /\ cmds' = [cmds EXCEPT ![c] = Tail(@)]
      /\ backlog' = Append(backlog, a) /\ handler' = [handler EXCEPT ![e] = "running"]
  BY ClientEnds DEF Connect, HandlesQuietly, TakeCommand
<1>2. /\ c \in Peers /\ cmds[c] # <<>> /\ Head(cmds[c]) = ConnectCmd
      /\ cmds[c] \in Seq(TcpCommand[c])
  BY <1>1, HeadConnect DEF TypeOK, PeerTypeOK, CommandsTypeOK
<1>3. /\ 1 \in DOMAIN cmds[c] /\ cmds[c][1] = ConnectCmd /\ DOMAIN cmds[c] \subseteq Nat
      /\ \A i \in DOMAIN Tail(cmds[c]) :
            i + 1 \in DOMAIN cmds[c] /\ Tail(cmds[c])[i] = cmds[c][i + 1]
      /\ DOMAIN Tail(cmds[c]) \subseteq Nat \ {0}
  BY <1>2, Elements
<1>4. Once(cmds[c]) /\ Wanted(cmds[c]) /\ handler[e] = "none"
  BY <1>3 DEF FreshInv, ConnectOnce, Wanted
<1>5. ~Wanted(Tail(cmds[c]))
  BY <1>3, <1>4 DEF Once, Wanted
<1>6. cmds'[c] = Tail(cmds[c]) /\ \A q \in Peers \ {c} : cmds'[q] = cmds[q]
  BY <1>1, <1>2 DEF TypeOK, PeerTypeOK, CommandsTypeOK
<1>7. /\ e \in Ends /\ a \in Ends /\ a # e /\ a \in AcceptEnds /\ backlog \in Seq(AcceptEnds)
      /\ handler \in [Ends -> {"none", "running", "done"}]
  BY ClientEnds DEF TypeOK, AcceptTypeOK, LinkTypeOK
<1>8. /\ handler[a] = "none" /\ \A i \in DOMAIN backlog : backlog[i] # a
  BY <1>4 DEF FreshInv, DialFirst
<1>9. /\ \A i \in DOMAIN backlog' : \/ i \in DOMAIN backlog /\ backlog'[i] = backlog[i]
                                    \/ i = Len(backlog) + 1 /\ backlog'[i] = a
      /\ \A i \in DOMAIN backlog : backlog[i] # e /\ backlog[i] \in Ends
  <2>1. \A i \in DOMAIN backlog : backlog[i] \in AcceptEnds
    BY <1>7, Elements, ElementOfSeq
  <2>. QED
    BY <1>1, <1>7, <2>1, Elements DEF AcceptEnds, Ends
<1>10. handler'[e] = "running" /\ \A x \in Ends \ {e} : handler'[x] = handler[x]
  BY <1>1, <1>7
<1>11. ConnectOnce'
  <2> SUFFICES ASSUME NEW d \in Clients
               PROVE  Once(cmds'[d]) /\ (Wanted(cmds'[d]) => handler'[<<d, "dial">>] = "none")
    BY DEF ConnectOnce
  <2>1. CASE d = c
    BY <1>5, <1>6, <2>1 DEF Once, Wanted
  <2>2. CASE d # c
    BY <1>6, <1>10, <2>2, ClientEnds DEF FreshInv, ConnectOnce, Clients
  <2>. QED
    BY <2>1, <2>2
<1>12. BacklogFresh'
  BY <1>7, <1>8, <1>9, <1>10 DEF FreshInv, BacklogFresh
<1>13. DialFirst'
  <2> SUFFICES ASSUME NEW d \in Clients, handler'[<<d, "dial">>] = "none"
               PROVE  /\ handler'[<<d, "accept">>] = "none"
                      /\ \A i \in DOMAIN backlog' : backlog'[i] # <<d, "accept">>
    BY DEF DialFirst
  <2>1. d # c
    BY <1>10
  <2>2. handler[<<d, "dial">>] = "none" /\ handler'[<<d, "accept">>] = handler[<<d, "accept">>]
    BY <1>10, <2>1, ClientEnds
  <2>. QED
    BY <1>9, <2>1, <2>2 DEF FreshInv, DialFirst
<1>. QED
  BY <1>4, <1>11, <1>12, <1>13 DEF FreshInv

LEMMA AcceptFresh ==
    ASSUME TypeOK, FreshInv, Accept
    PROVE  FreshInv' /\ handler[Head(backlog)] = "none" /\ Head(backlog) \in AcceptEnds
<1> DEFINE a == Head(backlog)
<1>1. /\ backlog # <<>> /\ backlog' = Tail(backlog) /\ cmds' = cmds
      /\ handler' = [handler EXCEPT ![a] = "running"]
  BY DEF Accept
<1>2. backlog \in Seq(AcceptEnds) /\ handler \in [Ends -> {"none", "running", "done"}]
  BY DEF TypeOK, AcceptTypeOK, LinkTypeOK
<1>3. /\ 1 \in DOMAIN backlog /\ a = backlog[1] /\ a \in AcceptEnds
      /\ \A i \in DOMAIN Tail(backlog) : /\ i + 1 \in DOMAIN backlog /\ i + 1 # 1
                                         /\ Tail(backlog)[i] = backlog[i + 1]
      /\ DOMAIN Tail(backlog) \subseteq Nat
  BY <1>1, <1>2, Elements, HeadTailProperties
<1>4. handler[a] = "none" /\ \A i \in DOMAIN Tail(backlog) : Tail(backlog)[i] # a
  BY <1>3 DEF FreshInv, BacklogFresh
<1> HIDE DEF a
<1>5. a \in Ends /\ handler'[a] = "running" /\ \A e \in Ends \ {a} : handler'[e] = handler[e]
  BY <1>1, <1>2, <1>3 DEF Ends
<1>6. ASSUME NEW c \in Clients
      PROVE  <<c, "dial">> # a /\ <<c, "dial">> \in Ends /\ <<c, "accept">> \in Ends
  <2>1. PICK d \in Clients : a = <<d, "accept">>
    BY <1>3 DEF AcceptEnds
  <2>. QED
    BY <2>1, ClientEnds
<1>7. ConnectOnce'
  BY <1>1, <1>5, <1>6 DEF FreshInv, ConnectOnce
<1>8. BacklogFresh'
  <2>1. \A i \in DOMAIN backlog : backlog[i] \in Ends
    BY <1>2, Elements, ElementOfSeq DEF Ends
  <2>2. \A i, j \in DOMAIN Tail(backlog) :
            backlog[i + 1] = backlog[j + 1] => i + 1 = j + 1
    BY <1>3 DEF FreshInv, BacklogFresh
  <2>. QED
    BY <1>1, <1>3, <1>4, <1>5, <2>1, <2>2 DEF FreshInv, BacklogFresh
<1>9. DialFirst'
  <2> SUFFICES ASSUME NEW c \in Clients, handler'[<<c, "dial">>] = "none"
               PROVE  /\ handler'[<<c, "accept">>] = "none"
                      /\ \A i \in DOMAIN backlog' : backlog'[i] # <<c, "accept">>
    BY DEF DialFirst
  <2>1. handler[<<c, "dial">>] = "none"
    BY <1>5, <1>6
  <2>2. /\ handler[<<c, "accept">>] = "none"
        /\ \A i \in DOMAIN backlog : backlog[i] # <<c, "accept">>
    BY <2>1 DEF FreshInv, DialFirst
  <2>3. a # <<c, "accept">>
    BY <1>3, <2>2
  <2>. QED
    BY <1>1, <1>3, <1>5, <1>6, <2>2, <2>3
<1>. QED
  BY <1>3, <1>4, <1>7, <1>8, <1>9 DEF FreshInv, a

LEMMA FreshStep == TypeOK /\ FreshInv /\ [Next]_vars => FreshInv'
<1> SUFFICES ASSUME TypeOK, FreshInv, [Next]_vars PROVE FreshInv'
  OBVIOUS
<1>1. CASE AppAction
  <2>1. CASE AppListen
    <3>1. SendCommand(Server, BindCmd) /\ UNCHANGED <<handler, backlog>>
      BY <2>1 DEF AppListen, Listen, tcpVars
    <3>. QED
      BY <3>1, CallFresh, CommandTypes, TcpAssumption DEF BindCmd, ConnectCmd
  <2>2. ASSUME NEW e \in Ends, NEW r \in Kinds, AppCreateStream(e, r) PROVE FreshInv'
    <3>1. PICK x \in TcpCommand[Owner(e)] :
              x.type = "CreateStream" /\ (SendCommand(Owner(e), x) \/ UNCHANGED cmds)
      BY <2>2, CreateParts
    <3>2. Owner(e) \in Peers /\ UNCHANGED <<handler, backlog>> /\ x # ConnectCmd
      BY <2>2, <3>1, CreateParts DEF tcpVars, ConnectCmd
    <3>3. CASE SendCommand(Owner(e), x)
      BY <3>2, <3>3, CallFresh
    <3>4. CASE UNCHANGED cmds
      BY <3>2, <3>4, QuietFresh
    <3>. QED
      BY <3>1, <3>3, <3>4
  <2>3. ASSUME NEW e \in Ends, NEW s \in KnownStreams(Owner(e), e), AppCloseStream(e, s)
        PROVE  FreshInv'
    <3>1. SendCommand(Owner(e), CloseStreamCmd(e, s)) /\ UNCHANGED <<handler, backlog>>
      BY <2>3 DEF AppCloseStream, CloseStream, tcpVars
    <3>2. s \in StreamId /\ Owner(e) \in Peers /\ e \in EndsOf(Owner(e))
      BY EndFacts, KnownStreamsType DEF TypeOK, PeerTypeOK
    <3>. QED
      BY <3>1, <3>2, CallFresh, CommandTypes DEF CloseStreamCmd, ConnectCmd
  <2>4. ASSUME NEW e \in Ends, NEW s \in KnownStreams(Owner(e), e), AppSend(e, s)
        PROVE  FreshInv'
    <3> DEFINE m == [stream |-> s, n |-> sent[e] + 1]
    <3>1. SendCommand(Owner(e), SendCmd(e, m)) /\ UNCHANGED <<handler, backlog>>
      BY <2>4 DEF AppSend, Send, linkVars, acceptVars
    <3>2. s \in StreamId /\ Owner(e) \in Peers /\ e \in EndsOf(Owner(e))
      BY EndFacts, KnownStreamsType DEF TypeOK, PeerTypeOK
    <3>3. sent[e] < MaxSends[e] /\ sent[e] \in Nat /\ MaxSends[e] \in Nat
      BY <2>4, TcpAssumption DEF AppSend, TypeOK, HistoryTypeOK
    <3>4. m \in Packet
      BY <3>2, <3>3 DEF Packet
    <3>5. SendCmd(e, m) \in TcpCommand[Owner(e)] /\ SendCmd(e, m) # ConnectCmd
      BY <3>2, <3>4, CommandTypes DEF SendCmd, ConnectCmd
    <3>. QED
      BY <3>1, <3>2, <3>5, CallFresh
  <2>5. ASSUME NEW p \in Peers, AppPoll(p) \/ AppJoin(p) PROVE FreshInv'
    BY <2>5, QuietFresh DEF AppPoll, AppJoin, Poll, Join, tcpVars
  <2>6. ASSUME NEW p \in Peers, AppShutdown(p) PROVE FreshInv'
    <3>1. SendCommand(p, ShutdownCmd) /\ UNCHANGED <<handler, backlog>>
      BY <2>6 DEF AppShutdown, Shutdown, tcpVars
    <3>. QED
      BY <3>1, CallFresh, CommandTypes DEF ShutdownCmd, ConnectCmd
  <2>. QED
    BY <1>1, <2>1, <2>2, <2>3, <2>4, <2>5, <2>6, DialFresh DEF AppAction
<1>2. ASSUME NEW p \in Peers, HandleCommand(p) PROVE FreshInv'
  <2>1. CASE p = Server /\ Bind
    BY <2>1, TakeFresh DEF Bind, linkVars
  <2>2. CASE p \in Clients /\ ConnectFails(p)
    BY <2>2, TakeFresh DEF ConnectFails, tcpVars
  <2>3. CASE SendUnknown(p) \/ SendClosed(p)
    BY <2>3, TakeFresh DEF SendUnknown, SendClosed, tcpVars
  <2>4. CASE SendQueued(p) \/ SendWaits(p)
    BY <2>4, TakeFresh DEF SendQueued, SendWaits, acceptVars
  <2>5. CASE BackendCreateStream(p) \/ BackendCloseStream(p)
    BY <2>5, TakeFresh DEF BackendCreateStream, BackendCloseStream, tcpVars
  <2>6. CASE BackendShutdown(p) \/ (p = Server /\ BindFails)
    BY <2>6, StopFresh DEF BackendShutdown, BindFails
  <2>. QED
    BY <1>2, <2>1, <2>2, <2>3, <2>4, <2>5, <2>6, ConnectFresh DEF HandleCommand
<1>3. CASE RegisterPeer \/ Register \/ AcceptFails
  BY <1>3, QuietFresh DEF RegisterPeer, Register, AcceptFails, DropBacklog, linkVars, peerVars
<1>4. CASE Accept
  BY <1>4, AcceptFresh
<1>5. ASSUME NEW e \in Ends,
             ResumeSend(e) \/ HandlerRead(e) \/ HandlerTake(e) \/ WriteOut(e)
      PROVE  FreshInv'
  <2>1. UNCHANGED <<cmds, handler, backlog>>
    BY <1>5 DEF ResumeSend, SendResumes, SendGivesUp, HandlerRead, HandlerTake, WriteOut,
                HandlerWrite, HandlerWriteFails, acceptVars, peerVars
  <2>. QED
    BY <2>1, QuietFresh
<1>6. ASSUME NEW e \in Ends, HandlerEof(e) PROVE FreshInv'
  <2>1. /\ UNCHANGED <<cmds, backlog>> /\ handler[e] = "running"
        /\ handler' = [handler EXCEPT ![e] = "done"]
    BY <1>6 DEF HandlerEof, Running, acceptVars
  <2>2. \A d \in Ends : handler'[d] = "none" <=> handler[d] = "none"
    BY <2>1 DEF TypeOK, LinkTypeOK
  <2>. QED
    BY <2>1, <2>2, QuietFresh
<1>7. ASSUME NEW p \in Peers, Die(p) PROVE FreshInv'
  BY <1>7, StopFresh DEF Die
<1>8. ASSUME NEW c \in Clients, Reset(c) PROVE FreshInv'
  BY <1>8, QuietFresh DEF Reset, acceptVars, peerVars
<1>9. CASE UNCHANGED vars
  BY <1>9, QuietFresh DEF vars, peerVars, tcpVars
<1>. QED
  BY <1>1, <1>2, <1>3, <1>4, <1>5, <1>6, <1>7, <1>8, <1>9 DEF Next

-------------------------------------------------------------------------------
(* Unopened ends *)

LEMMA UnopenedFrame ==
    ASSUME UnopenedInv,
           \A e \in Ends : handler'[e] = "none" => handler[e] = "none",
           UNCHANGED <<registered, registering, regQ, waiting, writeQ, hold>>
    PROVE  UnopenedInv'
BY DEF UnopenedInv

LEMMA RegisteredIsOpen ==
    ASSUME TypeOK, UnopenedInv, NEW e \in Ends, e \in registered
    PROVE  handler[e] # "none"
BY DEF UnopenedInv

LEMMA UnopenedCommand ==
    ASSUME TypeOK, FreshInv, UnopenedInv, NEW p \in Peers, HandleCommand(p)
    PROVE  UnopenedInv'
<1>1. CASE p = Server /\ Bind
  BY <1>1, UnopenedFrame DEF Bind, linkVars
<1>2. CASE p \in Clients /\ Connect(p)
  <2>1. /\ handler' = [handler EXCEPT ![<<p, "dial">>] = "running"]
        /\ registered' = registered \cup {<<p, "dial">>}
        /\ UNCHANGED <<registering, regQ, waiting, writeQ, hold>>
    BY <1>2 DEF Connect
  <2>2. <<p, "dial">> \in Ends /\ handler \in [Ends -> {"none", "running", "done"}]
    BY <1>2, ClientEnds DEF TypeOK, LinkTypeOK
  <2>. QED
    BY <2>1, <2>2 DEF UnopenedInv
<1>3. CASE p \in Clients /\ ConnectFails(p)
  BY <1>3, UnopenedFrame DEF ConnectFails, tcpVars
<1>4. CASE SendUnknown(p) \/ SendClosed(p)
  BY <1>4, UnopenedFrame DEF SendUnknown, SendClosed, tcpVars
<1>5. CASE SendQueued(p) \/ SendWaits(p)
  <2> DEFINE f == HeadConn(p)
  <2>1. /\ HandlesQuietly(p, "Send") /\ f \in registered
        /\ UNCHANGED <<registered, registering, regQ, hold, handler>>
    BY <1>5 DEF SendQueued, SendWaits, acceptVars
  <2>2. f \in Ends
    BY <2>1, SendParts
  <2>3. handler[f] # "none"
    BY <2>1, <2>2, RegisteredIsOpen
  <2>4. \A e \in Ends \ {f} : writeQ'[e] = writeQ[e] /\ waiting'[e] = waiting[e]
    BY <1>5, <2>2 DEF SendQueued, SendWaits, TypeOK, LinkTypeOK
  <2> HIDE DEF f
  <2>. QED
    BY <2>1, <2>3, <2>4 DEF UnopenedInv
<1>6. CASE BackendCreateStream(p) \/ BackendCloseStream(p)
  BY <1>6, UnopenedFrame DEF BackendCreateStream, BackendCloseStream, tcpVars
<1>7. CASE BackendShutdown(p) \/ (p = Server /\ BindFails)
  <2>1. Stop(p)
    BY <1>7 DEF BackendShutdown, BindFails
  <2>. QED
    BY <2>1 DEF Stop, UnopenedInv, Running, acceptVars
<1>. QED
  BY <1>1, <1>2, <1>3, <1>4, <1>5, <1>6, <1>7 DEF HandleCommand

LEMMA UnopenedAccept ==
    ASSUME TypeOK, FreshInv, UnopenedInv, RegisterPeer \/ Accept \/ Register
    PROVE  UnopenedInv'
<1>1. CASE RegisterPeer
  <2>1. /\ regQ # <<>> /\ registered' = registered \cup {Head(regQ)} /\ regQ' = Tail(regQ)
        /\ UNCHANGED <<registering, waiting, writeQ, hold, handler>>
    BY <1>1 DEF RegisterPeer, linkVars
  <2>2. /\ 1 \in DOMAIN regQ /\ Head(regQ) = regQ[1]
        /\ \A i \in DOMAIN Tail(regQ) : i + 1 \in DOMAIN regQ /\ Tail(regQ)[i] = regQ[i + 1]
    BY <2>1, Elements DEF TypeOK, AcceptTypeOK
  <2>. QED
    BY <2>1, <2>2 DEF UnopenedInv
<1>2. CASE Accept
  <2>1. /\ registering' = <<Head(backlog)>>
        /\ handler' = [handler EXCEPT ![Head(backlog)] = "running"]
        /\ UNCHANGED <<regQ, registered, waiting, writeQ, hold>>
    BY <1>2 DEF Accept
  <2>2. Head(backlog) \in Ends /\ handler \in [Ends -> {"none", "running", "done"}]
    BY <1>2, AcceptFresh DEF Ends, TypeOK, LinkTypeOK
  <2>. QED
    BY <2>1, <2>2 DEF UnopenedInv
<1>3. CASE Register
  <2>1. /\ regQ' = regQ \o registering /\ registering' = <<>>
        /\ UNCHANGED <<registered, waiting, writeQ, hold, handler>>
    BY <1>3 DEF Register, linkVars
  <2>2. regQ \in Seq(AcceptEnds) /\ registering \in AtMostOne(AcceptEnds)
    BY DEF TypeOK, AcceptTypeOK
  <2>3. \A i \in DOMAIN regQ' : \/ i \in DOMAIN regQ /\ regQ'[i] = regQ[i]
                                \/ registering = <<regQ'[i]>>
    <3>1. CASE registering = <<>>
      BY <2>1, <2>2, <3>1, ConcatEmptySeq
    <3>2. ASSUME NEW x \in AcceptEnds, registering = <<x>>
          PROVE  \A i \in DOMAIN regQ' : \/ i \in DOMAIN regQ /\ regQ'[i] = regQ[i]
                                         \/ regQ'[i] = x
      <4>1. regQ' = Append(regQ, x)
        BY <2>1, <2>2, <3>2, AppendIsConcat
      <4>. QED
        BY <2>2, <4>1, Elements
    <3>. QED
      BY <2>2, <3>1, <3>2 DEF AtMostOne
  <2>. QED
    BY <2>1, <2>3 DEF UnopenedInv
<1>. QED
  BY <1>1, <1>2, <1>3

LEMMA UnopenedHandler ==
    ASSUME TypeOK, UnopenedInv, NEW e \in Ends,
           ResumeSend(e) \/ HandlerRead(e) \/ HandlerEof(e) \/ HandlerTake(e) \/ WriteOut(e)
    PROVE  UnopenedInv'
<1>1. /\ writeQ \in [Ends -> Seq(Packet)] /\ waiting \in [Ends -> AtMostOne(Packet)]
      /\ hold \in [Ends -> AtMostOne(Packet)] /\ handler \in [Ends -> {"none", "running", "done"}]
  BY DEF TypeOK, LinkTypeOK
<1>2. CASE ResumeSend(e)
  <2>1. /\ waiting[e] # <<>> /\ UNCHANGED <<registered, registering, regQ, hold, handler>>
        /\ \A d \in Ends \ {e} : waiting'[d] = waiting[d] /\ writeQ'[d] = writeQ[d]
    BY <1>1, <1>2 DEF ResumeSend, SendResumes, SendGivesUp, acceptVars
  <2>. QED
    BY <2>1 DEF UnopenedInv
<1>3. CASE HandlerRead(e)
  BY <1>3, UnopenedFrame DEF HandlerRead, acceptVars
<1>4. CASE HandlerEof(e)
  <2>1. /\ handler' = [handler EXCEPT ![e] = "done"]
        /\ writeQ' = [writeQ EXCEPT ![e] = <<>>]
        /\ UNCHANGED <<registered, registering, regQ, waiting, hold>>
    BY <1>4 DEF HandlerEof, acceptVars
  <2>. QED
    BY <1>1, <2>1 DEF UnopenedInv
<1>5. CASE HandlerTake(e)
  <2>1. /\ handler[e] = "running" /\ UNCHANGED <<registered, registering, regQ, waiting, handler>>
        /\ \A d \in Ends \ {e} : hold'[d] = hold[d] /\ writeQ'[d] = writeQ[d]
    BY <1>1, <1>5 DEF HandlerTake, Running, acceptVars
  <2>. QED
    BY <2>1 DEF UnopenedInv
<1>6. CASE WriteOut(e)
  <2>1. /\ hold' = [hold EXCEPT ![e] = <<>>]
        /\ UNCHANGED <<registered, registering, regQ, waiting, writeQ, handler>>
    BY <1>6 DEF WriteOut, HandlerWrite, HandlerWriteFails, acceptVars
  <2>. QED
    BY <1>1, <2>1 DEF UnopenedInv
<1>. QED
  BY <1>2, <1>3, <1>4, <1>5, <1>6

LEMMA UnopenedStep == TypeOK /\ FreshInv /\ UnopenedInv /\ [Next]_vars => UnopenedInv'
<1> SUFFICES ASSUME TypeOK, FreshInv, UnopenedInv, [Next]_vars PROVE UnopenedInv'
  OBVIOUS
<1>1. CASE AppAction
  <2>1. UNCHANGED <<registered, registering, regQ, waiting, writeQ, hold, handler>>
    BY <1>1 DEF AppAction, AppListen, AppDial, AppCreateStream, AppCloseStream, AppSend, AppPoll,
                AppShutdown, AppJoin, tcpVars, acceptVars, linkVars
  <2>. QED
    BY <2>1, UnopenedFrame
<1>2. CASE AcceptFails
  BY <1>2, UnopenedFrame DEF AcceptFails
<1>3. ASSUME NEW p \in Peers, Die(p) PROVE UnopenedInv'
  BY <1>3 DEF Die, Stop, UnopenedInv, Running, acceptVars
<1>4. ASSUME NEW c \in Clients, Reset(c) PROVE UnopenedInv'
  BY <1>4, UnopenedFrame DEF Reset, acceptVars
<1>5. CASE UNCHANGED vars
  BY <1>5, UnopenedFrame DEF vars, tcpVars
<1>. QED
  BY <1>1, <1>2, <1>3, <1>4, <1>5, UnopenedCommand, UnopenedAccept, UnopenedHandler DEF Next

-------------------------------------------------------------------------------
(* The links *)

LEMMA LinkTypes ==
    ASSUME TypeOK, NEW e \in Ends
    PROVE  /\ accepted[e] \in Seq(Packet) /\ delivered[Other(e)] \in Seq(Packet)
           /\ sock[e] \in Seq(Packet) /\ hold[e] \in Seq(Packet) /\ writeQ[e] \in Seq(Packet)
           /\ waiting[e] \in Seq(Packet)
           /\ hold[e] \in AtMostOne(Packet) /\ waiting[e] \in AtMostOne(Packet)
BY EndFacts, AtMostOneType DEF TypeOK, LinkTypeOK, HistoryTypeOK

LEMMA ArrayTypes ==
    ASSUME TypeOK
    PROVE  /\ accepted \in [Ends -> Seq(Packet)] /\ delivered \in [Ends -> Seq(Packet)]
           /\ sock \in [Ends -> Seq(Packet)] /\ writeQ \in [Ends -> Seq(Packet)]
           /\ hold \in [Ends -> AtMostOne(Packet)] /\ waiting \in [Ends -> AtMostOne(Packet)]
           /\ handler \in [Ends -> {"none", "running", "done"}]
BY DEF TypeOK, LinkTypeOK, HistoryTypeOK

\* A step that accepts and delivers nothing, and loses something only on a
\* connection that is reset or has an end closed after it.
LEMMA LossyFrame ==
    ASSUME TypeOK, LinkInv, UNCHANGED <<accepted, delivered>>, reset \subseteq reset',
           \A e \in Ends : handler[e] = "done" => handler'[e] = "done",
           \A e \in Ends : sock'[e] = sock[e] \/ (sock'[e] = <<>> /\ e[1] \in reset'),
           \A e \in Ends : hold'[e] = <<>> \/ (hold'[e] = hold[e] /\ handler'[e] = handler[e]),
           \A e \in Ends : \/ e[1] \in reset'
                           \/ handler'[e] = "done"
                           \/ handler'[Other(e)] = "done"
                           \/ /\ hold'[e] = hold[e] /\ writeQ'[e] = writeQ[e]
                              /\ waiting'[e] = waiting[e]
    PROVE  LinkInv'
<1> SUFFICES ASSUME NEW e \in Ends PROVE LinkOK(e)'
  BY DEF LinkInv
<1>1. LinkOK(e) /\ Other(e) \in Ends
  BY EndFacts DEF LinkInv
<1>2. (hold[e] # <<>> => ~Closed(e))'
  BY <1>1 DEF LinkOK, Closed
<1>3. (Intact(e) => Complete(e))'
  BY <1>1 DEF LinkOK, Intact, Complete, Closed, Broken
<1>4. Delivers(e)'
  <2>1. PICK rest \in Seq(Packet) : accepted[e] = (delivered[Other(e)] \o sock[e]) \o rest
    BY <1>1 DEF LinkOK, Delivers
  <2>2. CASE sock'[e] = sock[e]
    BY <2>1, <2>2 DEF Delivers
  <2>3. CASE sock'[e] = <<>>
    <3>1. /\ sock[e] \o rest \in Seq(Packet)
          /\ accepted[e] = delivered[Other(e)] \o (sock[e] \o rest)
      <4>1. sock[e] \in Seq(Packet) /\ delivered[Other(e)] \in Seq(Packet)
        BY LinkTypes
      <4>2. (delivered[Other(e)] \o sock[e]) \o rest = delivered[Other(e)] \o (sock[e] \o rest)
        BY <4>1, PacketsAssociative
      <4>. QED
        BY <2>1, <4>1, <4>2, ConcatProperties
    <3>2. delivered'[Other(e)] \o sock'[e] = delivered[Other(e)]
      BY <2>3, LinkTypes, ConcatEmptySeq
    <3>3. accepted'[e] = (delivered'[Other(e)] \o sock'[e]) \o (sock[e] \o rest)
      BY <3>1, <3>2
    <3>. QED
      BY <3>1, <3>3 DEF Delivers
  <2>. QED
    BY <2>2, <2>3
<1>. QED
  BY <1>2, <1>3, <1>4 DEF LinkOK

LEMMA SameLinks ==
    ASSUME TypeOK, LinkInv,
           UNCHANGED <<accepted, delivered, sock, hold, writeQ, waiting, handler>>,
           reset' = reset
    PROVE  LinkInv'
BY LossyFrame

\* A step that moves packets on one link.
LEMMA OneLink ==
    ASSUME TypeOK, LinkInv, NEW f \in Ends, UNCHANGED <<handler, reset>>, LinkOK(f)',
           \A e \in Ends \ {f} : /\ accepted'[e] = accepted[e] /\ sock'[e] = sock[e]
                                 /\ delivered'[Other(e)] = delivered[Other(e)]
                                 /\ hold'[e] = hold[e] /\ writeQ'[e] = writeQ[e]
                                 /\ waiting'[e] = waiting[e]
    PROVE  LinkInv'
<1> SUFFICES ASSUME NEW e \in Ends, e # f PROVE LinkOK(e)'
  BY DEF LinkInv
<1>1. LinkOK(e)
  BY DEF LinkInv
<1>. QED
  BY <1>1 DEF LinkOK, Intact, Complete, Delivers, Closed, Broken

\* One packet more is accepted.
LEMMA AcceptDelivers ==
    ASSUME TypeOK, NEW e \in Ends, NEW m \in Packet, Delivers(e),
           accepted'[e] = Append(accepted[e], m),
           sock'[e] = sock[e], delivered'[Other(e)] = delivered[Other(e)]
    PROVE  Delivers(e)'
<1>1. PICK rest \in Seq(Packet) : accepted[e] = (delivered[Other(e)] \o sock[e]) \o rest
  BY DEF Delivers
<1> DEFINE p == delivered[Other(e)] \o sock[e]
<1>2. p \in Seq(Packet) /\ Append(rest, m) \in Seq(Packet)
  BY LinkTypes, ConcatProperties, AppendType
<1>3. accepted[e] = p \o rest
  BY <1>1
<1>4. Append(accepted[e], m) = p \o Append(rest, m)
  <2> HIDE DEF p
  <2>1. p \o rest \in Seq(Packet) /\ <<m>> \in Seq(Packet)
    BY <1>2, ConcatProperties, OneType
  <2>2. Append(p \o rest, m) = (p \o rest) \o <<m>> /\ Append(rest, m) = rest \o <<m>>
    BY <2>1, AppendIsConcat
  <2>3. (p \o rest) \o <<m>> = p \o (rest \o <<m>>)
    BY <1>2, <2>1, ConcatAssociative
  <2>. QED
    BY <1>3, <2>2, <2>3
<1>5. accepted'[e] = (delivered'[Other(e)] \o sock'[e]) \o Append(rest, m)
  BY <1>4
<1>. QED
  BY <1>2, <1>5 DEF Delivers

LEMMA QueueLinks ==
    ASSUME TypeOK, LinkInv, NEW f \in Ends, NEW m \in Packet, waiting[f] = <<>>,
           accepted' = [accepted EXCEPT ![f] = Append(@, m)],
           UNCHANGED <<hold, sock, handler, reset, delivered>>,
           \/ writeQ' = [writeQ EXCEPT ![f] = Append(@, m)] /\ waiting' = waiting
           \/ waiting' = [waiting EXCEPT ![f] = <<m>>] /\ writeQ' = writeQ
    PROVE  LinkInv'
<1>1. LinkOK(f)
  BY DEF LinkInv
<1>2. accepted'[f] = Append(accepted[f], m)
  BY ArrayTypes
<1>3. Delivers(f)'
  BY <1>1, <1>2, AcceptDelivers DEF LinkOK
<1>4. (Intact(f) => Complete(f))'
  <2> SUFFICES ASSUME Intact(f)' PROVE Complete(f)'
    OBVIOUS
  <2> DEFINE h == delivered[Other(f)] \o sock[f] \o hold[f]
  <2>1. h \in Seq(Packet) /\ writeQ[f] \in Seq(Packet)
    BY LinkTypes, ConcatProperties
  <2>2. Intact(f)
    BY DEF Intact, Broken, Closed
  <2>3. accepted[f] = (h \o writeQ[f]) \o <<>>
    BY <1>1, <2>2 DEF LinkOK, Complete
  <2>4. h = delivered'[Other(f)] \o sock'[f] \o hold'[f]
    OBVIOUS
  <2> HIDE DEF h
  <2>5. CASE writeQ' = [writeQ EXCEPT ![f] = Append(@, m)] /\ waiting' = waiting
    <3>1. writeQ'[f] = Append(writeQ[f], m) /\ waiting'[f] = <<>>
      BY <2>5, ArrayTypes
    <3>2. Append((h \o writeQ[f]) \o <<>>, m) = (h \o Append(writeQ[f], m)) \o <<>>
      BY <2>1, QueueLast
    <3>3. accepted'[f] = (h \o writeQ'[f]) \o waiting'[f]
      BY <1>2, <2>3, <3>1, <3>2
    <3>. QED
      BY <2>4, <3>3 DEF Complete
  <2>6. CASE waiting' = [waiting EXCEPT ![f] = <<m>>] /\ writeQ' = writeQ
    <3>1. waiting'[f] = <<m>> /\ writeQ'[f] = writeQ[f]
      BY <2>6, ArrayTypes
    <3>2. h \o writeQ[f] \in Seq(Packet)
      BY <2>1, ConcatProperties
    <3>3. Append((h \o writeQ[f]) \o <<>>, m) = (h \o writeQ[f]) \o <<m>>
      BY <3>2, WaitLast
    <3>4. accepted'[f] = (h \o writeQ'[f]) \o waiting'[f]
      BY <1>2, <2>3, <3>1, <3>3
    <3>. QED
      BY <2>4, <3>4 DEF Complete
  <2>. QED
    BY <2>5, <2>6
<1>5. LinkOK(f)'
  BY <1>1, <1>3, <1>4 DEF LinkOK, Closed
<1>6. \A e \in Ends \ {f} : /\ accepted'[e] = accepted[e] /\ sock'[e] = sock[e]
                             /\ delivered'[Other(e)] = delivered[Other(e)]
                             /\ hold'[e] = hold[e] /\ writeQ'[e] = writeQ[e]
                             /\ waiting'[e] = waiting[e]
  BY ArrayTypes
<1>. QED
  BY <1>5, <1>6, OneLink

LEMMA SendLinks ==
    ASSUME TypeOK, LinkInv, NEW p \in Peers, SendQueued(p) \/ SendWaits(p)
    PROVE  LinkInv'
<1>1. HandlesQuietly(p, "Send")
  BY DEF SendQueued, SendWaits
<1>2. PICK f \in Ends, m \in Packet :
          /\ f = HeadConn(p) /\ m = HeadPacket(p) /\ waiting[f] = <<>>
  BY <1>1, SendParts
<1>3. /\ accepted' = [accepted EXCEPT ![f] = Append(@, m)]
      /\ UNCHANGED <<hold, sock, handler, reset, delivered>>
  BY <1>2 DEF SendQueued, SendWaits
<1>4. \/ writeQ' = [writeQ EXCEPT ![f] = Append(@, m)] /\ waiting' = waiting
      \/ waiting' = [waiting EXCEPT ![f] = <<m>>] /\ writeQ' = writeQ
  BY <1>2 DEF SendQueued, SendWaits
<1>. QED
  BY <1>2, <1>3, <1>4, QueueLinks

\* Packets that move within the link of f, and are neither accepted nor delivered.
LEMMA MoveLinks ==
    ASSUME TypeOK, LinkInv, NEW f \in Ends,
           UNCHANGED <<accepted, delivered, handler, reset>>,
           \A e \in Ends \ {f} : /\ sock'[e] = sock[e] /\ hold'[e] = hold[e]
                                 /\ writeQ'[e] = writeQ[e] /\ waiting'[e] = waiting[e],
           hold'[f] # <<>> => ~Closed(f),
           Intact(f) =>
               delivered[Other(f)] \o sock'[f] \o hold'[f] \o writeQ'[f] \o waiting'[f] = accepted[f],
           Delivers(f)'
    PROVE  LinkInv'
<1>1. LinkOK(f)'
  BY DEF LinkOK, Intact, Complete, Closed, Broken
<1>2. \A e \in Ends \ {f} : /\ accepted'[e] = accepted[e] /\ sock'[e] = sock[e]
                            /\ delivered'[Other(e)] = delivered[Other(e)]
                            /\ hold'[e] = hold[e] /\ writeQ'[e] = writeQ[e]
                            /\ waiting'[e] = waiting[e]
  OBVIOUS
<1>. QED
  BY <1>1, <1>2, OneLink

LEMMA ResumeLinks ==
    ASSUME TypeOK, LinkInv, NEW f \in Ends, SendResumes(f)
    PROVE  LinkInv'
<1>1. /\ writeQ' = [writeQ EXCEPT ![f] = @ \o waiting[f]]
      /\ waiting' = [waiting EXCEPT ![f] = <<>>]
      /\ UNCHANGED <<accepted, delivered, handler, reset, hold, sock>>
  BY DEF SendResumes, historyVars
<1>2. LinkOK(f)
  BY DEF LinkInv
<1>3. /\ writeQ'[f] = writeQ[f] \o waiting[f] /\ waiting'[f] = <<>>
      /\ \A e \in Ends \ {f} : writeQ'[e] = writeQ[e] /\ waiting'[e] = waiting[e]
  BY <1>1, ArrayTypes
<1>4. ASSUME Intact(f)
      PROVE  delivered[Other(f)] \o sock'[f] \o hold'[f] \o writeQ'[f] \o waiting'[f] = accepted[f]
  <2> DEFINE h == delivered[Other(f)] \o sock[f] \o hold[f]
  <2>1. h \in Seq(Packet) /\ writeQ[f] \in Seq(Packet) /\ waiting[f] \in Seq(Packet)
    BY LinkTypes, ConcatProperties
  <2>2. accepted[f] = (h \o writeQ[f]) \o waiting[f]
    BY <1>2, <1>4 DEF LinkOK, Complete
  <2>3. (h \o writeQ[f]) \o waiting[f] = (h \o (writeQ[f] \o waiting[f])) \o <<>>
    BY <2>1, MoveTogether
  <2>. QED
    BY <1>1, <1>3, <2>2, <2>3
<1>5. Delivers(f)'
  BY <1>1, <1>2 DEF LinkOK, Delivers
<1>. QED
  BY <1>1, <1>2, <1>3, <1>4, <1>5, MoveLinks DEF LinkOK

LEMMA TakeLinks ==
    ASSUME TypeOK, LinkInv, NEW f \in Ends, HandlerTake(f)
    PROVE  LinkInv'
<1>1. /\ Running(f) /\ hold[f] = <<>> /\ writeQ[f] # <<>>
      /\ hold' = [hold EXCEPT ![f] = <<Head(writeQ[f])>>]
      /\ writeQ' = [writeQ EXCEPT ![f] = Tail(@)]
      /\ UNCHANGED <<accepted, delivered, handler, reset, waiting, sock>>
  BY DEF HandlerTake, historyVars
<1>2. LinkOK(f) /\ ~Closed(f)
  BY <1>1 DEF LinkInv, Running, Closed
<1>3. /\ hold'[f] = <<Head(writeQ[f])>> /\ writeQ'[f] = Tail(writeQ[f])
      /\ \A e \in Ends \ {f} : writeQ'[e] = writeQ[e] /\ hold'[e] = hold[e]
  BY <1>1, ArrayTypes
<1>4. ASSUME Intact(f)
      PROVE  delivered[Other(f)] \o sock'[f] \o hold'[f] \o writeQ'[f] \o waiting'[f] = accepted[f]
  <2> DEFINE d == delivered[Other(f)] \o sock[f]
  <2>1. d \in Seq(Packet) /\ writeQ[f] \in Seq(Packet)
    BY LinkTypes, ConcatProperties
  <2>2. accepted[f] = ((d \o <<>>) \o writeQ[f]) \o waiting[f]
    BY <1>1, <1>2, <1>4 DEF LinkOK, Complete
  <2>3. (d \o <<>>) \o writeQ[f] = (d \o <<Head(writeQ[f])>>) \o Tail(writeQ[f])
    BY <1>1, <2>1, MoveHead
  <2>. QED
    BY <1>1, <1>3, <2>2, <2>3
<1>5. Delivers(f)'
  BY <1>1, <1>2 DEF LinkOK, Delivers
<1>. QED
  BY <1>1, <1>2, <1>3, <1>4, <1>5, MoveLinks

\* Only an end that is not closed writes, and only on a connection that is whole
\* but for an end that closes: what it writes is the oldest packet not written.
LEMMA WriteLinks ==
    ASSUME TypeOK, LinkInv, NEW f \in Ends, HandlerWrite(f)
    PROVE  LinkInv'
<1>1. /\ hold[f] # <<>> /\ ~Broken(f) /\ ~Closed(Other(f))
      /\ sock' = [sock EXCEPT ![f] = @ \o hold[f]] /\ hold' = [hold EXCEPT ![f] = <<>>]
      /\ UNCHANGED <<accepted, delivered, handler, reset, waiting, writeQ>>
  BY DEF HandlerWrite, historyVars
<1>2. Complete(f)
  BY <1>1 DEF LinkInv, LinkOK, Intact
<1>3. /\ sock'[f] = sock[f] \o hold[f] /\ hold'[f] = <<>>
      /\ \A e \in Ends \ {f} : sock'[e] = sock[e] /\ hold'[e] = hold[e]
  BY <1>1, ArrayTypes
<1>4. /\ delivered[Other(f)] \in Seq(Packet) /\ sock[f] \in Seq(Packet) /\ hold[f] \in Seq(Packet)
      /\ writeQ[f] \in Seq(Packet) /\ waiting[f] \in Seq(Packet)
  BY LinkTypes
<1>5. (delivered[Other(f)] \o sock[f]) \o hold[f]
          = (delivered[Other(f)] \o (sock[f] \o hold[f])) \o <<>>
  BY <1>4, MoveTogether
<1>6. delivered[Other(f)] \o sock'[f] \o hold'[f] \o writeQ'[f] \o waiting'[f] = accepted[f]
  BY <1>1, <1>2, <1>3, <1>5 DEF Complete
<1>7. Delivers(f)'
  <2> DEFINE d == delivered[Other(f)] \o (sock[f] \o hold[f])
             rest == writeQ[f] \o waiting[f]
  <2>1. d \in Seq(Packet)
    BY <1>4, ConcatProperties
  <2>2. rest \in Seq(Packet) /\ ((d \o <<>>) \o writeQ[f]) \o waiting[f] = d \o rest
    <3> HIDE DEF d
    <3>. QED
      BY <1>4, <2>1, PrefixOf
  <2>3. accepted[f] = d \o rest
    BY <1>1, <1>3, <1>6, <2>2
  <2>4. accepted'[f] = (delivered'[Other(f)] \o sock'[f]) \o rest
    BY <1>1, <1>3, <2>3
  <2>. QED
    BY <2>2, <2>4 DEF Delivers
<1>. QED
  BY <1>1, <1>3, <1>6, <1>7, MoveLinks

\* The handler of e reads from the link of the other end.
LEMMA ReadLinks ==
    ASSUME TypeOK, LinkInv, NEW e \in Ends, HandlerRead(e)
    PROVE  LinkInv'
<1> DEFINE f == Other(e)
<1>1. f \in Ends /\ Other(f) = e /\ \A d \in Ends \ {f} : Other(d) # e
  BY EndFacts
<1>2. /\ sock[f] # <<>> /\ sock' = [sock EXCEPT ![f] = Tail(@)]
      /\ delivered' = [delivered EXCEPT ![e] = Append(@, Head(sock[f]))]
      /\ UNCHANGED <<accepted, handler, reset, hold, writeQ, waiting>>
  BY DEF HandlerRead
<1> HIDE DEF f
<1>3. LinkOK(f) /\ sock[f] \in Seq(Packet) /\ delivered[e] \in Seq(Packet)
  BY <1>1, ArrayTypes DEF LinkInv
<1>4. /\ sock'[f] = Tail(sock[f]) /\ delivered'[e] = Append(delivered[e], Head(sock[f]))
      /\ \A d \in Ends \ {f} : sock'[d] = sock[d] /\ delivered'[Other(d)] = delivered[Other(d)]
  BY <1>1, <1>2, ArrayTypes, EndFacts
<1>5. delivered[e] \o sock[f] = delivered'[e] \o sock'[f]
  BY <1>2, <1>3, <1>4, MoveHead
<1>6. LinkOK(f)'
  BY <1>1, <1>2, <1>3, <1>5 DEF LinkOK, Intact, Complete, Delivers, Closed, Broken
<1>. QED
  BY <1>1, <1>2, <1>4, <1>6, OneLink

\* A handler starts on an end that was not open.
LEMMA OpenLinks ==
    ASSUME TypeOK, LinkInv, NEW f \in Ends, handler[f] = "none",
           handler' = [handler EXCEPT ![f] = "running"],
           UNCHANGED <<accepted, delivered, sock, hold, writeQ, waiting, reset>>
    PROVE  LinkInv'
<1> SUFFICES ASSUME NEW e \in Ends PROVE LinkOK(e)'
  BY DEF LinkInv
<1>1. \A d \in Ends : handler'[d] = "done" <=> handler[d] = "done"
  BY ArrayTypes
<1>2. LinkOK(e) /\ Other(e) \in Ends
  BY EndFacts DEF LinkInv
<1>. QED
  BY <1>1, <1>2 DEF LinkOK, Intact, Complete, Delivers, Closed, Broken

LEMMA StopLinks ==
    ASSUME TypeOK, UnopenedInv, LinkInv, NEW p \in Peers, Stop(p)
    PROVE  LinkInv'
<1>1. /\ handler' = [e \in Ends |-> IF Owner(e) = p /\ Running(e) THEN "done" ELSE handler[e]]
      /\ waiting' = [e \in Ends |-> IF Owner(e) = p THEN <<>> ELSE waiting[e]]
      /\ writeQ' = [e \in Ends |-> IF Owner(e) = p THEN <<>> ELSE writeQ[e]]
      /\ hold' = [e \in Ends |-> IF Owner(e) = p THEN <<>> ELSE hold[e]]
      /\ UNCHANGED <<accepted, delivered>>
  BY DEF Stop, historyVars
<1>2. /\ reset \subseteq reset'
      /\ \A e \in Ends : sock'[e] = sock[e] \/ (sock'[e] = <<>> /\ e[1] \in reset')
  BY DEF Stop, DropBacklog
<1>3. \A e \in Ends : handler[e] = "done" => handler'[e] = "done"
  BY <1>1
<1>4. \A e \in Ends : hold'[e] = <<>> \/ (hold'[e] = hold[e] /\ handler'[e] = handler[e])
  BY <1>1
<1>5. ASSUME NEW e \in Ends
      PROVE  \/ handler'[e] = "done"
             \/ /\ hold'[e] = hold[e] /\ writeQ'[e] = writeQ[e]
                /\ waiting'[e] = waiting[e]
  <2>1. CASE Owner(e) # p
    BY <1>1, <2>1
  <2>2. CASE handler[e] = "none"
    BY <1>1, <2>2 DEF UnopenedInv
  <2>3. CASE Owner(e) = p /\ handler[e] # "none"
    BY <1>1, <2>3, ArrayTypes DEF Running
  <2>. QED
    BY <2>1, <2>2, <2>3
<1>. QED
  BY <1>1, <1>2, <1>3, <1>4, <1>5, LossyFrame

LEMMA LinkStep == OrderInv /\ [Next]_vars => LinkInv'
<1> SUFFICES ASSUME TypeOK, FreshInv, UnopenedInv, LinkInv, [Next]_vars PROVE LinkInv'
  BY DEF OrderInv
<1>1. CASE AppAction
  <2>1. UNCHANGED <<accepted, delivered, sock, hold, writeQ, waiting, handler, reset>>
    BY <1>1 DEF AppAction, AppListen, AppDial, AppCreateStream, AppCloseStream, AppSend, AppPoll,
                AppShutdown, AppJoin, tcpVars, linkVars
  <2>. QED
    BY <2>1, SameLinks
<1>2. ASSUME NEW p \in Peers, HandleCommand(p) PROVE LinkInv'
  <2>1. CASE p = Server /\ Bind
    BY <2>1, SameLinks DEF Bind, linkVars, historyVars
  <2>2. CASE p \in Clients /\ Connect(p)
    <3>1. /\ handler' = [handler EXCEPT ![<<p, "dial">>] = "running"]
          /\ UNCHANGED <<accepted, delivered, sock, hold, writeQ, waiting, reset>>
          /\ handler[<<p, "dial">>] = "none" /\ <<p, "dial">> \in Ends
      BY <2>2, ConnectFresh, ClientEnds DEF Connect, historyVars
    <3>. QED
      BY <3>1, ArrayTypes, OpenLinks
  <2>3. CASE p \in Clients /\ ConnectFails(p)
    BY <2>3, SameLinks DEF ConnectFails, tcpVars
  <2>4. CASE SendUnknown(p) \/ SendClosed(p)
    BY <2>4, SameLinks DEF SendUnknown, SendClosed, tcpVars
  <2>5. CASE BackendCreateStream(p) \/ BackendCloseStream(p)
    BY <2>5, SameLinks DEF BackendCreateStream, BackendCloseStream, tcpVars
  <2>6. CASE BackendShutdown(p) \/ (p = Server /\ BindFails)
    BY <2>6, StopLinks DEF BackendShutdown, BindFails
  <2>. QED
    BY <1>2, <2>1, <2>2, <2>3, <2>4, <2>5, <2>6, SendLinks DEF HandleCommand
<1>3. CASE RegisterPeer \/ Register
  BY <1>3, SameLinks DEF RegisterPeer, Register, linkVars, historyVars
<1>4. CASE Accept
  <2>1. /\ handler' = [handler EXCEPT ![Head(backlog)] = "running"]
        /\ UNCHANGED <<accepted, delivered, sock, hold, writeQ, waiting, reset>>
        /\ handler[Head(backlog)] = "none" /\ Head(backlog) \in Ends
    BY <1>4, AcceptFresh DEF Accept, historyVars, Ends
  <2>. QED
    BY <2>1, OpenLinks
<1>5. CASE AcceptFails
  <2>1. /\ UNCHANGED <<accepted, delivered, hold, writeQ, waiting, handler>>
        /\ reset \subseteq reset'
        /\ \A e \in Ends : sock'[e] = sock[e] \/ (sock'[e] = <<>> /\ e[1] \in reset')
    BY <1>5 DEF AcceptFails, DropBacklog, historyVars
  <2>. QED
    BY <2>1, LossyFrame
<1>6. ASSUME NEW e \in Ends, SendGivesUp(e) PROVE LinkInv'
  <2>1. /\ handler[e] = "done" /\ waiting' = [waiting EXCEPT ![e] = <<>>]
        /\ UNCHANGED <<accepted, delivered, sock, hold, writeQ, handler, reset>>
    BY <1>6 DEF SendGivesUp, Closed, historyVars
  <2>2. \A d \in Ends \ {e} : waiting'[d] = waiting[d]
    BY <2>1, ArrayTypes
  <2>. QED
    BY <2>1, <2>2, LossyFrame
<1>7. ASSUME NEW e \in Ends, HandlerEof(e) PROVE LinkInv'
  <2>1. /\ hold[e] = <<>> /\ handler' = [handler EXCEPT ![e] = "done"]
        /\ writeQ' = [writeQ EXCEPT ![e] = <<>>]
        /\ UNCHANGED <<accepted, delivered, sock, hold, waiting, reset>>
    BY <1>7 DEF HandlerEof, historyVars
  <2>2. /\ handler'[e] = "done"
        /\ \A d \in Ends \ {e} : handler'[d] = handler[d] /\ writeQ'[d] = writeQ[d]
    BY <2>1, ArrayTypes
  <2>. QED
    BY <2>1, <2>2, LossyFrame
<1>8. ASSUME NEW e \in Ends, HandlerWriteFails(e) PROVE LinkInv'
  <2>1. /\ e[1] \in reset \/ handler[Other(e)] = "done"
        /\ hold' = [hold EXCEPT ![e] = <<>>]
        /\ UNCHANGED <<accepted, delivered, sock, writeQ, waiting, handler, reset>>
    BY <1>8 DEF HandlerWriteFails, Closed, Broken, historyVars
  <2>2. hold'[e] = <<>> /\ \A d \in Ends \ {e} : hold'[d] = hold[d]
    BY <2>1, ArrayTypes
  <2>. QED
    BY <2>1, <2>2, LossyFrame
<1>9. ASSUME NEW e \in Ends, ResumeSend(e) \/ HandlerRead(e) \/ HandlerTake(e) \/ WriteOut(e)
      PROVE  LinkInv'
  BY <1>6, <1>8, <1>9, ResumeLinks, ReadLinks, TakeLinks, WriteLinks DEF ResumeSend, WriteOut
<1>10. ASSUME NEW p \in Peers, Die(p) PROVE LinkInv'
  BY <1>10, StopLinks DEF Die
<1>11. ASSUME NEW c \in Clients, Reset(c) PROVE LinkInv'
  <2>1. /\ UNCHANGED <<accepted, delivered, hold, writeQ, waiting, handler>>
        /\ reset' = reset \cup {c}
        /\ \A e \in Ends : sock'[e] = sock[e] \/ (sock'[e] = <<>> /\ e[1] = c)
    BY <1>11 DEF Reset, historyVars
  <2>. QED
    BY <2>1, LossyFrame
<1>12. CASE UNCHANGED vars
  BY <1>12, SameLinks DEF vars, tcpVars
<1>. QED
  BY <1>1, <1>2, <1>3, <1>4, <1>5, <1>7, <1>9, <1>10, <1>11, <1>12 DEF Next

-------------------------------------------------------------------------------
LEMMA OrderInit == Init => OrderInv
<1> SUFFICES ASSUME Init PROVE OrderInv
  OBVIOUS
<1>1. TypeOK
  BY InitType
<1>2. FreshInv
  <2>1. /\ \A p \in Peers : cmds[p] = <<>>
        /\ backlog = <<>> /\ \A e \in Ends : handler[e] = "none"
    BY DEF Init, PeerInit
  <2>2. \A c \in Clients : c \in Peers /\ <<c, "dial">> \in Ends /\ <<c, "accept">> \in Ends
    BY ClientEnds
  <2>3. DOMAIN (<<>>) = {}
    OBVIOUS
  <2>4. ConnectOnce
    BY <2>1, <2>2, <2>3 DEF ConnectOnce, Once, Wanted
  <2>5. BacklogFresh
    BY <2>1, <2>3 DEF BacklogFresh
  <2>6. DialFirst
    BY <2>1, <2>2, <2>3 DEF DialFirst
  <2>. QED
    BY <2>4, <2>5, <2>6 DEF FreshInv
<1>3. UnopenedInv
  BY DEF Init, UnopenedInv
<1>4. LinkInv
  <2> SUFFICES ASSUME NEW e \in Ends PROVE LinkOK(e)
    BY DEF LinkInv
  <2>1. /\ accepted[e] = <<>> /\ delivered[Other(e)] = <<>> /\ sock[e] = <<>> /\ hold[e] = <<>>
        /\ writeQ[e] = <<>> /\ waiting[e] = <<>>
    BY EndFacts DEF Init
  <2>2. <<>> \in Seq(Packet) /\ <<>> \o <<>> = <<>>
    BY EmptySeq, ConcatEmptySeq
  <2>. QED
    BY <2>1, <2>2 DEF LinkOK, Complete, Delivers
<1>. QED
  BY <1>1, <1>2, <1>3, <1>4 DEF OrderInv

LEMMA OrderStep == OrderInv /\ [Next]_vars => OrderInv'
BY NextType, FreshStep, UnopenedStep, LinkStep DEF OrderInv

THEOREM OrderTheorem == Spec => []OrderInv
BY OrderInit, OrderStep, PTL DEF Spec

(***************************************************************************)
(* For any number of clients and any capacities, a packet the backend has  *)
(* accepted is on its way, in its place, until it is delivered, while the  *)
(* connection lasts.                                                       *)
(***************************************************************************)
THEOREM NothingLostTheorem == Spec => []NothingLost
<1>1. OrderInv => NothingLost
  BY DEF OrderInv, LinkInv, LinkOK, Complete, NothingLost
<1>. QED
  BY <1>1, OrderTheorem, PTL

-------------------------------------------------------------------------------
(* The reliable links *)

LEMMA LinksInit == Init => Links!Init
<1> SUFFICES ASSUME Init PROVE Links!Init
  OBVIOUS
<1>1. \A e \in Ends : ~Closed(e)
  BY DEF Init, Closed
<1>2. {e \in Ends : Closed(e)} = {}
  BY <1>1
<1>. QED
  BY <1>2 DEF Init, Links!Init

\* A step that neither accepts nor delivers, and opens no end that is closed.
LEMMA LinksLeave ==
    ASSUME UNCHANGED <<accepted, delivered>>,
           \A e \in Ends : handler[e] = "done" => handler'[e] = "done"
    PROVE  Links!Next
<1> DEFINE now == {e \in Ends : Closed(e)}
           then == {e \in Ends : handler'[e] = "done"}
<1>1. then \in SUBSET Ends /\ now' = then /\ then = now \cup then
  BY DEF Closed
<1>2. Links!Leave
  BY <1>1 DEF Links!Leave
<1>. QED
  BY <1>1, <1>2 DEF Links!Next

LEMMA LinksAccept ==
    ASSUME TypeOK, NEW p \in Peers, SendQueued(p) \/ SendWaits(p)
    PROVE  Links!Next
<1>1. HandlesQuietly(p, "Send")
  BY DEF SendQueued, SendWaits
<1>2. PICK f \in Ends, m \in Packet : f = HeadConn(p) /\ m = HeadPacket(p)
  BY <1>1, SendParts
<1>3. /\ ~Closed(f) /\ accepted' = [accepted EXCEPT ![f] = Append(@, m)]
      /\ UNCHANGED <<handler, delivered>>
  BY <1>2 DEF SendQueued, SendWaits
<1>4. Links!Accept(f, m)
  BY <1>3 DEF Links!Accept, Closed
<1>. QED
  BY <1>4 DEF Links!Next

LEMMA LinksDeliver ==
    ASSUME OrderInv, NEW e \in Ends, HandlerRead(e)
    PROVE  Links!Next
<1> DEFINE f == Other(e)
<1>1. f \in Ends /\ Other(f) = e /\ [d \in Ends |-> Other(d)][e] = f
  BY EndFacts
<1>2. /\ handler[e] = "running" /\ sock[f] # <<>>
      /\ delivered' = [delivered EXCEPT ![e] = Append(@, Head(sock[f]))]
      /\ UNCHANGED <<accepted, handler>>
  BY DEF HandlerRead, Running
<1> HIDE DEF f
<1>3. /\ Delivers(f) /\ sock[f] \in Seq(Packet) /\ delivered[e] \in Seq(Packet)
      /\ delivered \in [Ends -> Seq(Packet)]
  BY <1>1, ArrayTypes DEF OrderInv, LinkInv, LinkOK
<1>4. PICK rest \in Seq(Packet) : accepted[f] = (delivered[e] \o sock[f]) \o rest
  BY <1>1, <1>3 DEF Delivers
<1>5. Len(delivered[e]) < Len(accepted[f]) /\ accepted[f][Len(delivered[e]) + 1] = Head(sock[f])
  BY <1>2, <1>3, <1>4, NextAfterPrefix
<1>6. delivered' = [delivered EXCEPT ![e] = Append(@, accepted[f][Len(@) + 1])]
  BY <1>2, <1>3, <1>5
<1>7. Links!Deliver(e)
  BY <1>1, <1>2, <1>5, <1>6 DEF Links!Deliver, Closed
<1>. QED
  BY <1>7 DEF Links!Next

\* An end that is not open becomes open.
LEMMA LinksOpen ==
    ASSUME TypeOK, NEW f \in Ends, handler[f] = "none",
           handler' = [handler EXCEPT ![f] = "running"], UNCHANGED <<accepted, delivered>>
    PROVE  Links!Next
<1>1. \A e \in Ends : handler[e] = "done" => handler'[e] = "done"
  BY ArrayTypes
<1>. QED
  BY <1>1, LinksLeave

LEMMA LinksStop ==
    ASSUME NEW p \in Peers, Stop(p)
    PROVE  Links!Next
<1>1. /\ handler' = [e \in Ends |-> IF Owner(e) = p /\ Running(e) THEN "done" ELSE handler[e]]
      /\ UNCHANGED <<accepted, delivered>>
  BY DEF Stop, historyVars
<1>. QED
  BY <1>1, LinksLeave

LEMMA LinksStep == OrderInv /\ [Next]_vars => [Links!Next]_(Links!linkVars)
<1> SUFFICES ASSUME OrderInv, TypeOK, FreshInv, [Next]_vars
             PROVE  [Links!Next]_(Links!linkVars)
  BY DEF OrderInv
<1>1. CASE UNCHANGED <<accepted, delivered, handler>>
  BY <1>1, LinksLeave
<1>2. CASE AppAction
  BY <1>1, <1>2 DEF AppAction, AppListen, AppDial, AppCreateStream, AppCloseStream, AppSend, AppPoll,
                AppShutdown, AppJoin, tcpVars, linkVars
<1>3. ASSUME NEW p \in Peers, HandleCommand(p) PROVE Links!Next
  <2>1. CASE p = Server /\ Bind
    BY <2>1, LinksLeave DEF Bind, linkVars, historyVars
  <2>2. CASE p \in Clients /\ Connect(p)
    <3>1. /\ handler' = [handler EXCEPT ![<<p, "dial">>] = "running"]
          /\ UNCHANGED <<accepted, delivered>>
          /\ handler[<<p, "dial">>] = "none" /\ <<p, "dial">> \in Ends
      BY <2>2, ConnectFresh, ClientEnds DEF Connect, historyVars
    <3>. QED
      BY <3>1, LinksOpen
  <2>3. CASE p \in Clients /\ ConnectFails(p)
    BY <2>3, LinksLeave DEF ConnectFails, tcpVars
  <2>4. CASE SendUnknown(p) \/ SendClosed(p)
    BY <2>4, LinksLeave DEF SendUnknown, SendClosed, tcpVars
  <2>5. CASE BackendCreateStream(p) \/ BackendCloseStream(p)
    BY <2>5, LinksLeave DEF BackendCreateStream, BackendCloseStream, tcpVars
  <2>6. CASE BackendShutdown(p) \/ (p = Server /\ BindFails)
    BY <2>6, LinksStop, TcpAssumption DEF BackendShutdown, BindFails
  <2>. QED
    BY <1>3, <2>1, <2>2, <2>3, <2>4, <2>5, <2>6, LinksAccept DEF HandleCommand
<1>4. CASE RegisterPeer \/ Register \/ AcceptFails
  BY <1>1, <1>4 DEF RegisterPeer, Register, AcceptFails, linkVars, historyVars
<1>5. CASE Accept
  <2>1. /\ handler' = [handler EXCEPT ![Head(backlog)] = "running"]
        /\ UNCHANGED <<accepted, delivered>>
        /\ handler[Head(backlog)] = "none" /\ Head(backlog) \in Ends
    BY <1>5, AcceptFresh DEF Accept, historyVars, Ends
  <2>. QED
    BY <2>1, LinksOpen
<1>6. ASSUME NEW e \in Ends, ResumeSend(e) \/ HandlerTake(e) \/ WriteOut(e)
      PROVE  [Links!Next]_(Links!linkVars)
  BY <1>1, <1>6 DEF ResumeSend, SendResumes, SendGivesUp, HandlerTake, WriteOut, HandlerWrite,
                    HandlerWriteFails, historyVars
<1>7. ASSUME NEW e \in Ends, HandlerEof(e) PROVE Links!Next
  <2>1. handler' = [handler EXCEPT ![e] = "done"] /\ UNCHANGED <<accepted, delivered>>
    BY <1>7 DEF HandlerEof, historyVars
  <2>2. \A d \in Ends : handler[d] = "done" => handler'[d] = "done"
    BY <2>1, ArrayTypes
  <2>. QED
    BY <2>1, <2>2, LinksLeave
<1>8. ASSUME NEW p \in Peers, Die(p) PROVE Links!Next
  BY <1>8, LinksStop DEF Die
<1>9. ASSUME NEW c \in Clients, Reset(c) PROVE [Links!Next]_(Links!linkVars)
  BY <1>1, <1>9 DEF Reset, historyVars
<1>10. CASE UNCHANGED vars
  BY <1>1, <1>10 DEF vars, tcpVars
<1>. QED
  BY <1>2, <1>3, <1>4, <1>5, <1>6, <1>7, <1>8, <1>9, <1>10, LinksDeliver DEF Next

(***************************************************************************)
(* For any number of clients and any capacities, the backends implement    *)
(* the reliable links: every step either accepts a packet on an end that   *)
(* is not closed, or delivers the oldest packet that is not delivered yet, *)
(* or closes ends, or shows nothing.                                       *)
(***************************************************************************)
THEOREM LinksTheorem == Spec => ImplementsLinks
<1>1. Init => Links!Init
  BY LinksInit
<1>2. OrderInv /\ [Next]_vars => [Links!Next]_(Links!linkVars)
  BY LinksStep
<1>. QED
  BY <1>1, <1>2, OrderTheorem, PTL DEF Spec, ImplementsLinks, Links!Spec

-------------------------------------------------------------------------------
(***************************************************************************)
(* Part three: the life of a connection, and what is heard of it.          *)
(***************************************************************************)

-------------------------------------------------------------------------------
(* The inductive invariant: HandlerReachable without counting.             *)

InQueue(e) == \E i \in DOMAIN regQ : regQ[i] = e

OnceInQueue(e) == \A i, j \in DOMAIN regQ : regQ[i] = e /\ regQ[j] = e => i = j

PlacedOnce(e) ==
    /\ e \in registered \/ registering = <<e>> \/ InQueue(e)
    /\ ~(e \in registered /\ registering = <<e>>)
    /\ ~(e \in registered /\ InQueue(e))
    /\ ~(registering = <<e>> /\ InQueue(e))
    /\ OnceInQueue(e)

PlacedInv == \A e \in Ends : Running(e) => PlacedOnce(e)

ReachInv == OrderInv /\ PlacedInv

-------------------------------------------------------------------------------
(* Its preservation *)

\* A step that starts no handler and moves no connection.
LEMMA PlacedFrame ==
    ASSUME PlacedInv,
           \A e \in Ends : handler'[e] = "running" => handler[e] = "running",
           UNCHANGED <<registered, registering, regQ>>
    PROVE  PlacedInv'
BY DEF PlacedInv, PlacedOnce, InQueue, OnceInQueue, Running

\* The dialing side registers in the same step in which it starts the handler.
LEMMA PlacedConnect ==
    ASSUME TypeOK, FreshInv, UnopenedInv, PlacedInv, NEW c \in Clients, Connect(c)
    PROVE  PlacedInv'
<1> DEFINE d == <<c, "dial">>
<1>1. /\ handler' = [handler EXCEPT ![d] = "running"]
      /\ registered' = registered \cup {d}
      /\ UNCHANGED <<registering, regQ>>
  BY DEF Connect
<1>2. handler[d] = "none" /\ d \in Ends /\ handler \in [Ends -> {"none", "running", "done"}]
  BY ConnectFresh, ClientEnds DEF TypeOK, LinkTypeOK
<1> HIDE DEF d
<1>3. PlacedOnce(d)'
  BY <1>1, <1>2 DEF UnopenedInv, PlacedOnce, InQueue, OnceInQueue
<1>4. ASSUME NEW e \in Ends \ {d}, Running(e)' PROVE PlacedOnce(e)'
  BY <1>1, <1>2, <1>4 DEF PlacedInv, PlacedOnce, InQueue, OnceInQueue, Running
<1>. QED
  BY <1>3, <1>4 DEF PlacedInv

\* The accept task takes the new connection in its hand, which was empty.
LEMMA PlacedAccept ==
    ASSUME TypeOK, FreshInv, UnopenedInv, PlacedInv, Accept
    PROVE  PlacedInv'
<1> PICK a \in Ends : a = Head(backlog)
  BY AcceptFresh DEF Ends
<1>1. /\ registering = <<>> /\ registering' = <<a>>
      /\ handler' = [handler EXCEPT ![a] = "running"]
      /\ UNCHANGED <<regQ, registered>>
  BY DEF Accept
<1>2. handler[a] = "none" /\ handler \in [Ends -> {"none", "running", "done"}]
  BY AcceptFresh DEF TypeOK, LinkTypeOK
<1>3. PlacedOnce(a)'
  <2>1. a \notin registered /\ \A i \in DOMAIN regQ : regQ[i] # a
    BY <1>2 DEF UnopenedInv
  <2>. QED
    BY <1>1, <2>1 DEF PlacedOnce, InQueue, OnceInQueue
<1>4. ASSUME NEW e \in Ends \ {a}, Running(e)' PROVE PlacedOnce(e)'
  <2>1. PlacedOnce(e)
    BY <1>1, <1>2, <1>4 DEF PlacedInv, Running
  <2>2. registering # <<e>> /\ registering' # <<e>>
    BY <1>1, <1>4
  <2>3. (InQueue(e)' <=> InQueue(e)) /\ (OnceInQueue(e)' <=> OnceInQueue(e))
    BY <1>1 DEF InQueue, OnceInQueue
  <2>. QED
    BY <1>1, <2>1, <2>2, <2>3 DEF PlacedOnce
<1>. QED
  BY <1>3, <1>4 DEF PlacedInv

\* From the hand to the end of the channel.
LEMMA PlacedRegister ==
    ASSUME TypeOK, PlacedInv, Register
    PROVE  PlacedInv'
<1>1. /\ registering # <<>> /\ regQ' = regQ \o registering /\ registering' = <<>>
      /\ UNCHANGED <<registered, handler>>
  BY DEF Register, linkVars
<1>2. regQ \in Seq(AcceptEnds) /\ registering \in AtMostOne(AcceptEnds)
  BY DEF TypeOK, AcceptTypeOK
<1>3. PICK x \in AcceptEnds : registering = <<x>>
  BY <1>1, <1>2 DEF AtMostOne
<1>4. regQ' = Append(regQ, x)
  BY <1>1, <1>2, <1>3, AppendIsConcat
<1>5. /\ DOMAIN regQ = 1 .. Len(regQ) /\ Len(regQ) \in Nat
      /\ DOMAIN regQ' = 1 .. Len(regQ) + 1
      /\ \A i \in DOMAIN regQ : regQ'[i] = regQ[i]
      /\ regQ'[Len(regQ) + 1] = x
  <2>1. /\ Append(regQ, x) \in Seq(AcceptEnds) /\ Len(Append(regQ, x)) = Len(regQ) + 1
        /\ \A k \in 1 .. Len(regQ) : Append(regQ, x)[k] = regQ[k]
        /\ Append(regQ, x)[Len(regQ) + 1] = x
    BY <1>2, AppendProperties
  <2>. QED
    BY <1>2, <1>4, <2>1, LenProperties
<1>6. ASSUME NEW e \in Ends, PlacedOnce(e) PROVE PlacedOnce(e)'
  <2>1. CASE e = x
    <3>1. e \notin registered /\ \A i \in DOMAIN regQ : regQ[i] # e
      BY <1>3, <1>6, <2>1 DEF PlacedOnce, InQueue
    <3>2. InQueue(e)' /\ OnceInQueue(e)'
      BY <1>5, <2>1, <3>1 DEF InQueue, OnceInQueue
    <3>. QED
      BY <1>1, <3>1, <3>2 DEF PlacedOnce
  <2>2. CASE e # x
    <3>1. InQueue(e)' <=> InQueue(e)
      BY <1>5, <2>2 DEF InQueue
    <3>2. OnceInQueue(e)'
      BY <1>5, <1>6, <2>2 DEF PlacedOnce, OnceInQueue
    <3>. QED
      BY <1>1, <1>3, <1>6, <2>2, <3>1, <3>2 DEF PlacedOnce
  <2>. QED
    BY <2>1, <2>2
<1>. QED
  BY <1>1, <1>6 DEF PlacedInv, Running

\* From the head of the channel into the map.
LEMMA PlacedRegisterPeer ==
    ASSUME TypeOK, PlacedInv, RegisterPeer
    PROVE  PlacedInv'
<1>1. /\ regQ # <<>> /\ regQ' = Tail(regQ) /\ registered' = registered \cup {Head(regQ)}
      /\ UNCHANGED <<registering, handler>>
  BY DEF RegisterPeer, linkVars
<1>2. regQ \in Seq(AcceptEnds)
  BY DEF TypeOK, AcceptTypeOK
<1>3. /\ DOMAIN regQ = 1 .. Len(regQ) /\ Len(regQ) \in Nat /\ 1 \in DOMAIN regQ
      /\ Head(regQ) = regQ[1] /\ DOMAIN regQ' = 1 .. Len(regQ) - 1
      /\ \A i \in DOMAIN regQ' : i + 1 \in DOMAIN regQ /\ regQ'[i] = regQ[i + 1]
  <2>1. /\ Tail(regQ) \in Seq(AcceptEnds) /\ Len(Tail(regQ)) = Len(regQ) - 1
    BY <1>1, <1>2, HeadTailProperties
  <2>. QED
    BY <1>1, <1>2, <2>1, Elements
<1>4. ASSUME NEW e \in Ends, PlacedOnce(e) PROVE PlacedOnce(e)'
  <2>1. OnceInQueue(e)'
    <3> SUFFICES ASSUME NEW i \in DOMAIN regQ', NEW j \in DOMAIN regQ',
                        regQ'[i] = e, regQ'[j] = e
                 PROVE  i = j
      BY DEF OnceInQueue
    <3>1. i + 1 = j + 1
      BY <1>3, <1>4 DEF PlacedOnce, OnceInQueue
    <3>. QED
      BY <1>3, <3>1
  <2>2. CASE e = Head(regQ)
    <3>1. InQueue(e)
      BY <1>3, <2>2 DEF InQueue
    <3>2. ASSUME NEW i \in DOMAIN regQ', regQ'[i] = e PROVE FALSE
      <4>1. i + 1 = 1
        BY <1>3, <1>4, <2>2, <3>2 DEF PlacedOnce, OnceInQueue
      <4>. QED
        BY <1>3, <4>1
    <3>3. ~InQueue(e)'
      BY <3>2 DEF InQueue
    <3>. QED
      BY <1>1, <1>4, <2>1, <2>2, <3>1, <3>3 DEF PlacedOnce
  <2>3. CASE e # Head(regQ)
    <3>1. ASSUME InQueue(e) PROVE InQueue(e)'
      <4>1. PICK i \in DOMAIN regQ : regQ[i] = e
        BY <3>1 DEF InQueue
      <4>2. i # 1
        BY <1>3, <2>3, <4>1
      <4>3. i - 1 \in DOMAIN regQ' /\ (i - 1) + 1 = i
        BY <1>3, <4>1, <4>2
      <4>. QED
        BY <1>3, <4>1, <4>3 DEF InQueue
    <3>2. InQueue(e)' => InQueue(e)
      BY <1>3 DEF InQueue
    <3>. QED
      BY <1>1, <1>4, <2>1, <2>3, <3>1, <3>2 DEF PlacedOnce
  <2>. QED
    BY <2>1, <2>2, <2>3
<1>. QED
  BY <1>1, <1>4 DEF PlacedInv, Running

\* With a backend its own connections and, on the server, the channel go.
LEMMA PlacedStop ==
    ASSUME TypeOK, PlacedInv, NEW p \in Peers, Stop(p)
    PROVE  PlacedInv'
<1>1. /\ handler' = [e \in Ends |-> IF Owner(e) = p /\ Running(e) THEN "done" ELSE handler[e]]
      /\ registered' = registered \ EndsOf(p)
      /\ p # Server => UNCHANGED <<registering, regQ>>
  BY DEF Stop, acceptVars
<1>2. regQ \in Seq(AcceptEnds) /\ registering \in AtMostOne(AcceptEnds)
  BY DEF TypeOK, AcceptTypeOK
<1>3. ASSUME NEW e \in Ends, Running(e)'
      PROVE  Owner(e) # p /\ Running(e) /\ (e \in registered' <=> e \in registered)
  BY <1>1, <1>3 DEF Running, EndsOf
<1>4. CASE p # Server
  BY <1>1, <1>3, <1>4 DEF PlacedInv, PlacedOnce, InQueue, OnceInQueue
<1>5. CASE p = Server
  <2>1. registering' = <<>> /\ regQ' = <<>>
    BY <1>5 DEF Stop
  <2>2. ASSUME NEW e \in Ends, Running(e)' PROVE PlacedOnce(e)'
    <3>1. e \notin AcceptEnds
      BY <1>3, <1>5, <2>2 DEF AcceptEnds, Owner
    <3>2. registering # <<e>>
      <4>1. registering = <<>> \/ \E x \in AcceptEnds : registering = <<x>>
        BY <1>2 DEF AtMostOne
      <4>2. \A x \in AcceptEnds : <<x>> # <<e>>
        BY <3>1
      <4>. QED
        BY <4>1, <4>2
    <3>3. ~InQueue(e)
      <4>1. \A i \in DOMAIN regQ : regQ[i] \in AcceptEnds
        BY <1>2, Elements, ElementOfSeq
      <4>. QED
        BY <3>1, <4>1 DEF InQueue
    <3>4. e \in registered'
      BY <1>3, <2>2, <3>2, <3>3 DEF PlacedInv, PlacedOnce
    <3>. QED
      BY <2>1, <3>4 DEF PlacedOnce, InQueue, OnceInQueue
  <2>. QED
    BY <2>2 DEF PlacedInv
<1>. QED
  BY <1>4, <1>5

LEMMA PlacedStep ==
    TypeOK /\ FreshInv /\ UnopenedInv /\ PlacedInv /\ [Next]_vars => PlacedInv'
<1> SUFFICES ASSUME TypeOK, FreshInv, UnopenedInv, PlacedInv, [Next]_vars PROVE PlacedInv'
  OBVIOUS
<1>1. CASE AppAction
  <2>1. UNCHANGED <<registered, registering, regQ, handler>>
    BY <1>1 DEF AppAction, AppListen, AppDial, AppCreateStream, AppCloseStream, AppSend, AppPoll,
                AppShutdown, AppJoin, tcpVars, acceptVars, linkVars
  <2>. QED
    BY <2>1, PlacedFrame
<1>2. ASSUME NEW p \in Peers, HandleCommand(p) PROVE PlacedInv'
  <2>1. CASE p = Server /\ Bind
    BY <2>1, PlacedFrame DEF Bind, linkVars
  <2>2. CASE p \in Clients /\ ConnectFails(p)
    BY <2>2, PlacedFrame DEF ConnectFails, tcpVars
  <2>3. CASE SendUnknown(p) \/ SendClosed(p)
    BY <2>3, PlacedFrame DEF SendUnknown, SendClosed, tcpVars
  <2>4. CASE SendQueued(p) \/ SendWaits(p)
    BY <2>4, PlacedFrame DEF SendQueued, SendWaits, acceptVars
  <2>5. CASE BackendCreateStream(p) \/ BackendCloseStream(p)
    BY <2>5, PlacedFrame DEF BackendCreateStream, BackendCloseStream, tcpVars
  <2>6. CASE BackendShutdown(p) \/ (p = Server /\ BindFails)
    BY <2>6, PlacedStop DEF BackendShutdown, BindFails
  <2>. QED
    BY <1>2, <2>1, <2>2, <2>3, <2>4, <2>5, <2>6, PlacedConnect DEF HandleCommand
<1>3. CASE RegisterPeer \/ Register \/ Accept
  BY <1>3, PlacedRegisterPeer, PlacedRegister, PlacedAccept
<1>4. CASE AcceptFails
  BY <1>4, PlacedFrame DEF AcceptFails
<1>5. ASSUME NEW e \in Ends,
             ResumeSend(e) \/ HandlerRead(e) \/ HandlerTake(e) \/ WriteOut(e)
      PROVE  PlacedInv'
  <2>1. UNCHANGED <<registered, registering, regQ, handler>>
    BY <1>5 DEF ResumeSend, SendResumes, SendGivesUp, HandlerRead, HandlerTake, WriteOut,
                HandlerWrite, HandlerWriteFails, acceptVars
  <2>. QED
    BY <2>1, PlacedFrame
<1>6. ASSUME NEW e \in Ends, HandlerEof(e) PROVE PlacedInv'
  <2>1. /\ UNCHANGED <<registered, registering, regQ>>
        /\ handler' = [handler EXCEPT ![e] = "done"]
    BY <1>6 DEF HandlerEof, acceptVars
  <2>2. \A d \in Ends : handler'[d] = "running" => handler[d] = "running"
    BY <2>1 DEF TypeOK, LinkTypeOK
  <2>. QED
    BY <2>1, <2>2, PlacedFrame
<1>7. ASSUME NEW p \in Peers, Die(p) PROVE PlacedInv'
  BY <1>7, PlacedStop DEF Die
<1>8. ASSUME NEW c \in Clients, Reset(c) PROVE PlacedInv'
  BY <1>8, PlacedFrame DEF Reset, acceptVars
<1>9. CASE UNCHANGED vars
  BY <1>9, PlacedFrame DEF vars, tcpVars
<1>. QED
  BY <1>1, <1>2, <1>3, <1>4, <1>5, <1>6, <1>7, <1>8, <1>9 DEF Next

LEMMA PlacedInit == Init => PlacedInv
BY DEF Init, PlacedInv, Running

\* A connection that is placed once is counted once.
LEMMA PlacedIsReachable == PlacedInv => HandlerReachable
<1> SUFFICES ASSUME PlacedInv, NEW e \in Ends, Running(e)
             PROVE  Cardinality({i \in DOMAIN regQ : regQ[i] = e})
                        + (IF registering = <<e>> THEN 1 ELSE 0)
                        + (IF e \in registered THEN 1 ELSE 0) = 1
  BY DEF HandlerReachable
<1> DEFINE at == {i \in DOMAIN regQ : regQ[i] = e}
<1>1. PlacedOnce(e)
  BY DEF PlacedInv
<1>2. CASE InQueue(e)
  <2>1. PICK k \in DOMAIN regQ : regQ[k] = e
    BY <1>2 DEF InQueue
  <2>2. at = {k}
    BY <1>1, <2>1 DEF PlacedOnce, OnceInQueue
  <2>3. Cardinality(at) = 1
    BY <2>2, FS_Singleton
  <2> HIDE DEF at
  <2>. QED
    BY <1>1, <1>2, <2>3 DEF PlacedOnce, at
<1>3. CASE ~InQueue(e)
  <2>1. at = {}
    BY <1>3 DEF InQueue
  <2>2. Cardinality(at) = 0
    BY <2>1, FS_EmptySet
  <2> HIDE DEF at
  <2>. QED
    BY <1>1, <1>3, <2>2 DEF PlacedOnce, at
<1>. QED
  BY <1>2, <1>3

(***************************************************************************)
(* For any number of clients and any capacity of the registration channel, *)
(* a connection whose handler runs is in the backend's map, in the channel *)
(* or in the accept task's hand, and in only one of them.                  *)
(***************************************************************************)
THEOREM ReachableTheorem == Spec => []HandlerReachable
<1>1. Init => PlacedInv
  BY PlacedInit
<1>2. OrderInv /\ PlacedInv /\ [Next]_vars => PlacedInv'
  BY PlacedStep DEF OrderInv
<1>3. PlacedInv => HandlerReachable
  BY PlacedIsReachable
<1>. QED
  BY <1>1, <1>2, <1>3, OrderTheorem, PTL DEF Spec

-------------------------------------------------------------------------------
(* What the applications hear.  The accept task, the loop and the handlers  *)
(* write to one queue of events, but an end is announced by the step that   *)
(* opens it, and its handler's last event is its Disconnected: so the state *)
(* of the handler tells what has been heard.                                *)

Heard(e) == \E y \in Told(Owner(e)) : Concerns(y, e)

OfConnection == {"Send", "CreateStream", "CloseStream"}

\* What an application asks for is of a connection it has heard of.
CallOK(cmd) == cmd.type \in OfConnection => handler[cmd.conn] # "none"

\* What has been heard of an end is what its handler says.
EndOK(e) ==
    /\ Heard(e) <=> handler[e] # "none"
    /\ Disconnected(e) \in Told(Owner(e)) => Closed(e)
    /\ \A s \in known[e] : StreamCreated(e, s) \in Told(Owner(e))

NewsInv ==
    /\ \A p \in Peers : Ordered(events[p]) /\ \A cmd \in Queued(p) : CallOK(cmd)
    /\ \A e \in Ends : EndOK(e)

LEMMA CommandConn ==
    ASSUME TypeOK, NEW p \in Peers, NEW cmd \in Queued(p), cmd.type \in OfConnection
    PROVE  cmd.conn \in EndsOf(p) /\ cmd.conn \in Ends /\ Owner(cmd.conn) = p
<1>1. cmd \in TcpCommand[p]
  <2>1. Queued(p) \subseteq TcpCommand[p]
    BY ElemsType DEF TypeOK, PeerTypeOK, CommandsTypeOK, Queued
  <2>. QED
    BY <2>1
<1>. QED
  BY <1>1, SendCommandParts, CreateStreamCommandParts, CloseStreamCommandParts, EndsOfFacts
     DEF OfConnection

\* A step that tells nothing of a connection, opens none and opens none again.
LEMMA NewsFrame ==
    ASSUME TypeOK, TypeOK', NewsInv,
           \A p \in Peers : /\ Ordered(events'[p]) /\ Told(p) \subseteq Told(p)'
                            /\ \A y \in Told(p)' \ Told(p) : "conn" \notin DOMAIN y,
           \A e \in Ends : /\ handler'[e] = "none" <=> handler[e] = "none"
                           /\ Closed(e) => Closed(e)',
           \A p \in Peers : \A cmd \in Queued(p)' : cmd \in Queued(p) \/ CallOK(cmd),
           UNCHANGED known
    PROVE  NewsInv'
<1>1. ASSUME NEW p \in Peers, NEW cmd \in Queued(p)' PROVE CallOK(cmd)'
  <2>1. CallOK(cmd)
    BY <1>1 DEF NewsInv
  <2>2. cmd.type \in OfConnection => cmd.conn \in Ends
    <3>1. Queued(p)' \subseteq TcpCommand[p]
      BY ElemsType DEF TypeOK, PeerTypeOK, CommandsTypeOK, Queued
    <3>2. cmd \in TcpCommand[p]
      BY <1>1, <3>1
    <3>. QED
      BY <3>2, SendCommandParts, CreateStreamCommandParts, CloseStreamCommandParts, EndsOfFacts
         DEF OfConnection
  <2>. QED
    BY <2>1, <2>2 DEF CallOK
<1>2. ASSUME NEW e \in Ends PROVE EndOK(e)'
  <2>1. EndOK(e) /\ Owner(e) \in Peers
    BY EndFacts DEF NewsInv
  <2>2. Heard(e)' <=> Heard(e)
    BY <2>1 DEF Heard, Concerns
  <2>3. "conn" \in DOMAIN Disconnected(e)
    BY DEF Disconnected
  <2>. QED
    BY <2>1, <2>2, <2>3 DEF EndOK
<1>3. \A p \in Peers : Ordered(events[p])'
  BY DEF Ordered, Earlier
<1>. QED
  BY <1>1, <1>2, <1>3 DEF NewsInv

LEMMA QuietNews ==
    ASSUME TypeOK, TypeOK', NewsInv, UNCHANGED <<events, known>>,
           \A e \in Ends : /\ handler'[e] = "none" <=> handler[e] = "none"
                           /\ Closed(e) => Closed(e)',
           \A p \in Peers : \A cmd \in Queued(p)' : cmd \in Queued(p) \/ CallOK(cmd)
    PROVE  NewsInv'
<1>1. \A p \in Peers : /\ Ordered(events'[p]) /\ Told(p) \subseteq Told(p)'
                       /\ \A y \in Told(p)' \ Told(p) : "conn" \notin DOMAIN y
  BY DEF NewsInv, Told
<1>. QED
  BY <1>1, NewsFrame

\* A step that does nothing of this.
LEMMA SameNews ==
    ASSUME TypeOK, TypeOK', NewsInv, UNCHANGED <<cmds, events, known, handler>>
    PROVE  NewsInv'
<1>1. \A p \in Peers : Queued(p)' = Queued(p)
  BY DEF Queued
<1>. QED
  BY <1>1, QuietNews DEF Closed

LEMMA CallNews ==
    ASSUME TypeOK, TypeOK', NewsInv, NEW p \in Peers, NEW x, SendCommand(p, x), CallOK(x),
           UNCHANGED <<events, known, handler>>
    PROVE  NewsInv'
<1>1. /\ cmds' = [cmds EXCEPT ![p] = Append(@, x)] /\ cmds[p] \in Seq(TcpCommand[p])
      /\ cmds'[p] \in Seq(TcpCommand[p]) /\ DOMAIN cmds = Peers
  BY DEF TypeOK, PeerTypeOK, CommandsTypeOK, SendCommand
<1>2. cmds'[p] = Append(cmds[p], x) /\ \A q \in Peers \ {p} : cmds'[q] = cmds[q]
  BY <1>1
<1>3. x \in TcpCommand[p]
  BY <1>1, <1>2, AppendedElement
<1>4. Queued(p)' = Queued(p) \cup {x}
  BY <1>1, <1>2, <1>3, ElemsAppend DEF Queued
<1>5. \A q \in Peers : \A cmd \in Queued(q)' : cmd \in Queued(q) \/ CallOK(cmd)
  BY <1>2, <1>4 DEF Queued
<1>. QED
  BY <1>5, QuietNews DEF Closed

\* The step tells the application of e something of e, which is open then.
LEMMA TellNews ==
    ASSUME TypeOK, TypeOK', NewsInv, NEW e \in Ends, NEW N,
           Ordered(events'[Owner(e)]), Told(Owner(e))' = Told(Owner(e)) \cup N, N # {},
           \A y \in N : "conn" \in DOMAIN y /\ y.conn = e,
           \A q \in Peers \ {Owner(e)} : events'[q] = events[q],
           handler'[e] # "none", Closed(e) => Closed(e)', Disconnected(e) \in N => Closed(e)',
           \A d \in Ends \ {e} : handler'[d] = handler[d] /\ known'[d] = known[d],
           \A s \in known'[e] : StreamCreated(e, s) \in Told(Owner(e))',
           \A q \in Peers : Queued(q)' \subseteq Queued(q)
    PROVE  NewsInv'
<1>1. ASSUME NEW q \in Peers, NEW cmd \in Queued(q)' PROVE CallOK(cmd)'
  <2>1. cmd \in Queued(q) /\ CallOK(cmd)
    BY <1>1 DEF NewsInv
  <2>2. cmd.type \in OfConnection => cmd.conn \in Ends
    BY <2>1, CommandConn
  <2>. QED
    BY <2>1, <2>2 DEF CallOK
<1>2. EndOK(e)'
  <2>1. Heard(e)'
    BY DEF Heard, Concerns
  <2>2. Disconnected(e) \in Told(Owner(e))' => Closed(e)'
    BY DEF NewsInv, EndOK
  <2>. QED
    BY <2>1, <2>2 DEF EndOK
<1>3. ASSUME NEW d \in Ends \ {e} PROVE EndOK(d)'
  <2>1. EndOK(d) /\ Owner(d) \in Peers
    BY EndFacts DEF NewsInv
  <2>2. Heard(d)' <=> Heard(d)
    <3>1. CASE Owner(d) = Owner(e)
      BY <1>3, <3>1 DEF Heard, Concerns
    <3>2. CASE Owner(d) # Owner(e)
      BY <2>1, <3>2 DEF Heard, Told
    <3>. QED
      BY <3>1, <3>2
  <2>3. Disconnected(d) \in Told(Owner(d))' => Disconnected(d) \in Told(Owner(d))
    <3>1. CASE Owner(d) = Owner(e)
      BY <1>3, <3>1 DEF Disconnected
    <3>2. CASE Owner(d) # Owner(e)
      BY <2>1, <3>2 DEF Told
    <3>. QED
      BY <3>1, <3>2
  <2>4. Told(Owner(d)) \subseteq Told(Owner(d))'
    BY <2>1 DEF Told
  <2>. QED
    BY <1>3, <2>1, <2>2, <2>3, <2>4 DEF EndOK, Closed
<1>4. ASSUME NEW q \in Peers PROVE Ordered(events[q])'
  <2>1. Ordered(events'[q])
    BY DEF NewsInv
  <2>. QED
    BY <2>1 DEF Ordered, Earlier
<1>. QED
  BY <1>1, <1>2, <1>3, <1>4 DEF NewsInv

\* One event.
LEMMA TellOne ==
    ASSUME TypeOK, TypeOK', NewsInv, NEW e \in Ends, NEW y \in TcpEvent[Owner(e)],
           Emit(Owner(e), <<y>>), "conn" \in DOMAIN y, y.conn = e, Fits(y, Told(Owner(e))),
           handler'[e] # "none", Closed(e) => Closed(e)', y = Disconnected(e) => Closed(e)',
           \A d \in Ends \ {e} : handler'[d] = handler[d],
           UNCHANGED known,
           \A q \in Peers : Queued(q)' \subseteq Queued(q)
    PROVE  NewsInv'
<1>1. PICK p \in Peers : p = Owner(e)
  BY EndFacts
<1>2. /\ events' = [events EXCEPT ![p] = @ \o <<y>>] /\ events[p] \in Seq(TcpEvent[p])
      /\ DOMAIN events = Peers
  BY <1>1 DEF Emit, TypeOK, PeerTypeOK, EventsTypeOK
<1>3. events'[p] = Append(events[p], y) /\ \A q \in Peers \ {p} : events'[q] = events[q]
  BY <1>1, <1>2, AppendIsConcat
<1>4. Ordered(Append(events[p], y)) /\ Elems(Append(events[p], y)) = Elems(events[p]) \cup {y}
  BY <1>1, <1>2, OrderedAppend DEF NewsInv, Told
<1>5. PICK N : N = {y}
  OBVIOUS
<1>6. /\ Ordered(events'[p]) /\ Told(p)' = Told(p) \cup N /\ N # {}
      /\ \A z \in N : "conn" \in DOMAIN z /\ z.conn = e
      /\ Disconnected(e) \in N => Closed(e)'
  BY <1>3, <1>4, <1>5 DEF Told
<1>7. \A s \in known'[e] : StreamCreated(e, s) \in Told(p)'
  BY <1>1, <1>6 DEF NewsInv, EndOK
<1>. QED
  BY <1>1, <1>3, <1>6, <1>7, TellNews

LEMMA EventConn ==
    ASSUME NEW p \in Peers, NEW y \in TcpEvent[p], y.type = "StreamCreated"
    PROVE  "conn" \in DOMAIN y
BY DEF TcpEvent, Event, Connected, Disconnected, ConnectError, Message, StreamCreated, StreamClosed

\* What an application knows of, it was told of.
LEMMA KnownIsHeard ==
    ASSUME TypeOK, NewsInv, NEW e \in Ends,
           KnowsConnection(Owner(e), e) \/ KnownStreams(Owner(e), e) # {}
    PROVE  handler[e] # "none"
<1>1. PICK p \in Peers : p = Owner(e)
  BY EndFacts
<1>2. Seen(p) \subseteq Told(p) /\ Told(p) \subseteq TcpEvent[p]
  BY SeenTold DEF TypeOK, PeerTypeOK
<1>3. CASE KnowsConnection(p, e)
  <2>1. Connected(e) \in Told(p) /\ Concerns(Connected(e), e)
    BY <1>2, <1>3 DEF KnowsConnection, Concerns, Connected
  <2>. QED
    BY <1>1, <2>1 DEF NewsInv, EndOK, Heard
<1>4. CASE KnownStreams(p, e) # {}
  <2>1. PICK y \in Seen(p) : y.type = "StreamCreated" /\ y.conn = e
    BY <1>4 DEF KnownStreams
  <2>2. y \in Told(p) /\ Concerns(y, e)
    BY <1>2, <2>1, EventConn DEF Concerns
  <2>. QED
    BY <1>1, <2>2 DEF NewsInv, EndOK, Heard
<1>. QED
  BY <1>1, <1>3, <1>4

\* The application's calls.
LEMMA AppNews == TypeOK /\ TypeOK' /\ NewsInv /\ AppAction => NewsInv'
<1> SUFFICES ASSUME TypeOK, TypeOK', NewsInv, AppAction PROVE NewsInv'
  OBVIOUS
<1>1. CASE AppListen
  <2>1. /\ SendCommand(Server, BindCmd) /\ Server \in Peers
        /\ UNCHANGED <<events, known, handler>>
    BY <1>1, TcpAssumption DEF AppListen, Listen, tcpVars
  <2>2. CallOK(BindCmd)
    BY DEF CallOK, OfConnection, BindCmd
  <2>. QED
    BY <2>1, <2>2, CallNews
<1>2. ASSUME NEW c \in Clients, AppDial(c) PROVE NewsInv'
  <2>1. /\ SendCommand(c, ConnectCmd) /\ c \in Peers
        /\ UNCHANGED <<events, known, handler>>
    BY <1>2, ClientEnds DEF AppDial, Dial, tcpVars
  <2>2. CallOK(ConnectCmd)
    BY DEF CallOK, OfConnection, ConnectCmd
  <2>. QED
    BY <2>1, <2>2, CallNews
<1>3. ASSUME NEW e \in Ends, NEW r \in Kinds, AppCreateStream(e, r) PROVE NewsInv'
  <2>1. PICK x \in TcpCommand[Owner(e)] :
            x.conn = e /\ (SendCommand(Owner(e), x) \/ UNCHANGED cmds)
    BY <1>3, CreateParts
  <2>2. /\ Owner(e) \in Peers /\ KnowsConnection(Owner(e), e)
        /\ UNCHANGED <<events, known, handler>>
    BY <1>3, CreateParts DEF tcpVars
  <2>3. CallOK(x)
    BY <2>1, <2>2, KnownIsHeard DEF CallOK
  <2>4. CASE SendCommand(Owner(e), x)
    BY <2>2, <2>3, <2>4, CallNews
  <2>5. CASE UNCHANGED cmds
    BY <2>2, <2>5, SameNews
  <2>. QED
    BY <2>1, <2>4, <2>5
<1>4. ASSUME NEW e \in Ends, NEW s \in KnownStreams(Owner(e), e),
             AppCloseStream(e, s) \/ AppSend(e, s)
      PROVE  NewsInv'
  <2>1. PICK x : /\ x = CloseStreamCmd(e, s) \/ x = SendCmd(e, [stream |-> s, n |-> sent[e] + 1])
                 /\ SendCommand(Owner(e), x)
    BY <1>4 DEF AppCloseStream, AppSend, CloseStream, Send
  <2>2. Owner(e) \in Peers /\ UNCHANGED <<events, known, handler>>
    BY <1>4, EndFacts DEF AppCloseStream, AppSend, CloseStream, Send, tcpVars, linkVars
  <2>3. CallOK(x)
    <3>1. handler[e] # "none"
      BY KnownIsHeard
    <3>2. x.conn = e
      BY <2>1 DEF CloseStreamCmd, SendCmd
    <3>. QED
      BY <3>1, <3>2 DEF CallOK
  <2>. QED
    BY <2>1, <2>2, <2>3, CallNews
<1>5. ASSUME NEW p \in Peers, AppShutdown(p) PROVE NewsInv'
  <2>1. SendCommand(p, ShutdownCmd) /\ UNCHANGED <<events, known, handler>>
    BY <1>5 DEF AppShutdown, Shutdown, tcpVars
  <2>2. CallOK(ShutdownCmd)
    BY DEF CallOK, OfConnection, ShutdownCmd
  <2>. QED
    BY <2>1, <2>2, CallNews
<1>6. ASSUME NEW p \in Peers, AppPoll(p) \/ AppJoin(p) PROVE NewsInv'
  BY <1>6, SameNews DEF AppPoll, AppJoin, Poll, Join, tcpVars
<1>. QED
  BY <1>1, <1>2, <1>3, <1>4, <1>5, <1>6 DEF AppAction

\* A command that is taken leaves no other behind.
LEMMA TakenNews ==
    ASSUME TypeOK, NEW p \in Peers, NEW type, HandlesQuietly(p, type)
    PROVE  /\ \A q \in Peers : Queued(q)' \subseteq Queued(q)
           /\ Head(cmds[p]) \in Queued(p) /\ Head(cmds[p]).type = type
<1>1. cmds[p] # <<>> /\ TakeCommand(p) /\ Head(cmds[p]).type = type
  BY DEF HandlesQuietly, Handles, Receives
<1>2. CommandsTypeOK(TcpCommand)
  BY DEF TypeOK, PeerTypeOK
<1>3. Queued(p)' \subseteq Queued(p) /\ \A q \in Peers \ {p} : cmds'[q] = cmds[q]
  BY <1>1, <1>2, TakeCommandQueued
<1>4. \A q \in Peers \ {p} : Queued(q)' = Queued(q)
  BY <1>3 DEF Queued
<1>. QED
  BY <1>1, <1>2, <1>3, <1>4, HeadQueued

LEMMA HeadOpen ==
    ASSUME TypeOK, NewsInv, NEW p \in Peers, NEW type \in OfConnection, HandlesQuietly(p, type)
    PROVE  /\ Head(cmds[p]).conn \in Ends /\ Owner(Head(cmds[p]).conn) = p
           /\ handler[Head(cmds[p]).conn] # "none"
<1>1. Head(cmds[p]) \in Queued(p) /\ Head(cmds[p]).type = type
  BY TakenNews
<1>2. CallOK(Head(cmds[p]))
  BY <1>1 DEF NewsInv
<1>. QED
  BY <1>1, <1>2, CommandConn DEF CallOK

\* A connection is announced when it is opened.
LEMMA OpenFits ==
    ASSUME NewsInv, NEW e \in Ends, handler[e] = "none"
    PROVE  Fits(Connected(e), Told(Owner(e)))
<1>1. \A z \in Told(Owner(e)) : ~Concerns(z, e)
  BY DEF NewsInv, EndOK, Heard
<1>. QED
  BY <1>1 DEF Fits, Connected

LEMMA LaterFits ==
    ASSUME NewsInv, NEW e \in Ends, handler[e] # "none", NEW y, y.conn = e, y.type # "Connected"
    PROVE  "conn" \in DOMAIN y =>
               (y = Connected(y.conn) <=> \A z \in Told(Owner(e)) : ~Concerns(z, y.conn))
<1>1. \E z \in Told(Owner(e)) : Concerns(z, e)
  BY DEF NewsInv, EndOK, Heard
<1>2. y # Connected(e)
  BY DEF Connected
<1>. QED
  BY <1>1, <1>2

LEMMA ConnectNews ==
    ASSUME TypeOK, TypeOK', FreshInv, NewsInv, NEW c \in Clients, Connect(c)
    PROVE  NewsInv'
<1>1. PICK e \in Ends : e = <<c, "dial">> /\ Owner(e) = c
  BY ClientEnds
<1>2. /\ HandlesQuietly(c, "Connect") /\ Emit(c, <<Connected(e)>>)
      /\ handler' = [handler EXCEPT ![e] = "running"] /\ UNCHANGED known
  BY <1>1 DEF Connect
<1>3. handler[e] = "none" /\ c \in Peers /\ e \in EndsOf(c)
  BY <1>1, ConnectFresh, EndFacts
<1>4. handler'[e] = "running" /\ \A d \in Ends \ {e} : handler'[d] = handler[d]
  BY <1>2 DEF TypeOK, LinkTypeOK
<1>5. Fits(Connected(e), Told(Owner(e)))
  BY <1>3, OpenFits
<1>6. PICK y \in TcpEvent[c] : y = Connected(e)
  BY <1>3, EventTypes
<1>7. "conn" \in DOMAIN y /\ y.conn = e /\ y # Disconnected(e)
  BY <1>6 DEF Connected, Disconnected
<1>8. \A q \in Peers : Queued(q)' \subseteq Queued(q)
  BY <1>2, <1>3, TakenNews
<1>. QED
  BY <1>1, <1>2, <1>3, <1>4, <1>5, <1>6, <1>7, <1>8, TellOne DEF Closed

LEMMA AcceptNews ==
    ASSUME TypeOK, TypeOK', FreshInv, NewsInv, Accept
    PROVE  NewsInv'
<1>1. PICK e \in Ends : e = Head(backlog) /\ Owner(e) = Server /\ handler[e] = "none"
  BY AcceptFresh DEF Ends, AcceptEnds, Owner
<1>2. /\ Emit(Server, <<Connected(e)>>)
      /\ handler' = [handler EXCEPT ![e] = "running"] /\ UNCHANGED <<cmds, known>>
  BY <1>1 DEF Accept
<1>3. Server \in Peers /\ e \in EndsOf(Server)
  BY <1>1, EndFacts
<1>4. handler'[e] = "running" /\ \A d \in Ends \ {e} : handler'[d] = handler[d]
  BY <1>2 DEF TypeOK, LinkTypeOK
<1>5. Fits(Connected(e), Told(Owner(e)))
  BY <1>1, OpenFits
<1>6. PICK y \in TcpEvent[Server] : y = Connected(e)
  BY <1>3, EventTypes
<1>7. "conn" \in DOMAIN y /\ y.conn = e /\ y # Disconnected(e)
  BY <1>6 DEF Connected, Disconnected
<1>8. \A q \in Peers : Queued(q)' \subseteq Queued(q)
  BY <1>2 DEF Queued
<1>. QED
  BY <1>1, <1>2, <1>3, <1>4, <1>5, <1>6, <1>7, <1>8, TellOne DEF Closed

\* The failure of an attempt to connect is of no connection.
LEMMA FailNews ==
    ASSUME TypeOK, TypeOK', NewsInv, NEW c \in Clients, ConnectFails(c)
    PROVE  NewsInv'
<1>1. /\ HandlesQuietly(c, "Connect") /\ Emit(c, <<ConnectError>>) /\ c \in Peers
      /\ UNCHANGED <<handler, known>>
  BY ClientEnds DEF ConnectFails, tcpVars
<1>2. PICK y \in TcpEvent[c] : y = ConnectError
  BY <1>1, EventTypes
<1>3. "conn" \notin DOMAIN y /\ y.type \notin {"Disconnected", "Message"}
  BY <1>2 DEF ConnectError
<1>4. Fits(y, Told(c))
  BY <1>3 DEF Fits
<1>5. /\ events' = [events EXCEPT ![c] = @ \o <<y>>] /\ events[c] \in Seq(TcpEvent[c])
      /\ DOMAIN events = Peers
  BY <1>1, <1>2 DEF Emit, TypeOK, PeerTypeOK, EventsTypeOK
<1>6. events'[c] = Append(events[c], y) /\ \A q \in Peers \ {c} : events'[q] = events[q]
  BY <1>1, <1>5, AppendIsConcat
<1>7. Ordered(Append(events[c], y)) /\ Elems(Append(events[c], y)) = Elems(events[c]) \cup {y}
  BY <1>1, <1>4, <1>5, OrderedAppend DEF NewsInv, Told
<1>8. ASSUME NEW q \in Peers
      PROVE  /\ Ordered(events'[q]) /\ Told(q) \subseteq Told(q)'
             /\ \A z \in Told(q)' \ Told(q) : "conn" \notin DOMAIN z
  <2>1. CASE q = c
    BY <1>3, <1>6, <1>7, <2>1 DEF Told
  <2>2. CASE q # c
    BY <1>6, <2>2 DEF Told, NewsInv
  <2>. QED
    BY <2>1, <2>2
<1>9. \A q \in Peers : \A cmd \in Queued(q)' : cmd \in Queued(q) \/ CallOK(cmd)
  BY <1>1, TakenNews
<1>. QED
  BY <1>1, <1>8, <1>9, NewsFrame DEF Closed

\* create_stream and close_stream are answered.
LEMMA AnswerNews ==
    ASSUME TypeOK, TypeOK', NewsInv, NEW p \in Peers,
           BackendCreateStream(p) \/ BackendCloseStream(p)
    PROVE  NewsInv'
<1>1. PICK type \in {"CreateStream", "CloseStream"} :
          /\ HandlesQuietly(p, type) /\ UNCHANGED <<handler, known>>
          /\ type = "CreateStream" => BackendCreateStream(p)
          /\ type = "CloseStream" => BackendCloseStream(p)
  BY DEF BackendCreateStream, BackendCloseStream, tcpVars
<1>2. PICK cmd \in TcpCommand[p] : cmd = Head(cmds[p]) /\ cmd.type = type
  BY <1>1, QuietType
<1>3. PICK e \in Ends : e = cmd.conn /\ Owner(e) = p /\ handler[e] # "none"
  BY <1>1, <1>2, HeadOpen DEF OfConnection
<1>4. PICK y \in TcpEvent[p] : /\ Emit(p, <<y>>) /\ "conn" \in DOMAIN y /\ y.conn = e
                               /\ y.type \in {"StreamCreated", "StreamClosed"}
  <2>1. CASE type = "CreateStream"
    <3>1. PICK y : /\ y = StreamCreated(e, NewStream(cmd.index, cmd.reliability))
                   /\ Emit(p, <<y>>)
      BY <1>1, <1>2, <1>3, <2>1 DEF BackendCreateStream
    <3>2. y \in TcpEvent[p]
      BY <1>2, <1>3, <2>1, <3>1, CreateStreamCommandParts, HandleType, EventTypes DEF EndsOf
    <3>. QED
      BY <3>1, <3>2 DEF StreamCreated
  <2>2. CASE type = "CloseStream"
    <3>1. PICK y : y = StreamClosed(e, cmd.stream) /\ Emit(p, <<y>>)
      BY <1>1, <1>2, <1>3, <2>2 DEF BackendCloseStream, HeadConn
    <3>2. y \in TcpEvent[p]
      BY <1>2, <1>3, <2>2, <3>1, CloseStreamCommandParts, EventTypes DEF EndsOf
    <3>. QED
      BY <3>1, <3>2 DEF StreamClosed
  <2>. QED
    BY <2>1, <2>2
<1>5. Fits(y, Told(p))
  BY <1>3, <1>4, LaterFits DEF Fits
<1>6. y # Disconnected(e)
  BY <1>4 DEF Disconnected
<1>7. \A q \in Peers : Queued(q)' \subseteq Queued(q)
  BY <1>1, TakenNews
<1>8. /\ handler'[e] # "none" /\ (Closed(e) => Closed(e)')
      /\ \A d \in Ends \ {e} : handler'[d] = handler[d]
  BY <1>1, <1>3 DEF Closed
<1>. QED
  BY <1>1, <1>3, <1>4, <1>5, <1>6, <1>7, <1>8, TellOne

LEMMA EofNews ==
    ASSUME TypeOK, TypeOK', NewsInv, NEW e \in Ends, HandlerEof(e)
    PROVE  NewsInv'
<1>1. PICK p \in Peers : p = Owner(e) /\ e \in EndsOf(p)
  BY EndFacts
<1>2. /\ Emit(p, <<Disconnected(e)>>) /\ handler[e] = "running"
      /\ handler' = [handler EXCEPT ![e] = "done"] /\ UNCHANGED <<cmds, known>>
  BY <1>1 DEF HandlerEof, Running
<1>3. handler'[e] = "done" /\ \A d \in Ends \ {e} : handler'[d] = handler[d]
  BY <1>2 DEF TypeOK, LinkTypeOK
<1>4. PICK y \in TcpEvent[p] : y = Disconnected(e)
  BY <1>1, EventTypes
<1>5. "conn" \in DOMAIN y /\ y.conn = e /\ y.type = "Disconnected"
  BY <1>4 DEF Disconnected
<1>6. y \notin Told(p)
  BY <1>1, <1>2, <1>4 DEF NewsInv, EndOK, Closed
<1>7. Fits(y, Told(p))
  BY <1>1, <1>2, <1>4, <1>5, <1>6, LaterFits DEF Fits
<1>8. \A q \in Peers : Queued(q)' \subseteq Queued(q)
  BY <1>2 DEF Queued
<1>. QED
  BY <1>1, <1>2, <1>3, <1>4, <1>5, <1>7, <1>8, TellOne DEF Closed

\* Three sequences may be put together from either end.
Parts(E, s, f, g) == s \in Seq(E) /\ f \in Seq(E) /\ g \in Seq(E)

LEMMA ThreeParts ==
    ASSUME NEW E, NEW s, NEW f, NEW g, Parts(E, s, f, g)
    PROVE  (s \o f) \o g = s \o (f \o g)
BY ConcatAssociative DEF Parts

\* The events of a frame: the stream, when it is new, and the message.
News(e, m) == (IF m.stream \in known[e] THEN <<>> ELSE <<StreamCreated(e, m.stream)>>)
                  \o <<Message(e, m)>>

\* After what p was told, t tells of e, and of its stream then or before.
TellsOf(t, p, e, stream) ==
    /\ \E N : /\ Elems(t) = Told(p) \cup N /\ N # {} /\ Disconnected(e) \notin N
              /\ \A y \in N : "conn" \in DOMAIN y /\ y.conn = e
    /\ StreamCreated(e, stream) \in Elems(t)

LEMMA FrameNews ==
    ASSUME NewsInv, NEW p \in Peers, NEW e \in EndsOf(p), e \in Ends, NEW m \in Packet,
           Running(e), events[p] \in Seq(TcpEvent[p]), m.stream \in StreamId,
           NEW t, t = events[p] \o News(e, m)
    PROVE  Ordered(t) /\ TellsOf(t, p, e, m.stream)
<1>1. PICK n, y : n = StreamCreated(e, m.stream) /\ y = Message(e, m)
  OBVIOUS
<1>2. PICK E : E = TcpEvent[p]
  OBVIOUS
<1>3. PICK s \in Seq(E) : s = events[p]
  BY <1>2
<1>4. n \in E /\ y \in E
  BY <1>1, <1>2, EventTypes
<1>5. /\ "conn" \in DOMAIN n /\ n.conn = e /\ n.type = "StreamCreated"
      /\ "conn" \in DOMAIN y /\ y.conn = e /\ y.type = "Message" /\ y.packet = m
  BY <1>1 DEF StreamCreated, Message
<1>6. /\ Ordered(s) /\ Told(p) = Elems(s) /\ Owner(e) = p /\ handler[e] # "none"
      /\ Disconnected(e) \notin Elems(s)
      /\ m.stream \in known[e] => n \in Elems(s)
      /\ \E z \in Elems(s) : Concerns(z, e)
  <2>1. Owner(e) = p /\ handler[e] # "none" /\ ~Closed(e)
    BY DEF EndsOf, Running, Closed
  <2>2. EndOK(e) /\ Ordered(events[p])
    BY DEF NewsInv
  <2>3. Told(p) = Elems(s)
    BY <1>3 DEF Told
  <2>. QED
    BY <1>1, <1>3, <2>1, <2>2, <2>3 DEF EndOK, Heard
<1>7. PICK u \in Seq(E) :
          /\ u = IF m.stream \in known[e] THEN s ELSE Append(s, n)
          /\ Ordered(u) /\ Elems(u) = Elems(s) \cup (IF m.stream \in known[e] THEN {} ELSE {n})
          /\ n \in Elems(u)
  <2>1. CASE m.stream \in known[e]
    BY <1>6, <2>1
  <2>2. CASE m.stream \notin known[e]
    <3>1. n # Connected(e)
      BY <1>5 DEF Connected
    <3>2. Fits(n, Elems(s))
      BY <1>5, <1>6, <3>1 DEF Fits
    <3>3. /\ Append(s, n) \in Seq(E) /\ Ordered(Append(s, n))
          /\ Elems(Append(s, n)) = Elems(s) \cup {n}
      BY <1>4, <1>6, <3>2, OrderedAppend
    <3>. QED
      BY <2>2, <3>3
  <2>. QED
    BY <2>1, <2>2
<1>8. Ordered(Append(u, y)) /\ Elems(Append(u, y)) = Elems(u) \cup {y}
  <2>1. y # Connected(e)
    BY <1>5 DEF Connected
  <2>2. \E z \in Elems(u) : Concerns(z, e)
    BY <1>6, <1>7
  <2>3. Disconnected(e) \notin Elems(u)
    <3>1. n # Disconnected(e)
      BY <1>5 DEF Disconnected
    <3>. QED
      BY <1>6, <1>7, <3>1
  <2>4. Fits(y, Elems(u))
    BY <1>1, <1>5, <1>7, <2>1, <2>2, <2>3 DEF Fits
  <2>5. u \in Seq(E) /\ y \in E /\ Ordered(u)
    BY <1>4, <1>7
  <2>. QED
    BY <2>4, <2>5, OrderedAppend
<1>9. t = Append(u, y)
  <2>1. PICK a, w : a = (IF m.stream \in known[e] THEN <<>> ELSE <<n>>) /\ w = <<y>>
    OBVIOUS
  <2>2. Parts(E, s, a, w)
    BY <1>4, <2>1, OneType, EmptySeq DEF Parts
  <2>3. u = s \o a
    BY <1>4, <1>7, <2>1, AppendIsConcat, ConcatEmptySeq
  <2>4. Append(u, y) = u \o w
    BY <1>4, <2>1, AppendIsConcat
  <2>5. t = s \o (a \o w)
    BY <1>1, <1>3, <2>1 DEF News
  <2>6. (s \o a) \o w = s \o (a \o w)
    BY <2>2, ThreeParts
  <2>. QED
    BY <2>3, <2>4, <2>5, <2>6
<1>10. PICK N : N = (IF m.stream \in known[e] THEN {} ELSE {n}) \cup {y}
  OBVIOUS
<1>11. n # Disconnected(e) /\ y # Disconnected(e)
  BY <1>5 DEF Disconnected
<1>12. /\ Elems(t) = Told(p) \cup N /\ N # {} /\ Disconnected(e) \notin N
       /\ \A z \in N : "conn" \in DOMAIN z /\ z.conn = e
  BY <1>5, <1>6, <1>7, <1>8, <1>9, <1>10, <1>11
<1>. QED
  BY <1>1, <1>7, <1>8, <1>9, <1>12 DEF TellsOf

LEMMA ReadNews ==
    ASSUME TypeOK, TypeOK', NewsInv, NEW e \in Ends, HandlerRead(e)
    PROVE  NewsInv'
<1>1. PICK p \in Peers : p = Owner(e) /\ e \in EndsOf(p)
  BY EndFacts
<1>2. PICK m \in Packet : m = Head(sock[Other(e)]) /\ m.stream \in StreamId
  <2>1. sock[Other(e)] \in Seq(Packet) /\ sock[Other(e)] # <<>>
    BY EndFacts DEF HandlerRead, TypeOK, LinkTypeOK
  <2>2. Head(sock[Other(e)]) \in Packet
    BY <2>1, HeadTailProperties
  <2>3. \A x \in Packet : x.stream \in StreamId
    BY DEF Packet
  <2>. QED
    BY <2>2, <2>3
<1>3. /\ Running(e) /\ known' = [known EXCEPT ![e] = @ \cup {m.stream}]
      /\ Emit(p, News(e, m)) /\ UNCHANGED <<cmds, handler>>
  BY <1>1, <1>2 DEF HandlerRead, News
<1>4. DOMAIN events = Peers /\ events[p] \in Seq(TcpEvent[p]) /\ known \in [Ends -> SUBSET StreamId]
  BY DEF TypeOK, PeerTypeOK, EventsTypeOK, LinkTypeOK
<1>5. /\ events'[p] = events[p] \o News(e, m)
      /\ \A q \in Peers \ {p} : events'[q] = events[q]
  BY <1>3, <1>4 DEF Emit
<1>6. PICK t : t = events'[p]
  OBVIOUS
<1>7. Ordered(t) /\ TellsOf(t, p, e, m.stream)
  <2>1. Running(e) /\ events[p] \in Seq(TcpEvent[p]) /\ t = events[p] \o News(e, m)
    BY <1>3, <1>4, <1>5, <1>6
  <2>. QED
    BY <1>1, <1>2, <2>1, FrameNews
<1>8. PICK N : /\ Told(p)' = Told(p) \cup N /\ N # {} /\ Disconnected(e) \notin N
               /\ \A y \in N : "conn" \in DOMAIN y /\ y.conn = e
  BY <1>6, <1>7 DEF Told, TellsOf
<1>9. Ordered(events'[p]) /\ StreamCreated(e, m.stream) \in Told(p)'
  BY <1>6, <1>7 DEF Told, TellsOf
<1>10. /\ known'[e] = known[e] \cup {m.stream}
       /\ \A d \in Ends \ {e} : handler'[d] = handler[d] /\ known'[d] = known[d]
  BY <1>3, <1>4
<1>11. \A s \in known'[e] : StreamCreated(e, s) \in Told(p)'
  <2>1. \A s \in known[e] : StreamCreated(e, s) \in Told(p)
    BY <1>1 DEF NewsInv, EndOK
  <2>. QED
    BY <1>8, <1>9, <1>10, <2>1
<1>12. /\ handler'[e] # "none" /\ (Closed(e) => Closed(e)')
       /\ \A q \in Peers : Queued(q)' \subseteq Queued(q)
  BY <1>3 DEF Running, Closed, Queued
<1>. QED
  BY <1>1, <1>5, <1>8, <1>9, <1>10, <1>11, <1>12, TellNews

\* A backend that ends takes its commands and its handlers with it.
LEMMA StopNews ==
    ASSUME TypeOK, TypeOK', NewsInv, NEW p \in Peers, Stop(p)
    PROVE  NewsInv'
<1>1. /\ cmds' = [cmds EXCEPT ![p] = <<>>] /\ UNCHANGED <<events, known>>
      /\ handler' = [e \in Ends |-> IF Owner(e) = p /\ Running(e) THEN "done" ELSE handler[e]]
      /\ DOMAIN cmds = Peers
  BY DEF Stop, ThreadExits, TypeOK, PeerTypeOK, CommandsTypeOK
<1>2. \A q \in Peers : \A cmd \in Queued(q)' : cmd \in Queued(q)
  BY <1>1 DEF Queued, Elems
<1>3. \A e \in Ends : /\ handler'[e] = "none" <=> handler[e] = "none"
                      /\ Closed(e) => Closed(e)'
  BY <1>1 DEF Running, Closed
<1>. QED
  BY <1>1, <1>2, <1>3, QuietNews

\* A command that is only taken.
LEMMA TakeNews ==
    ASSUME TypeOK, TypeOK', NewsInv, NEW p \in Peers, NEW type, HandlesQuietly(p, type),
           UNCHANGED <<events, known, handler>>
    PROVE  NewsInv'
<1>1. \A q \in Peers : \A cmd \in Queued(q)' : cmd \in Queued(q)
  BY TakenNews
<1>. QED
  BY <1>1, QuietNews DEF Closed

LEMMA NewsStep == TypeOK /\ TypeOK' /\ FreshInv /\ NewsInv /\ [Next]_vars => NewsInv'
<1> SUFFICES ASSUME TypeOK, TypeOK', FreshInv, NewsInv, [Next]_vars PROVE NewsInv'
  OBVIOUS
<1>1. CASE AppAction
  BY <1>1, AppNews
<1>2. ASSUME NEW p \in Peers, HandleCommand(p) PROVE NewsInv'
  <2>1. CASE p = Server /\ Bind
    BY <2>1, TakeNews DEF Bind, linkVars
  <2>2. CASE SendUnknown(p) \/ SendClosed(p)
    BY <2>2, TakeNews DEF SendUnknown, SendClosed, tcpVars
  <2>3. CASE SendQueued(p) \/ SendWaits(p)
    BY <2>3, TakeNews DEF SendQueued, SendWaits
  <2>4. CASE BackendShutdown(p) \/ (p = Server /\ BindFails)
    BY <2>4, StopNews DEF BackendShutdown, BindFails
  <2>. QED
    BY <1>2, <2>1, <2>2, <2>3, <2>4, ConnectNews, FailNews, AnswerNews DEF HandleCommand
<1>3. CASE RegisterPeer \/ Register \/ AcceptFails
  BY <1>3, SameNews DEF RegisterPeer, Register, AcceptFails, peerVars, linkVars
<1>4. ASSUME NEW e \in Ends, ResumeSend(e) \/ HandlerTake(e) \/ WriteOut(e) PROVE NewsInv'
  BY <1>4, SameNews DEF ResumeSend, SendResumes, SendGivesUp, HandlerTake, WriteOut, HandlerWrite,
                        HandlerWriteFails, peerVars
<1>5. ASSUME NEW p \in Peers, Die(p) PROVE NewsInv'
  BY <1>5, StopNews DEF Die
<1>6. ASSUME NEW c \in Clients, Reset(c) PROVE NewsInv'
  BY <1>6, SameNews DEF Reset, peerVars
<1>7. CASE UNCHANGED vars
  BY <1>7, SameNews DEF vars, peerVars, tcpVars
<1>. QED
  BY <1>1, <1>2, <1>3, <1>4, <1>5, <1>6, <1>7, AcceptNews, ReadNews, EofNews DEF Next

LEMMA NewsInit == Init => NewsInv
<1> SUFFICES ASSUME Init PROVE NewsInv
  OBVIOUS
<1>1. ASSUME NEW p \in Peers PROVE Queued(p) = {} /\ Told(p) = {} /\ Ordered(events[p])
  <2>1. cmds[p] = <<>> /\ events[p] = <<>>
    BY DEF Init, PeerInit
  <2>. QED
    BY <2>1 DEF Queued, Told, Elems, Ordered
<1>2. ASSUME NEW e \in Ends PROVE EndOK(e)
  <2>1. Told(Owner(e)) = {} /\ handler[e] = "none" /\ known[e] = {}
    BY <1>1, EndFacts DEF Init
  <2>. QED
    BY <2>1 DEF EndOK, Heard
<1>. QED
  BY <1>1, <1>2 DEF NewsInv

-------------------------------------------------------------------------------
(* The end of a connection.  Its handler announces no stream any more, and  *)
(* the loop those whose index create_stream has taken.                      *)

\* A command that is taken, and what it tells.
LEMMA TakenOwn ==
    ASSUME TypeOK, OwnInv, NEW p \in Peers, NEW type, HandlesQuietly(p, type),
           UNCHANGED events \/ \E y \in TcpEvent[p] : /\ Emit(p, <<y>>)
                                                      /\ y.type = "StreamCreated" => Created(p, y.stream)
    PROVE  OwnInv'
<1>1. /\ EventsTypeOK(TcpEvent) /\ ThreadsTypeOK /\ UNCHANGED next_stream_id
      /\ \A q \in Peers : Queued(q)' \subseteq Queued(q)
  BY TakenNews DEF TypeOK, PeerTypeOK, HandlesQuietly
<1>2. CASE UNCHANGED events
  BY <1>1, <1>2, OwnQuiet
<1>3. ASSUME NEW y \in TcpEvent[p], Emit(p, <<y>>), y.type = "StreamCreated" => Created(p, y.stream)
      PROVE  OwnInv'
  BY <1>1, <1>3, OwnOne
<1>. QED
  BY <1>2, <1>3

LEMMA AppOwn ==
    ASSUME MaxStreams < IdSpace, TypeOK, TypeOK', OwnInv, AppAction
    PROVE  OwnInv'
<1>1. /\ CommandsTypeOK(TcpCommand) /\ CommandsTypeOK(TcpCommand)' /\ EventsTypeOK(TcpEvent)
      /\ ThreadsTypeOK
  BY DEF TypeOK, PeerTypeOK
<1>2. CASE AppListen
  BY <1>1, <1>2, OwnCall, TcpAssumption DEF AppListen, Listen, BindCmd
<1>3. ASSUME NEW c \in Clients, AppDial(c) PROVE OwnInv'
  BY <1>1, <1>3, OwnCall DEF AppDial, Dial, ConnectCmd, Clients
<1>4. ASSUME NEW e \in Ends, NEW r \in Kinds, AppCreateStream(e, r) PROVE OwnInv'
  <2>1. PICK p \in Peers : p = Owner(e) /\ e \in EndsOf(p) /\ r \in Reliability
    BY EndFacts, TcpAssumption
  <2>2. CreateStream(p, e, r)
    BY <1>4, <2>1 DEF AppCreateStream
  <2>3. CreateStreamCmd(e, next_stream_id'[p], r) \in TcpCommand[p]
    BY <1>1, <2>1, <2>2, CreateStreamParts, CommandTypes
  <2>. QED
    BY <1>1, <2>2, <2>3, OwnCreate
<1>5. ASSUME NEW e \in Ends, NEW s, AppCloseStream(e, s) PROVE OwnInv'
  BY <1>1, <1>5, OwnCall, EndFacts DEF AppCloseStream, CloseStream, CloseStreamCmd
<1>6. ASSUME NEW e \in Ends, NEW s, AppSend(e, s) PROVE OwnInv'
  BY <1>1, <1>6, OwnCall, EndFacts DEF AppSend, Send, SendCmd
<1>7. ASSUME NEW p \in Peers, AppShutdown(p) PROVE OwnInv'
  BY <1>1, <1>7, OwnCall DEF AppShutdown, Shutdown, ShutdownCmd
<1>8. ASSUME NEW p \in Peers, AppPoll(p) \/ AppJoin(p) PROVE OwnInv'
  <2>1. UNCHANGED <<cmds, events, next_stream_id>>
    BY <1>8 DEF AppPoll, AppJoin, Poll, Join
  <2>. QED
    BY <1>1, <2>1, OwnQuiet DEF Queued
<1>. QED
  BY <1>2, <1>3, <1>4, <1>5, <1>6, <1>7, <1>8 DEF AppAction

\* The answer to create_stream.
LEMMA CreateOwn ==
    ASSUME TypeOK, OwnInv, NEW p \in Peers, BackendCreateStream(p)
    PROVE  OwnInv'
<1>1. HandlesQuietly(p, "CreateStream")
  BY DEF BackendCreateStream
<1>2. PICK cmd \in TcpCommand[p] : cmd = Head(cmds[p]) /\ cmd.type = "CreateStream"
  BY <1>1, QuietType
<1>3. /\ cmd.conn \in EndsOf(p) /\ cmd.index \in StreamId /\ cmd.reliability \in Reliability
      /\ cmd.index \in 1 .. next_stream_id[p]
  <2>1. cmd \in Queued(p)
    BY <1>1, <1>2, TakenNews
  <2>. QED
    BY <1>2, <2>1, CreateStreamCommandParts DEF OwnInv, CallCounted
<1>4. PICK y \in TcpEvent[p] : /\ y = StreamCreated(cmd.conn, NewStream(cmd.index, cmd.reliability))
                               /\ Emit(p, <<y>>)
  BY <1>2, <1>3, HandleType, EventTypes DEF BackendCreateStream
<1>5. Created(p, y.stream)
  BY <1>3, <1>4 DEF Created, StreamCreated
<1>. QED
  BY <1>1, <1>4, <1>5, TakenOwn

LEMMA CommandOwn ==
    ASSUME TypeOK, OwnInv, NEW p \in Peers, HandleCommand(p), ~BackendShutdown(p), ~BindFails
    PROVE  OwnInv'
<1>1. CASE Bind
  BY <1>1, TakenOwn, TcpAssumption DEF Bind
<1>2. ASSUME p \in Clients, Connect(p) PROVE OwnInv'
  <2>1. PICK e \in EndsOf(p) : e = <<p, "dial">>
    BY <1>2, ClientEnds, EndFacts
  <2>2. PICK y \in TcpEvent[p] : y = Connected(e)
    BY <2>1, EventTypes
  <2>3. HandlesQuietly(p, "Connect") /\ Emit(p, <<y>>) /\ y.type # "StreamCreated"
    BY <1>2, <2>1, <2>2 DEF Connect, Connected
  <2>. QED
    BY <2>3, TakenOwn
<1>3. CASE ConnectFails(p)
  <2>1. PICK y \in TcpEvent[p] : y = ConnectError
    BY EventTypes
  <2>2. HandlesQuietly(p, "Connect") /\ Emit(p, <<y>>) /\ y.type # "StreamCreated"
    BY <1>3, <2>1 DEF ConnectFails, ConnectError
  <2>. QED
    BY <2>2, TakenOwn
<1>4. CASE SendUnknown(p) \/ SendClosed(p) \/ SendQueued(p) \/ SendWaits(p)
  BY <1>4, TakenOwn DEF SendUnknown, SendClosed, SendQueued, SendWaits
<1>5. CASE BackendCloseStream(p)
  <2>1. HandlesQuietly(p, "CloseStream")
    BY <1>5 DEF BackendCloseStream
  <2>2. HeadConn(p) \in EndsOf(p) /\ Head(cmds[p]).stream \in StreamId
    BY <2>1, QuietType, CloseStreamCommandParts DEF HeadConn
  <2>3. PICK y \in TcpEvent[p] : y = StreamClosed(HeadConn(p), Head(cmds[p]).stream)
    BY <2>2, EventTypes
  <2>4. Emit(p, <<y>>) /\ y.type # "StreamCreated"
    BY <1>5, <2>3 DEF BackendCloseStream, StreamClosed
  <2>. QED
    BY <2>1, <2>4, TakenOwn
<1>. QED
  BY <1>1, <1>2, <1>3, <1>4, <1>5, CreateOwn DEF HandleCommand

\* A handler that reads has not told the end of its connection.
LEMMA ReadOwn ==
    ASSUME TypeOK, TypeOK', NewsInv, NewsInv', OwnInv, NEW e \in Ends, HandlerRead(e)
    PROVE  OwnInv'
<1>1. PICK p \in Peers : p = Owner(e) /\ e \in EndsOf(p)
  BY EndFacts
<1>2. PICK m \in Packet : m = Head(sock[Other(e)]) /\ m.stream \in StreamId
  <2>1. sock[Other(e)] \in Seq(Packet) /\ sock[Other(e)] # <<>>
    BY EndFacts DEF HandlerRead, TypeOK, LinkTypeOK
  <2>2. Head(sock[Other(e)]) \in Packet
    BY <2>1, HeadTailProperties
  <2>. QED
    BY <2>2 DEF Packet
<1>3. /\ Running(e) /\ Emit(p, News(e, m)) /\ UNCHANGED <<cmds, next_stream_id, handler>>
  BY <1>1, <1>2 DEF HandlerRead, News
<1>4. Disconnected(e) \notin Told(p)'
  BY <1>1, <1>3 DEF NewsInv, EndOK, Running, Closed
<1>5. PICK n, y : /\ n = StreamCreated(e, m.stream) /\ y = Message(e, m)
                  /\ n \in TcpEvent[p] /\ y \in TcpEvent[p]
  BY <1>1, <1>2, EventTypes
<1>6. PICK a, w : /\ a = (IF m.stream \in known[e] THEN <<>> ELSE <<n>>) /\ w = <<y>>
                  /\ a \in Seq(TcpEvent[p]) /\ w \in Seq(TcpEvent[p])
  BY <1>5, OneType, EmptySeq
<1>7. News(e, m) = a \o w /\ a \o w \in Seq(TcpEvent[p]) /\ Elems(a) \subseteq {n} /\ Elems(w) = {y}
  <2>1. News(e, m) = a \o w
    BY <1>5, <1>6 DEF News
  <2>2. a \o w \in Seq(TcpEvent[p])
    BY <1>6, ConcatProperties
  <2>3. Elems(w) = {y}
    BY <1>6 DEF Elems
  <2>4. Elems(a) \subseteq {n}
    <3>1. CASE m.stream \in known[e]
      BY <1>6, <3>1 DEF Elems
    <3>2. CASE m.stream \notin known[e]
      BY <1>6, <3>2 DEF Elems
    <3>. QED
      BY <3>1, <3>2
  <2>. QED
    BY <2>1, <2>2, <2>3, <2>4
<1>8. Elems(a \o w) \subseteq {n, y}
  BY <1>6, <1>7, ElemsConcat
<1>9. n.conn = e /\ y.type # "StreamCreated"
  BY <1>5 DEF StreamCreated, Message
<1>10. EventsTypeOK(TcpEvent) /\ ThreadsTypeOK /\ \A q \in Peers : Queued(q)' \subseteq Queued(q)
  BY <1>3 DEF TypeOK, PeerTypeOK, Queued
<1>11. \A z \in Elems(a \o w) :
           z.type = "StreamCreated" => Created(p, z.stream) \/ Disconnected(z.conn) \notin Told(p)'
  BY <1>4, <1>8, <1>9
<1>12. Emit(p, a \o w) /\ a \o w \in Seq(TcpEvent[p]) /\ UNCHANGED next_stream_id
  BY <1>3, <1>7
<1>. QED
  BY <1>10, <1>11, <1>12, OwnTold

LEMMA OwnNext ==
    ASSUME MaxStreams < IdSpace
    PROVE  TypeOK /\ TypeOK' /\ NewsInv /\ NewsInv' /\ OwnInv /\ [Next]_vars => OwnInv'
<1> SUFFICES ASSUME TypeOK, TypeOK', NewsInv, NewsInv', OwnInv, [Next]_vars PROVE OwnInv'
  OBVIOUS
<1>1. EventsTypeOK(TcpEvent) /\ ThreadsTypeOK
  BY DEF TypeOK, PeerTypeOK
<1>2. CASE AppAction
  BY <1>2, AppOwn
<1>3. ASSUME NEW p \in Peers, Stop(p) PROVE OwnInv'
  <2>1. /\ cmds' = [cmds EXCEPT ![p] = <<>>] /\ UNCHANGED <<events, next_stream_id>>
        /\ DOMAIN cmds = Peers
    BY <1>3 DEF Stop, ThreadExits, TypeOK, PeerTypeOK, CommandsTypeOK
  <2>2. \A q \in Peers : \A cmd \in Queued(q)' : cmd \in Queued(q)
    BY <2>1 DEF Queued, Elems
  <2>. QED
    BY <1>1, <2>1, <2>2, OwnQuiet
<1>4. ASSUME NEW p \in Peers, HandleCommand(p) PROVE OwnInv'
  BY <1>3, <1>4, CommandOwn, TcpAssumption DEF BackendShutdown, BindFails
<1>5. CASE UNCHANGED <<cmds, events, next_stream_id>>
  BY <1>1, <1>5, OwnQuiet DEF Queued
<1>6. CASE RegisterPeer \/ Register \/ AcceptFails \/ UNCHANGED vars
  BY <1>5, <1>6 DEF RegisterPeer, Register, AcceptFails, vars, peerVars
<1>7. ASSUME NEW e \in Ends, ResumeSend(e) \/ HandlerTake(e) \/ WriteOut(e) PROVE OwnInv'
  BY <1>5, <1>7 DEF ResumeSend, SendResumes, SendGivesUp, HandlerTake, WriteOut, HandlerWrite,
                    HandlerWriteFails, peerVars
<1>8. ASSUME NEW c \in Clients, Reset(c) PROVE OwnInv'
  BY <1>5, <1>8 DEF Reset, peerVars
<1>9. ASSUME NEW p \in Peers, NEW y \in TcpEvent[p], Emit(p, <<y>>), y.type # "StreamCreated",
             UNCHANGED <<cmds, next_stream_id>>
      PROVE  OwnInv'
  <2>1. \A q \in Peers : Queued(q)' \subseteq Queued(q)
    BY <1>9 DEF Queued
  <2>. QED
    BY <1>1, <1>9, <2>1, OwnOne
<1>10. CASE Accept
  <2>1. backlog \in Seq(AcceptEnds) /\ backlog # <<>>
    BY <1>10 DEF Accept, TypeOK, AcceptTypeOK
  <2>2. PICK e \in EndsOf(Server) : e = Head(backlog)
    BY <2>1, HeadTailProperties DEF EndsOf, Ends, AcceptEnds, Owner
  <2>3. PICK y \in TcpEvent[Server] : y = Connected(e)
    BY <2>2, EventTypes, TcpAssumption
  <2>4. Emit(Server, <<y>>) /\ y.type # "StreamCreated" /\ UNCHANGED <<cmds, next_stream_id>>
    BY <1>10, <2>2, <2>3 DEF Accept, Connected
  <2>. QED
    BY <1>9, <2>4, TcpAssumption
<1>11. ASSUME NEW e \in Ends, HandlerEof(e) PROVE OwnInv'
  <2>1. PICK p \in Peers : p = Owner(e) /\ e \in EndsOf(p)
    BY EndFacts
  <2>2. PICK y \in TcpEvent[p] : y = Disconnected(e)
    BY <2>1, EventTypes
  <2>3. Emit(p, <<y>>) /\ y.type # "StreamCreated" /\ UNCHANGED <<cmds, next_stream_id>>
    BY <1>11, <2>1, <2>2 DEF HandlerEof, Disconnected
  <2>. QED
    BY <1>9, <2>3
<1>12. ASSUME NEW p \in Peers, Die(p) PROVE OwnInv'
  BY <1>3, <1>12 DEF Die
<1>. QED
  BY <1>2, <1>4, <1>6, <1>7, <1>8, <1>10, <1>11, <1>12, ReadOwn DEF Next

(***************************************************************************)
(* For any number of clients and any capacities, while the counters of     *)
(* streams do not come round: an application hears of a connection once    *)
(* and before anything else of it, after its one Disconnected it hears no  *)
(* more than a StreamClosed or the StreamCreated of a stream it created,   *)
(* and knows the stream of every message, although three kinds of task     *)
(* write to its event queue.                                               *)
(***************************************************************************)
THEOREM EventsTheorem ==
    ASSUME MaxStreams < IdSpace
    PROVE  Spec => []EventsInOrder
<1>1. TypeOK /\ NewsInv /\ OwnInv => EventsInOrder
  <2>1. \A p \in Peers : \E C, M : TcpEvent[p] = Event(C, M)
    BY DEF TcpEvent
  <2>2. TypeOK /\ NewsInv => EventsTypeOK(TcpEvent) /\ \A p \in Peers : Ordered(events[p])
    BY DEF TypeOK, PeerTypeOK, NewsInv
  <2>. QED
    BY <2>1, <2>2, EventsByInvariants DEF EventsInOrder
<1>2. TypeOK /\ TypeOK' /\ FreshInv /\ NewsInv /\ [Next]_vars => NewsInv'
  BY NewsStep
<1>3. TypeOK /\ TypeOK' /\ NewsInv /\ NewsInv' /\ OwnInv /\ [Next]_vars => OwnInv'
  BY OwnNext
<1>4. Init => OwnInv
  BY OwnInit DEF Init
<1>5. Spec => [](TypeOK /\ FreshInv)
  BY OrderTheorem, PTL DEF OrderInv
<1>. QED
  BY <1>1, <1>2, <1>3, <1>4, <1>5, NewsInit, PTL DEF Spec

-------------------------------------------------------------------------------
(* What becomes of a Send.  A dialing end is registered in the step that    *)
(* opens it, and its application asks nothing of it before: so the map has  *)
(* the end when a Send of it is handled.                                    *)

SendsOn(e) == {x \in TcpCommand[Owner(e)] : x.type = "Send" /\ x.conn = e}

Unsent(e) == Count(cmds[Owner(e)], SendsOn(e))

SendsInv == \A e \in DialEnds : Intact(e) => sent[e] = Len(accepted[e]) + Unsent(e)

LEMMA UnsentType ==
    ASSUME TypeOK, NEW e \in Ends
    PROVE  /\ Unsent(e) \in Nat /\ Unsent(e) = Cardinality(SendsQueued(e))
           /\ cmds[Owner(e)] \in Seq(TcpCommand[Owner(e)])
<1>1. PICK p \in Peers : p = Owner(e)
  BY EndFacts
<1>2. cmds[p] \in Seq(TcpCommand[p])
  BY DEF TypeOK, PeerTypeOK, CommandsTypeOK
<1>3. \A i \in DOMAIN cmds[p] : cmds[p][i] \in TcpCommand[p]
  BY <1>2, LenProperties, ElementOfSeq
<1>4. SendsQueued(e) = At(cmds[p], SendsOn(e))
  BY <1>1, <1>3 DEF SendsQueued, At, SendsOn
<1>. QED
  BY <1>1, <1>2, <1>4, CountType DEF Unsent, Count

\* A command more, and a command less.
LEMMA UnsentCall ==
    ASSUME TypeOK, TypeOK', NEW p \in Peers, NEW x, SendCommand(p, x), NEW e \in Ends
    PROVE  Unsent(e)' = Unsent(e) + (IF p = Owner(e) /\ x.type = "Send" /\ x.conn = e THEN 1 ELSE 0)
<1>1. /\ cmds' = [cmds EXCEPT ![p] = Append(@, x)] /\ cmds[p] \in Seq(TcpCommand[p])
      /\ cmds'[p] \in Seq(TcpCommand[p]) /\ DOMAIN cmds = Peers
  BY DEF TypeOK, PeerTypeOK, CommandsTypeOK, SendCommand
<1>2. cmds'[p] = Append(cmds[p], x) /\ \A q \in Peers \ {p} : cmds'[q] = cmds[q]
  BY <1>1
<1>3. x \in TcpCommand[p]
  BY <1>1, <1>2, AppendedElement
<1>4. Owner(e) \in Peers /\ Unsent(e) \in Nat
  BY EndFacts, UnsentType
<1>5. CASE p = Owner(e)
  <2>1. Count(Append(cmds[p], x), SendsOn(e))
            = Count(cmds[p], SendsOn(e)) + (IF x \in SendsOn(e) THEN 1 ELSE 0)
    BY <1>1, <1>3, CountAppend
  <2>2. x \in SendsOn(e) <=> x.type = "Send" /\ x.conn = e
    BY <1>3, <1>5 DEF SendsOn
  <2>. QED
    BY <1>2, <1>5, <2>1, <2>2 DEF Unsent
<1>6. CASE p # Owner(e)
  BY <1>2, <1>4, <1>6 DEF Unsent
<1>. QED
  BY <1>5, <1>6

LEMMA UnsentTake ==
    ASSUME TypeOK, NEW p \in Peers, NEW type, HandlesQuietly(p, type), NEW e \in Ends
    PROVE  /\ Unsent(e) = Unsent(e)' + (IF type = "Send" /\ HeadConn(p) = e THEN 1 ELSE 0)
           /\ Unsent(e)' \in Nat
<1>1. cmds' = [cmds EXCEPT ![p] = Tail(@)] /\ cmds[p] # <<>> /\ Head(cmds[p]).type = type
  BY DEF HandlesQuietly, Handles, Receives, TakeCommand
<1>2. cmds[p] \in Seq(TcpCommand[p]) /\ DOMAIN cmds = Peers /\ Head(cmds[p]) \in TcpCommand[p]
  BY <1>1, HeadCommandType DEF TypeOK, PeerTypeOK, CommandsTypeOK
<1>3. cmds'[p] = Tail(cmds[p]) /\ \A q \in Peers \ {p} : cmds'[q] = cmds[q]
  BY <1>1, <1>2
<1>4. Owner(e) \in Peers /\ Unsent(e) \in Nat
  BY EndFacts, UnsentType
<1>5. CASE p = Owner(e)
  <2>1. Count(cmds[p], SendsOn(e))
            = Count(Tail(cmds[p]), SendsOn(e)) + (IF Head(cmds[p]) \in SendsOn(e) THEN 1 ELSE 0)
    BY <1>1, <1>2, CountTail
  <2>2. Head(cmds[p]) \in SendsOn(e) <=> type = "Send" /\ HeadConn(p) = e
    BY <1>1, <1>2, <1>5 DEF SendsOn, HeadConn
  <2>3. Tail(cmds[p]) \in Seq(TcpCommand[p])
    BY <1>1, <1>2, HeadTailProperties
  <2>4. Count(Tail(cmds[p]), SendsOn(e)) \in Nat
    BY <2>3, CountType
  <2>. QED
    BY <1>3, <1>5, <2>1, <2>2, <2>4 DEF Unsent
<1>6. CASE p # Owner(e)
  <2>1. ~(type = "Send" /\ HeadConn(p) = e)
    BY <1>6, SendParts
  <2>. QED
    BY <1>3, <1>4, <1>6, <2>1 DEF Unsent
<1>. QED
  BY <1>5, <1>6

\* A step that accepts nothing and is not a Send.
LEMMA SendsFrame ==
    ASSUME SendsInv, UNCHANGED <<sent, accepted>>, reset \subseteq reset',
           \A e \in Ends : Closed(e) => Closed(e)',
           \A e \in DialEnds : Intact(e)' => Unsent(e)' = Unsent(e)
    PROVE  SendsInv'
<1> SUFFICES ASSUME NEW e \in DialEnds, Intact(e)'
             PROVE  sent'[e] = Len(accepted'[e]) + Unsent(e)'
  BY DEF SendsInv
<1>1. e \in Ends /\ Other(e) \in Ends
  BY EndFacts DEF Ends
<1>2. Intact(e)
  BY <1>1 DEF Intact, Broken
<1>. QED
  BY <1>2 DEF SendsInv

LEMMA SameSends ==
    ASSUME SendsInv, UNCHANGED <<cmds, sent, accepted, handler>>, reset \subseteq reset'
    PROVE  SendsInv'
BY SendsFrame DEF Unsent, Closed

LEMMA CallSends ==
    ASSUME TypeOK, TypeOK', SendsInv, NEW p \in Peers, NEW x, SendCommand(p, x), x.type # "Send",
           UNCHANGED <<sent, accepted, handler, reset>>
    PROVE  SendsInv'
<1>1. \A e \in Ends : Unsent(e)' = Unsent(e)
  BY UnsentCall, UnsentType
<1>2. \A e \in DialEnds : Unsent(e)' = Unsent(e)
  BY <1>1 DEF Ends
<1>. QED
  BY <1>2, SendsFrame DEF Closed

LEMMA TakeSends ==
    ASSUME TypeOK, TypeOK', SendsInv, NEW p \in Peers, NEW type, HandlesQuietly(p, type),
           type # "Send", UNCHANGED <<sent, accepted, reset>>,
           \A e \in Ends : Closed(e) => Closed(e)'
    PROVE  SendsInv'
<1>1. \A e \in Ends : Unsent(e)' = Unsent(e)
  BY UnsentTake, UnsentType
<1>2. \A e \in DialEnds : Unsent(e)' = Unsent(e)
  BY <1>1 DEF Ends
<1>. QED
  BY <1>2, SendsFrame

LEMMA AppSends == TypeOK /\ TypeOK' /\ SendsInv /\ AppAction => SendsInv'
<1> SUFFICES ASSUME TypeOK, TypeOK', SendsInv, AppAction PROVE SendsInv'
  OBVIOUS
<1>1. CASE AppListen
  <2>1. /\ SendCommand(Server, BindCmd) /\ Server \in Peers /\ BindCmd.type # "Send"
        /\ UNCHANGED <<sent, accepted, handler, reset>>
    BY <1>1, TcpAssumption DEF AppListen, Listen, tcpVars, BindCmd
  <2>. QED
    BY <2>1, CallSends
<1>2. ASSUME NEW c \in Clients, AppDial(c) PROVE SendsInv'
  <2>1. /\ SendCommand(c, ConnectCmd) /\ c \in Peers /\ ConnectCmd.type # "Send"
        /\ UNCHANGED <<sent, accepted, handler, reset>>
    BY <1>2, ClientEnds DEF AppDial, Dial, tcpVars, ConnectCmd
  <2>. QED
    BY <2>1, CallSends
<1>3. ASSUME NEW e \in Ends, NEW r \in Kinds, AppCreateStream(e, r) PROVE SendsInv'
  <2>1. PICK x \in TcpCommand[Owner(e)] :
            x.type = "CreateStream" /\ (SendCommand(Owner(e), x) \/ UNCHANGED cmds)
    BY <1>3, CreateParts
  <2>2. Owner(e) \in Peers /\ UNCHANGED <<sent, accepted, handler, reset>>
    BY <1>3, CreateParts DEF tcpVars
  <2>3. CASE SendCommand(Owner(e), x)
    BY <2>1, <2>2, <2>3, CallSends
  <2>4. CASE UNCHANGED cmds
    BY <2>2, <2>4, SameSends
  <2>. QED
    BY <2>1, <2>3, <2>4
<1>4. ASSUME NEW e \in Ends, NEW s, AppCloseStream(e, s) PROVE SendsInv'
  <2>1. PICK x : x = CloseStreamCmd(e, s)
    OBVIOUS
  <2>2. /\ SendCommand(Owner(e), x) /\ Owner(e) \in Peers /\ x.type # "Send"
        /\ UNCHANGED <<sent, accepted, handler, reset>>
    BY <1>4, <2>1, EndFacts DEF AppCloseStream, CloseStream, tcpVars, CloseStreamCmd
  <2>. QED
    BY <2>2, CallSends
<1>5. ASSUME NEW e \in Ends, NEW s, AppSend(e, s) PROVE SendsInv'
  <2>1. PICK x : x = SendCmd(e, [stream |-> s, n |-> sent[e] + 1])
    OBVIOUS
  <2>2. /\ SendCommand(Owner(e), x) /\ Owner(e) \in Peers /\ x.type = "Send" /\ x.conn = e
        /\ sent' = [sent EXCEPT ![e] = @ + 1] /\ UNCHANGED <<accepted, handler, reset>>
    BY <1>5, <2>1, EndFacts DEF AppSend, Send, linkVars, SendCmd
  <2>3. ASSUME NEW d \in DialEnds, Intact(d)' PROVE sent'[d] = Len(accepted'[d]) + Unsent(d)'
    <3>1. d \in Ends /\ Intact(d)
      BY <2>2, <2>3 DEF Ends, Intact, Closed, Broken
    <3>2. sent \in [Ends -> Nat] /\ sent[d] = Len(accepted[d]) + Unsent(d) /\ Unsent(d) \in Nat
      BY <3>1, UnsentType DEF SendsInv, TypeOK, HistoryTypeOK
    <3>3. Len(accepted[d]) \in Nat /\ accepted'[d] = accepted[d]
      BY <2>2, <3>1, LinkTypes, LenProperties
    <3>4. Unsent(d)' = Unsent(d) + (IF d = e THEN 1 ELSE 0)
      BY <2>2, <3>1, UnsentCall
    <3>. QED
      BY <2>2, <3>1, <3>2, <3>3, <3>4
  <2>. QED
    BY <2>3 DEF SendsInv
<1>6. ASSUME NEW p \in Peers, AppShutdown(p) PROVE SendsInv'
  <2>1. /\ SendCommand(p, ShutdownCmd) /\ ShutdownCmd.type # "Send"
        /\ UNCHANGED <<sent, accepted, handler, reset>>
    BY <1>6 DEF AppShutdown, Shutdown, tcpVars, ShutdownCmd
  <2>. QED
    BY <2>1, CallSends
<1>7. ASSUME NEW p \in Peers, AppPoll(p) \/ AppJoin(p) PROVE SendsInv'
  BY <1>7, SameSends DEF AppPoll, AppJoin, Poll, Join, tcpVars
<1>. QED
  BY <1>1, <1>2, <1>3, <1>4, <1>5, <1>6, <1>7 DEF AppAction

\* A Send that is handled is accepted, or its connection is closed.
LEMMA HandleSends ==
    ASSUME TypeOK, TypeOK', PlacedInv, NewsInv, SendsInv, NEW p \in Peers,
           SendUnknown(p) \/ SendClosed(p) \/ SendQueued(p) \/ SendWaits(p)
    PROVE  SendsInv'
<1>1. PICK e \in Ends : e = HeadConn(p) /\ Owner(e) = p /\ handler[e] # "none"
  <2>1. HandlesQuietly(p, "Send")
    BY DEF SendUnknown, SendClosed, SendQueued, SendWaits
  <2>. QED
    BY <2>1, HeadOpen DEF OfConnection, HeadConn
<1>2. /\ HandlesQuietly(p, "Send") /\ UNCHANGED <<sent, handler, reset>>
      /\ \/ UNCHANGED accepted /\ (e \notin registered \/ Closed(e))
         \/ accepted' = [accepted EXCEPT ![e] = Append(@, HeadPacket(p))]
  BY <1>1 DEF SendUnknown, SendClosed, SendQueued, SendWaits, tcpVars
<1>3. ASSUME NEW d \in DialEnds, Intact(d)' PROVE sent'[d] = Len(accepted'[d]) + Unsent(d)'
  <2>1. d \in Ends /\ Intact(d)
    BY <1>2, <1>3 DEF Ends, Intact, Closed, Broken
  <2>2. /\ sent[d] = Len(accepted[d]) + Unsent(d) /\ Unsent(d)' \in Nat
        /\ accepted[d] \in Seq(Packet) /\ Len(accepted[d]) \in Nat
        /\ accepted \in [Ends -> Seq(Packet)]
    BY <1>2, <2>1, UnsentTake, LinkTypes, ArrayTypes, LenProperties DEF SendsInv
  <2>3. Unsent(d) = Unsent(d)' + (IF d = e THEN 1 ELSE 0)
    BY <1>1, <1>2, <2>1, UnsentTake
  <2>4. CASE d # e
    BY <1>2, <2>1, <2>2, <2>3, <2>4
  <2>5. CASE d = e
    <3>1. d \in registered /\ ~Closed(d)
      <4>1. Running(d) /\ ~Closed(d)
        BY <1>1, <2>1, <2>5 DEF Intact, Running, Closed, TypeOK, LinkTypeOK
      <4>2. d \notin AcceptEnds
        BY DEF DialEnds, AcceptEnds
      <4>3. registering # <<d>>
        <5>1. registering = <<>> \/ \E x \in AcceptEnds : registering = <<x>>
          BY DEF TypeOK, AcceptTypeOK, AtMostOne
        <5>2. \A x \in AcceptEnds : <<x>> # <<d>>
          BY <4>2
        <5>. QED
          BY <5>1, <5>2
      <4>4. ~InQueue(d)
        <5>1. regQ \in Seq(AcceptEnds)
          BY DEF TypeOK, AcceptTypeOK
        <5>2. \A i \in DOMAIN regQ : regQ[i] \in AcceptEnds
          BY <5>1, Elements, ElementOfSeq
        <5>. QED
          BY <4>2, <5>2 DEF InQueue
      <4>. QED
        BY <2>1, <4>1, <4>3, <4>4 DEF PlacedInv, PlacedOnce
    <3>2. accepted' = [accepted EXCEPT ![e] = Append(@, HeadPacket(p))] /\ sent' = sent
      BY <1>2, <2>5, <3>1
    <3>3. PICK m \in Packet : m = HeadPacket(p)
      BY <1>2, SendParts
    <3>4. accepted'[d] = Append(accepted[d], m)
      BY <2>1, <2>2, <2>5, <3>2, <3>3
    <3>5. Len(accepted'[d]) = Len(accepted[d]) + 1
      BY <2>2, <3>4, AppendType
    <3>. QED
      BY <2>2, <2>3, <2>5, <3>2, <3>5
  <2>. QED
    BY <2>4, <2>5
<1>. QED
  BY <1>3 DEF SendsInv

\* The commands that are lost with a backend are of connections it closes.
LEMMA StopSends ==
    ASSUME TypeOK, NewsInv, SendsInv, NEW p \in Peers, Stop(p)
    PROVE  SendsInv'
<1>1. /\ cmds' = [cmds EXCEPT ![p] = <<>>] /\ UNCHANGED <<sent, accepted>>
      /\ handler' = [e \in Ends |-> IF Owner(e) = p /\ Running(e) THEN "done" ELSE handler[e]]
      /\ DOMAIN cmds = Peers /\ reset \subseteq reset'
  BY DEF Stop, ThreadExits, DropBacklog, historyVars, TypeOK, PeerTypeOK, CommandsTypeOK
<1>2. \A e \in Ends : Closed(e) => Closed(e)'
  BY <1>1 DEF Running, Closed
<1>3. ASSUME NEW e \in DialEnds, Intact(e)' PROVE Unsent(e)' = Unsent(e)
  <2>1. e \in Ends /\ Owner(e) \in Peers
    BY EndFacts DEF Ends
  <2>2. CASE Owner(e) = p
    <3>1. handler[e] = "none"
      BY <1>1, <1>3, <2>1, <2>2 DEF Intact, Closed, Running, TypeOK, LinkTypeOK
    <3>2. \A i \in DOMAIN cmds[p] : cmds[p][i] \notin SendsOn(e)
      <4> SUFFICES ASSUME NEW i \in DOMAIN cmds[p], cmds[p][i] \in SendsOn(e) PROVE FALSE
        OBVIOUS
      <4>1. cmds[p][i] \in Queued(p) /\ cmds[p][i].type = "Send" /\ cmds[p][i].conn = e
        BY DEF Queued, Elems, SendsOn
      <4>2. CallOK(cmds[p][i])
        BY <4>1 DEF NewsInv
      <4>. QED
        BY <3>1, <4>1, <4>2 DEF CallOK, OfConnection
    <3>3. cmds[p] \in Seq(TcpCommand[p]) /\ cmds'[p] = <<>>
      BY <1>1 DEF TypeOK, PeerTypeOK, CommandsTypeOK
    <3>. QED
      BY <2>2, <3>2, <3>3, CountNone, CountEmpty DEF Unsent
  <2>3. CASE Owner(e) # p
    BY <1>1, <2>1, <2>3 DEF Unsent
  <2>. QED
    BY <2>2, <2>3
<1>. QED
  BY <1>1, <1>2, <1>3, SendsFrame

LEMMA SendsStep ==
    TypeOK /\ TypeOK' /\ FreshInv /\ PlacedInv /\ NewsInv /\ SendsInv /\ [Next]_vars => SendsInv'
<1> SUFFICES ASSUME TypeOK, TypeOK', FreshInv, PlacedInv, NewsInv, SendsInv, [Next]_vars
             PROVE  SendsInv'
  OBVIOUS
<1>1. CASE AppAction
  BY <1>1, AppSends
<1>2. ASSUME NEW p \in Peers, HandleCommand(p) PROVE SendsInv'
  <2>1. CASE p = Server /\ Bind
    BY <2>1, TakeSends DEF Bind, linkVars, historyVars, Closed
  <2>2. CASE p \in Clients /\ Connect(p)
    <3>1. /\ HandlesQuietly(p, "Connect") /\ UNCHANGED <<sent, accepted, reset>>
          /\ handler' = [handler EXCEPT ![<<p, "dial">>] = "running"]
          /\ handler[<<p, "dial">>] = "none"
      BY <2>2, ConnectFresh DEF Connect, historyVars
    <3>2. \A e \in Ends : Closed(e) => Closed(e)'
      BY <3>1, ArrayTypes DEF Closed
    <3>. QED
      BY <3>1, <3>2, TakeSends
  <2>3. CASE p \in Clients /\ ConnectFails(p)
    BY <2>3, TakeSends DEF ConnectFails, tcpVars, Closed
  <2>4. CASE BackendCreateStream(p) \/ BackendCloseStream(p)
    BY <2>4, TakeSends DEF BackendCreateStream, BackendCloseStream, tcpVars, Closed
  <2>5. CASE BackendShutdown(p) \/ (p = Server /\ BindFails)
    BY <2>5, StopSends DEF BackendShutdown, BindFails
  <2>. QED
    BY <1>2, <2>1, <2>2, <2>3, <2>4, <2>5, HandleSends DEF HandleCommand
<1>3. CASE RegisterPeer \/ Register
  BY <1>3, SameSends DEF RegisterPeer, Register, peerVars, linkVars, historyVars
<1>4. CASE AcceptFails
  BY <1>4, SameSends DEF AcceptFails, DropBacklog, peerVars, historyVars
<1>5. CASE Accept
  <2>1. /\ UNCHANGED <<cmds, sent, accepted, reset>> /\ handler[Head(backlog)] = "none"
        /\ handler' = [handler EXCEPT ![Head(backlog)] = "running"]
    BY <1>5, AcceptFresh DEF Accept, historyVars
  <2>2. \A e \in Ends : Closed(e) => Closed(e)'
    BY <2>1, ArrayTypes DEF Closed
  <2>. QED
    BY <2>1, <2>2, SendsFrame DEF Unsent
<1>6. ASSUME NEW e \in Ends, ResumeSend(e) \/ HandlerRead(e) \/ HandlerTake(e) \/ WriteOut(e)
      PROVE  SendsInv'
  BY <1>6, SameSends DEF ResumeSend, SendResumes, SendGivesUp, HandlerRead, HandlerTake, WriteOut,
                         HandlerWrite, HandlerWriteFails, peerVars, historyVars
<1>7. ASSUME NEW e \in Ends, HandlerEof(e) PROVE SendsInv'
  <2>1. /\ UNCHANGED <<cmds, sent, accepted, reset>>
        /\ handler' = [handler EXCEPT ![e] = "done"]
    BY <1>7 DEF HandlerEof, historyVars
  <2>2. \A d \in Ends : Closed(d) => Closed(d)'
    BY <2>1, ArrayTypes DEF Closed
  <2>. QED
    BY <2>1, <2>2, SendsFrame DEF Unsent
<1>8. ASSUME NEW p \in Peers, Die(p) PROVE SendsInv'
  BY <1>8, StopSends DEF Die
<1>9. ASSUME NEW c \in Clients, Reset(c) PROVE SendsInv'
  BY <1>9, SameSends DEF Reset, peerVars, historyVars
<1>10. CASE UNCHANGED vars
  BY <1>10, SameSends DEF vars, peerVars, tcpVars
<1>. QED
  BY <1>1, <1>2, <1>3, <1>4, <1>5, <1>6, <1>7, <1>8, <1>9, <1>10 DEF Next

LEMMA SendsInit == Init => SendsInv
<1> SUFFICES ASSUME Init, NEW e \in DialEnds PROVE sent[e] = Len(accepted[e]) + Unsent(e)
  BY DEF SendsInv
<1>1. e \in Ends /\ Owner(e) \in Peers
  BY EndFacts DEF Ends
<1>2. sent[e] = 0 /\ accepted[e] = <<>> /\ cmds[Owner(e)] = <<>>
  BY <1>1 DEF Init, PeerInit
<1>3. Len(<<>>) = 0 /\ Unsent(e) = 0
  BY <1>2, CountEmpty DEF Unsent
<1>. QED
  BY <1>2, <1>3

(***************************************************************************)
(* For any number of clients and any capacities, no send of a dialing side *)
(* is dropped while the connection stands: every one is in the queue of    *)
(* commands or was accepted.                                               *)
(***************************************************************************)
THEOREM DialerTheorem == Spec => []DialerSendsAccepted
<1>1. TypeOK /\ SendsInv => DialerSendsAccepted
  BY UnsentType DEF SendsInv, DialerSendsAccepted, SendsAccepted, Ends
<1>2. /\ TypeOK /\ TypeOK' /\ FreshInv /\ PlacedInv /\ NewsInv /\ SendsInv /\ [Next]_vars
             => SendsInv'
      /\ TypeOK /\ FreshInv /\ NewsInv /\ TypeOK' /\ [Next]_vars => NewsInv'
      /\ TypeOK /\ FreshInv /\ UnopenedInv /\ PlacedInv /\ [Next]_vars => PlacedInv'
  BY SendsStep, NewsStep, PlacedStep
<1>3. Init => PlacedInv /\ NewsInv /\ SendsInv
  BY PlacedInit, NewsInit, SendsInit
<1>4. Spec => [](TypeOK /\ FreshInv /\ UnopenedInv)
  BY OrderTheorem, PTL DEF OrderInv
<1>. QED
  BY <1>1, <1>2, <1>3, <1>4, PTL DEF Spec

===============================================================================
