-------------------------- MODULE QuicBackendProofs --------------------------
(***************************************************************************)
(* Theorems about QuicBackend, for any number of clients, any window, any  *)
(* limit of open streams and whatever may fail: the types, the order in    *)
(* which an application first hears of a connection although the tasks of  *)
(* a connection write to its queue past the loop (ConnectedOnceAndFirst),  *)
(* what becomes of the sends of a dialing side (DialerSendsAccounted),     *)
(* that a stream is announced once, whoever made it known (AnnouncedOnce), *)
(* and that the backends implement the reliable links (ImplementsLinks).   *)
(***************************************************************************)
EXTENDS QuicBackend, GamePeerProofs

-------------------------------------------------------------------------------
(* Ends, keys and halves *)

LEMMA EndFacts ==
    ASSUME NEW e \in Ends
    PROVE  /\ Owner(e) \in Peers /\ e \in EndsOf(Owner(e))
           /\ Other(e) \in Ends /\ Other(Other(e)) = e /\ Other(e) # e
           /\ e[1] \in Clients /\ Other(e)[1] = e[1]
BY QuicAssumption DEF Ends, DialEnds, AcceptEnds, Clients, Owner, Other, EndsOf

LEMMA ClientEnds ==
    ASSUME NEW c \in Clients
    PROVE  /\ <<c, "dial">> \in DialEnds /\ <<c, "accept">> \in AcceptEnds
           /\ <<c, "dial">> \in Ends /\ <<c, "accept">> \in Ends
           /\ Owner(<<c, "dial">>) = c /\ Owner(<<c, "accept">>) = Server
           /\ Other(<<c, "dial">>) = <<c, "accept">> /\ c \in Peers /\ c # Server
BY DEF Ends, DialEnds, AcceptEnds, Clients, Owner, Other

LEMMA EndsOfFacts ==
    ASSUME NEW p \in Peers, NEW e \in EndsOf(p)
    PROVE  e \in Ends /\ Owner(e) = p
BY DEF EndsOf

LEMMA AcceptEndFacts ==
    ASSUME NEW e \in AcceptEnds
    PROVE  /\ e \in Ends /\ Owner(e) = Server /\ e \in EndsOf(Server)
           /\ Other(e) \in DialEnds /\ Other(e) = <<e[1], "dial">> /\ e = <<e[1], "accept">>
BY QuicAssumption DEF Ends, DialEnds, AcceptEnds, Clients, Owner, Other, EndsOf

LEMMA ServerIsPeer == Server \in Peers
BY QuicAssumption

LEMMA KeyFacts ==
    ASSUME NEW e \in Ends, NEW stream \in StreamId
    PROVE  /\ <<e, stream>> \in Key /\ <<e, stream>>[1] = e /\ <<e, stream>>[2] = stream
BY DEF Key

LEMMA KeyParts ==
    ASSUME NEW k \in Key
    PROVE  k[1] \in Ends /\ k[2] \in StreamId /\ k = <<k[1], k[2]>>
BY DEF Key

\* A stream of an end's connection has a half in each direction.
LEMMA StreamHalves ==
    ASSUME NEW e \in Ends, NEW q \in StreamsOf(e)
    PROVE  /\ q \in QuicStream /\ q \in StreamsOf(Other(e)) /\ q # NoStream
           /\ <<q, e>> \in Halves /\ <<q, Other(e)>> \in Halves
           /\ Writer(<<q, e>>) = e /\ Reader(<<q, e>>) = Other(e)
           /\ Writer(<<q, Other(e)>>) = Other(e) /\ Reader(<<q, Other(e)>>) = e
           /\ <<q, e>> \in HalvesOf(Owner(e))
<1>1. PICK o \in {e, Other(e)}, n \in 1 .. MaxStreams : q = <<o, n>>
  BY DEF StreamsOf
<1>2. Other(e) \in Ends /\ Other(Other(e)) = e
  BY EndFacts
<1>3. q \in QuicStream /\ q[1] = o /\ q # NoStream /\ q \in StreamsOf(Other(e))
  BY <1>1, <1>2 DEF QuicStream, NoStream, StreamsOf
<1>4. <<q, e>> \in Halves /\ <<q, Other(e)>> \in Halves
  BY <1>1, <1>2, <1>3 DEF Halves
<1>. QED
  BY <1>2, <1>3, <1>4 DEF Writer, Reader, HalvesOf

LEMMA HalfFacts ==
    ASSUME NEW h \in Halves
    PROVE  /\ h[1] \in QuicStream /\ h[1][1] \in Ends /\ h[1][2] \in 1 .. MaxStreams
           /\ Writer(h) \in Ends /\ Reader(h) \in Ends /\ Reader(h) = Other(Writer(h))
           /\ h = <<h[1], h[2]>> /\ Writer(h) = h[2] /\ h[2] \in {h[1][1], Other(h[1][1])}
BY EndFacts DEF Halves, QuicStream, Writer, Reader

LEMMA NextStream ==
    ASSUME NEW e \in Ends, NEW n \in Nat, n < MaxStreams
    PROVE  <<e, n + 1>> \in StreamsOf(e) /\ <<e, n + 1>> \in StreamsOf(Other(e))
<1>1. n + 1 \in 1 .. MaxStreams /\ Other(Other(e)) = e
  BY MaxStreamsAssumption, EndFacts
<1>. QED
  BY <1>1 DEF StreamsOf

-------------------------------------------------------------------------------
(* Commands and events *)

LEMMA QueueTypes ==
    ASSUME TypeOK, NEW p \in Peers
    PROVE  /\ cmds[p] \in Seq(Commands[p]) /\ events[p] \in Seq(Events[p])
           /\ Commands[p] = Command(EndsOf(p), Packet)
           /\ CommandsTypeOK(Commands) /\ EventsTypeOK(Events) /\ ThreadsTypeOK
BY DEF TypeOK, PeerTypeOK, CommandsTypeOK, EventsTypeOK, Commands

LEMMA EventTypes ==
    ASSUME NEW p \in Peers, NEW e \in EndsOf(p)
    PROVE  /\ Connected(e) \in Events[p] /\ SendFailed(e) \in Events[p]
           /\ \A m \in Packet : Message(e, m) \in Events[p]
           /\ \A s \in StreamId : /\ StreamCreated(e, s) \in Events[p]
                                  /\ StreamClosed(e, s) \in Events[p]
BY EventMembers DEF Events

LEMMA EventParts ==
    ASSUME NEW p \in Peers, NEW x \in Events[p]
    PROVE  /\ x.type = "StreamCreated" => "conn" \in DOMAIN x /\ x.stream \in StreamId
           /\ x.type = "Message" => "conn" \in DOMAIN x /\ x.packet.stream \in StreamId
           /\ "conn" \in DOMAIN x => x.conn \in EndsOf(p)
BY DEF Events, Event, Connected, Disconnected, ConnectError, Message, StreamCreated,
       StreamClosed, SendFailed, Packet

\* What an application knows it was told.
LEMMA KnownFacts ==
    ASSUME TypeOK, NEW e \in Ends, NEW stream \in KnownStreams(Owner(e), e) \cup SendsOn(e)
    PROVE  stream \in StreamId /\ \E y \in Told(Owner(e)) : Concerns(y, e)
<1> DEFINE p == Owner(e)
<1>1. Seen(p) \subseteq Told(p) /\ Told(p) \subseteq Events[p] /\ p \in Peers
  BY EndFacts, QueueTypes, SeenTold
<1>2. PICK x \in Seen(p) : /\ x.conn = e
                           /\ \/ x.type = "StreamCreated" /\ x.stream = stream
                              \/ x.type = "Message" /\ x.packet.stream = stream
  BY DEF KnownStreams, SendsOn, HeardStreams
<1>3. "conn" \in DOMAIN x /\ stream \in StreamId
  BY <1>1, <1>2, EventParts
<1>. QED
  BY <1>1, <1>2, <1>3 DEF Concerns

LEMMA KnowsFacts ==
    ASSUME TypeOK, NEW e \in Ends, KnowsConnection(Owner(e), e)
    PROVE  \E y \in Told(Owner(e)) : Concerns(y, e)
<1>1. Connected(e) \in Told(Owner(e))
  BY EndFacts, QueueTypes, SeenTold DEF KnowsConnection
<1>2. Concerns(Connected(e), e)
  BY DEF Concerns, Connected
<1>. QED
  BY <1>1, <1>2

-------------------------------------------------------------------------------
(* What the steps share *)

LEMMA SameTypes ==
    ASSUME TypeOK
    PROVE  /\ UNCHANGED peerVars => PeerTypeOK(Commands, Events)'
           /\ UNCHANGED acceptVars => AcceptTypeOK'
           /\ UNCHANGED <<mapVars, known>> => MapTypeOK'
           /\ UNCHANGED loopVars => LoopTypeOK'
           /\ UNCHANGED quinnVars => QuinnTypeOK'
           /\ UNCHANGED <<net, historyVars>> => HistoryTypeOK'
           /\ UNCHANGED <<events, polled>> => EventsTypeOK(Events)'
           /\ UNCHANGED <<next_stream_id, app, thread>> => ThreadsTypeOK'
           /\ UNCHANGED cmds => CommandsTypeOK(Commands)'
<1>1. UNCHANGED peerVars => PeerTypeOK(Commands, Events)'
  BY UnchangedCommandsType, UnchangedEventsType, UnchangedThreadsType
  DEF TypeOK, PeerTypeOK, peerVars
<1>2. UNCHANGED acceptVars => AcceptTypeOK'
  BY DEF TypeOK, AcceptTypeOK, acceptVars
<1>3. UNCHANGED <<mapVars, known>> => MapTypeOK'
  BY DEF TypeOK, MapTypeOK, mapVars
<1>4. UNCHANGED loopVars => LoopTypeOK'
  BY DEF TypeOK, LoopTypeOK, loopVars
<1>5. UNCHANGED quinnVars => QuinnTypeOK'
  BY DEF TypeOK, QuinnTypeOK, quinnVars
<1>6. UNCHANGED <<net, historyVars>> => HistoryTypeOK'
  BY DEF TypeOK, HistoryTypeOK, historyVars
<1>. QED
  BY <1>1, <1>2, <1>3, <1>4, <1>5, <1>6, UnchangedCommandsType, UnchangedEventsType,
     UnchangedThreadsType DEF TypeOK, PeerTypeOK

\* The application's calls: the queues of the GamePeer change, and sent.
LEMMA CallFrame ==
    ASSUME TypeOK, PeerTypeOK(Commands, Events)', HistoryTypeOK',
           UNCHANGED <<acceptVars, mapVars, known, loopVars, quinnVars>>
    PROVE  TypeOK'
BY SameTypes DEF TypeOK

LEMMA SameHistory ==
    ASSUME TypeOK, UNCHANGED quicVars
    PROVE  HistoryTypeOK' /\ UNCHANGED <<acceptVars, mapVars, known, loopVars, quinnVars>>
BY SameTypes DEF quicVars

LEMMA CallType ==
    ASSUME TypeOK, NEW p \in Peers, NEW cmd \in Commands[p], SendCommand(p, cmd),
           UNCHANGED <<events, polled>>, ThreadsTypeOK'
    PROVE  PeerTypeOK(Commands, Events)'
BY SendCommandType, UnchangedEventsType DEF TypeOK, PeerTypeOK

\* A command of the backend.
LEMMA QuietType ==
    ASSUME TypeOK, NEW p \in Peers, NEW type, HandlesQuietly(p, type)
    PROVE  /\ CommandsTypeOK(Commands)' /\ ThreadsTypeOK'
           /\ UNCHANGED <<polled, next_stream_id, app, thread>>
           /\ cmds[p] # <<>> /\ TakeCommand(p)
           /\ thread[p] = "running" /\ writing[p] = <<>> /\ opening[p] = <<>>
           /\ Head(cmds[p]) \in Commands[p] /\ Head(cmds[p]) \in Queued(p)
           /\ Head(cmds[p]).type = type
           /\ Queued(p)' \subseteq Queued(p) /\ \A q \in Peers \ {p} : cmds'[q] = cmds[q]
<1>1. /\ cmds[p] # <<>> /\ TakeCommand(p) /\ Head(cmds[p]).type = type
      /\ thread[p] = "running" /\ writing[p] = <<>> /\ opening[p] = <<>>
      /\ UNCHANGED <<polled, next_stream_id, app, thread>>
  BY DEF HandlesQuietly, Handles, Receives, Waits
<1>2. CommandsTypeOK(Commands) /\ ThreadsTypeOK
  BY DEF TypeOK, PeerTypeOK
<1>3. CommandsTypeOK(Commands)' /\ Head(cmds[p]) \in Commands[p] /\ Head(cmds[p]) \in Queued(p)
  BY <1>1, <1>2, TakeCommandType, HeadCommandType, HeadQueued
<1>4. Queued(p)' \subseteq Queued(p) /\ \A q \in Peers \ {p} : cmds'[q] = cmds[q]
  BY <1>1, <1>2, TakeCommandQueued
<1>5. ThreadsTypeOK'
  BY <1>1, <1>2, UnchangedThreadsType
<1>. QED
  BY <1>1, <1>3, <1>4, <1>5

LEMMA EmitOneType ==
    ASSUME TypeOK, NEW p \in Peers, NEW x \in Events[p], Emit(p, <<x>>), UNCHANGED polled
    PROVE  EventsTypeOK(Events)'
BY OneType, EmitType DEF TypeOK, PeerTypeOK

LEMMA EmitNoneType ==
    ASSUME TypeOK, NEW p \in Peers, Emit(p, <<>>), UNCHANGED polled
    PROVE  EventsTypeOK(Events)'
BY EmptySeq, EmitType DEF TypeOK, PeerTypeOK

\* The backend's commands about a connection are about its own.
LEMMA HeadParts ==
    ASSUME TypeOK, NEW p \in Peers, cmds[p] # <<>>
    PROVE  /\ Head(cmds[p]).type \in {"Send", "CreateStream", "CloseStream"} =>
                  HeadEnd(p) \in EndsOf(p) /\ HeadEnd(p) \in Ends /\ Owner(HeadEnd(p)) = p
           /\ Head(cmds[p]).type = "Send" =>
                  HeadPacket(p) \in Packet /\ HeadPacket(p).stream \in StreamId
           /\ Head(cmds[p]).type = "CreateStream" =>
                  Head(cmds[p]).index \in StreamId /\ Head(cmds[p]).reliability \in Reliability
           /\ Head(cmds[p]).type = "CloseStream" => Head(cmds[p]).stream \in StreamId
<1>1. Head(cmds[p]) \in Command(EndsOf(p), Packet)
  BY QueueTypes, HeadCommandType
<1>2. \A m \in Packet : m.stream \in StreamId
  BY DEF Packet
<1>. QED
  BY <1>1, <1>2, PartsOfCommand, EndsOfFacts DEF HeadEnd, HeadPacket

\* A registration more, at the end.
LEMMA RegistersType ==
    ASSUME TypeOK, NEW p \in Peers, NEW r \in Registration(p),
           streamReg' = [streamReg EXCEPT ![p] = Append(@, r)],
           UNCHANGED <<connections, reliable, unreliable>>, known' \in [Ends -> SUBSET StreamId]
    PROVE  MapTypeOK'
<1>1. DOMAIN streamReg = Peers /\ \A q \in Peers : streamReg[q] \in Seq(Registration(q))
  BY DEF TypeOK, MapTypeOK
<1>2. Append(streamReg[p], r) \in Seq(Registration(p))
  BY <1>1, AppendType
<1>3. DOMAIN streamReg' = Peers /\ \A q \in Peers : streamReg'[q] \in Seq(Registration(q))
  BY <1>1, <1>2
<1>. QED
  BY <1>3 DEF TypeOK, MapTypeOK

LEMMA RegistrationMembers ==
    ASSUME NEW p \in Peers, NEW e \in EndsOf(p), NEW stream \in StreamId,
           NEW q \in StreamsOf(e) \cup {NoStream}
    PROVE  [end |-> e, stream |-> stream, quic |-> q] \in Registration(p)
<1>1. q \in QuicStream \cup {NoStream}
  BY EndsOfFacts, StreamHalves
<1>. QED
  BY <1>1 DEF Registration

LEMMA RegistrationParts ==
    ASSUME NEW p \in Peers, NEW r \in Registration(p)
    PROVE  /\ r.end \in EndsOf(p) /\ r.end \in Ends /\ Owner(r.end) = p /\ r.stream \in StreamId
           /\ r.quic \in StreamsOf(r.end) \cup {NoStream} /\ r.quic \in QuicStream \cup {NoStream}
BY EndsOfFacts DEF Registration

-------------------------------------------------------------------------------
(* The inductive invariant of the types.  That an end opens no more streams *)
(* than the application of its process may ask for is not inductive without *)
(* the commands on their way and the one the loop awaits.                   *)

\* The commands that open a stream of QUIC on e.
Creates(e) == {CreateStreamCmd(e, i, "Reliable") : i \in StreamId}

Opening(e) ==
    IF opening[Owner(e)] # <<>> /\ Head(opening[Owner(e)]).end = e THEN 1 ELSE 0

Asked(e) == Len(opened[e]) + Opening(e) + Count(cmds[Owner(e)], Creates(e))

CreatesOK == \A e \in Ends : Asked(e) <= next_stream_id[Owner(e)]

IndType == TypeOK /\ CreatesOK

LEMMA AskedType ==
    ASSUME TypeOK, NEW e \in Ends
    PROVE  /\ Len(opened[e]) \in Nat /\ Opening(e) \in {0, 1}
           /\ Count(cmds[Owner(e)], Creates(e)) \in Nat
           /\ next_stream_id[Owner(e)] \in 0 .. MaxStreams
<1>1. cmds[Owner(e)] \in Seq(Commands[Owner(e)]) /\ Owner(e) \in Peers
  BY EndFacts, QueueTypes
<1>2. Count(cmds[Owner(e)], Creates(e)) \in Nat
  BY <1>1, CountType
<1>3. Len(opened[e]) \in Nat
  BY LenProperties DEF TypeOK, QuinnTypeOK
<1>. QED
  BY <1>1, <1>2, <1>3 DEF Opening, TypeOK, PeerTypeOK, ThreadsTypeOK

\* Nobody asks for more, and what was asked for is not more.
LEMMA CreatesFrame ==
    ASSUME IndType, TypeOK', UNCHANGED next_stream_id,
           \A e \in Ends : \/ UNCHANGED <<opened[e], Opening(e), cmds[Owner(e)]>>
                           \/ Asked(e)' <= Asked(e)
    PROVE  CreatesOK'
<1>1. ASSUME NEW e \in Ends PROVE Asked(e)' <= next_stream_id[Owner(e)]
  <2>1. Asked(e) <= next_stream_id[Owner(e)]
    BY DEF IndType, CreatesOK
  <2>2. /\ Asked(e) \in Int /\ next_stream_id[Owner(e)] \in Int
    BY AskedType DEF IndType, Asked
  <2>3. Asked(e)' \in Int
    <3>1. Owner(e) \in Peers /\ cmds'[Owner(e)] \in Seq(Commands[Owner(e)])
      BY EndFacts DEF TypeOK, PeerTypeOK, CommandsTypeOK
    <3>2. Count(cmds'[Owner(e)], Creates(e)) \in Nat
      BY <3>1, CountType
    <3>3. Len(opened'[e]) \in Nat /\ Opening(e)' \in Nat
      BY LenProperties DEF TypeOK, QuinnTypeOK, Opening
    <3>. QED
      BY <3>2, <3>3 DEF Asked, Count, At
  <2>4. CASE UNCHANGED <<opened[e], Opening(e), cmds[Owner(e)]>>
    <3>1. Asked(e)' = Asked(e)
      BY <2>4 DEF Asked, Count, At
    <3>. QED
      BY <2>1, <3>1
  <2>5. CASE Asked(e)' <= Asked(e)
    BY <2>1, <2>2, <2>3, <2>5
  <2>. QED
    BY <2>4, <2>5
<1>. QED
  BY <1>1 DEF CreatesOK

\* A command was taken, and the loop awaits no stream.
LEMMA CreatesTaken ==
    ASSUME IndType, TypeOK', NEW p \in Peers, NEW type, HandlesQuietly(p, type),
           UNCHANGED <<opened, opening>>
    PROVE  CreatesOK'
<1>1. /\ cmds[p] # <<>> /\ cmds' = [cmds EXCEPT ![p] = Tail(@)] /\ UNCHANGED next_stream_id
  BY QuietType DEF IndType, TakeCommand
<1>2. cmds[p] \in Seq(Commands[p]) /\ cmds'[p] = Tail(cmds[p])
      /\ \A q \in Peers \ {p} : cmds'[q] = cmds[q]
  BY <1>1 DEF IndType, TypeOK, PeerTypeOK, CommandsTypeOK
<1>3. ASSUME NEW e \in Ends, Owner(e) = p PROVE Asked(e)' <= Asked(e)
  <2>1. Count(cmds[p], Creates(e)) = Count(Tail(cmds[p]), Creates(e))
                                        + (IF Head(cmds[p]) \in Creates(e) THEN 1 ELSE 0)
    BY <1>1, <1>2, CountTail
  <2>2. Count(Tail(cmds[p]), Creates(e)) \in Nat
    BY <1>1, <1>2, CountType, HeadTailProperties
  <2>3. Len(opened[e]) \in Nat /\ Opening(e) \in Nat /\ Opening(e)' = Opening(e)
    BY AskedType DEF IndType, Opening
  <2>4. Asked(e)' = Len(opened[e]) + Opening(e) + Count(Tail(cmds[p]), Creates(e))
    BY <1>2, <1>3, <2>3 DEF Asked, Count, At
  <2>. QED
    BY <1>3, <2>1, <2>2, <2>3, <2>4 DEF Asked
<1>4. ASSUME NEW e \in Ends, Owner(e) # p PROVE UNCHANGED <<opened[e], Opening(e), cmds[Owner(e)]>>
  BY <1>2, <1>4, EndFacts DEF Opening
<1>. QED
  BY <1>1, <1>3, <1>4, CreatesFrame

-------------------------------------------------------------------------------
(* The types are kept: the application                                     *)

LEMMA CreateStreamType ==
    ASSUME TypeOK, NEW p \in Peers, NEW e \in EndsOf(p), NEW r \in Reliability,
           CreateStream(p, e, r)
    PROVE  /\ PeerTypeOK(Commands, Events)' /\ UNCHANGED <<events, polled, app, thread>>
           /\ next_stream_id' = [next_stream_id EXCEPT ![p] = @ + 1]
           /\ \E i \in StreamId :
                  /\ i = next_stream_id[p] + 1 /\ CreateStreamCmd(e, i, r) \in Commands[p]
                  /\ SendCommand(p, CreateStreamCmd(e, i, r)) \/ UNCHANGED cmds
<1>1. /\ next_stream_id[p] \in Nat /\ next_stream_id[p] < MaxStreams
      /\ next_stream_id' = [next_stream_id EXCEPT ![p] = (@ + 1) % IdSpace]
      /\ SendCommand(p, CreateStreamCmd(e, next_stream_id'[p], r)) \/ UNCHANGED cmds
      /\ UNCHANGED <<events, polled, app, thread>>
  BY MaxStreamsAssumption DEF CreateStream, TypeOK, PeerTypeOK, ThreadsTypeOK
<1>2. PICK i \in Nat : i = next_stream_id[p] + 1
  BY <1>1
<1>3. i % IdSpace = i /\ i \in StreamId /\ i \in 0 .. MaxStreams
  <2>1. i \in 0 .. (IdSpace - 1) /\ IdSpace \in Nat \ {0}
    BY <1>1, <1>2, QuicAssumption, SlotsAssumption, MaxStreamsAssumption DEF IdSpace
  <2>. QED
    BY <1>1, <1>2, <2>1, MaxStreamsAssumption DEF StreamId
<1>4. next_stream_id' = [next_stream_id EXCEPT ![p] = i]
  BY <1>1, <1>2, <1>3
<1>5. next_stream_id'[p] = i
  BY <1>4 DEF TypeOK, PeerTypeOK, ThreadsTypeOK
<1>6. ThreadsTypeOK'
  BY <1>1, <1>3, <1>4 DEF TypeOK, PeerTypeOK, ThreadsTypeOK
<1>7. CreateStreamCmd(e, i, r) \in Commands[p]
  BY <1>3, CommandMembers DEF Commands
<1>8. CASE UNCHANGED cmds
  <2>1. PeerTypeOK(Commands, Events)'
    BY <1>1, <1>6, <1>8, UnchangedEventsType DEF TypeOK, PeerTypeOK, CommandsTypeOK
  <2>. QED
    BY <1>1, <1>2, <1>3, <1>4, <1>7, <1>8, <2>1
<1>9. CASE SendCommand(p, CreateStreamCmd(e, i, r))
  <2>1. PeerTypeOK(Commands, Events)'
    BY <1>1, <1>6, <1>7, <1>9, CallType
  <2>. QED
    BY <1>1, <1>2, <1>3, <1>4, <1>7, <1>9, <2>1
<1>. QED
  BY <1>1, <1>5, <1>8, <1>9

\* The other calls of an application: at most one command, of another kind.
OtherCall(p, cmd) ==
    /\ SendCommand(p, cmd) /\ UNCHANGED <<events, polled, next_stream_id, thread>>
    /\ cmd.type # "CreateStream" /\ cmd \in Commands[p]
    /\ app' \in [Peers -> {"running", "joining", "joined", "dead"}]

LEMMA OtherCallType ==
    ASSUME IndType, NEW p \in Peers, NEW cmd, OtherCall(p, cmd), HistoryTypeOK',
           UNCHANGED <<acceptVars, mapVars, known, loopVars, quinnVars>>
    PROVE  IndType'
<1>1. TypeOK
  BY DEF IndType
<1>2. ThreadsTypeOK'
  BY <1>1 DEF OtherCall, TypeOK, PeerTypeOK, ThreadsTypeOK
<1>3. PeerTypeOK(Commands, Events)'
  BY <1>1, <1>2, CallType DEF OtherCall
<1>4. TypeOK'
  BY <1>1, <1>3, CallFrame
<1>5. cmds' = [cmds EXCEPT ![p] = Append(@, cmd)] /\ cmds[p] \in Seq(Commands[p])
      /\ UNCHANGED <<next_stream_id, opened, opening>>
  BY <1>1, QueueTypes DEF OtherCall, SendCommand, loopVars, quinnVars
<1>6. cmds'[p] = Append(cmds[p], cmd) /\ \A q \in Peers \ {p} : cmds'[q] = cmds[q]
  BY <1>1, <1>5 DEF TypeOK, PeerTypeOK, CommandsTypeOK
<1>7. ASSUME NEW e \in Ends, Owner(e) = p PROVE Asked(e)' <= Asked(e)
  <2>1. cmd \notin Creates(e) /\ cmd \in Commands[p]
    BY DEF OtherCall, Creates, CreateStreamCmd
  <2>2. Count(Append(cmds[p], cmd), Creates(e)) = Count(cmds[p], Creates(e))
    BY <1>5, <2>1, CountAppend, CountType
  <2>3. Asked(e)' = Asked(e)
    BY <1>5, <1>6, <1>7, <2>2 DEF Asked, Count, At, Opening
  <2>4. Asked(e) \in Int
    BY <1>1, AskedType DEF Asked
  <2>. QED
    BY <2>3, <2>4
<1>8. ASSUME NEW e \in Ends, Owner(e) # p PROVE UNCHANGED <<opened[e], Opening(e), cmds[Owner(e)]>>
  BY <1>5, <1>6, <1>8, EndFacts DEF Opening
<1>9. CreatesOK'
  BY <1>4, <1>5, <1>7, <1>8, CreatesFrame
<1>. QED
  BY <1>4, <1>9 DEF IndType

LEMMA AppCreateType ==
    ASSUME IndType, NEW e \in Ends, NEW r \in Kinds, AppCreateStream(e, r)
    PROVE  IndType'
<1> DEFINE p == Owner(e)
<1>1. TypeOK /\ p \in Peers /\ e \in EndsOf(p) /\ r \in Reliability /\ CreateStream(p, e, r)
      /\ UNCHANGED quicVars
  BY EndFacts, QuicAssumption DEF IndType, AppCreateStream
<1>2. PICK i \in StreamId : /\ i = next_stream_id[p] + 1
                            /\ CreateStreamCmd(e, i, r) \in Commands[p]
                            /\ SendCommand(p, CreateStreamCmd(e, i, r)) \/ UNCHANGED cmds
  BY <1>1, CreateStreamType
<1>3. PICK cmd \in Commands[p] : cmd = CreateStreamCmd(e, i, r)
  BY <1>2
<1>4. /\ cmds' = [cmds EXCEPT ![p] = Append(@, cmd)] \/ UNCHANGED cmds
      /\ next_stream_id' = [next_stream_id EXCEPT ![p] = @ + 1]
      /\ cmds[p] \in Seq(Commands[p]) /\ UNCHANGED <<opened, opening>>
  BY <1>1, <1>2, <1>3, QueueTypes, CreateStreamType DEF SendCommand, quicVars, quinnVars, loopVars
<1>5. TypeOK'
  BY <1>1, CreateStreamType, SameHistory, CallFrame
<1>6. /\ cmds'[p] = Append(cmds[p], cmd) \/ cmds'[p] = cmds[p]
      /\ \A q \in Peers \ {p} : cmds'[q] = cmds[q]
      /\ next_stream_id'[p] = next_stream_id[p] + 1
      /\ \A q \in Peers \ {p} : next_stream_id'[q] = next_stream_id[q]
  BY <1>1, <1>4 DEF TypeOK, PeerTypeOK, CommandsTypeOK, ThreadsTypeOK
<1> HIDE DEF p
<1>7. ASSUME NEW f \in Ends PROVE Asked(f)' <= next_stream_id'[Owner(f)]
  <2>1. /\ Asked(f) <= next_stream_id[Owner(f)] /\ Opening(f)' = Opening(f) /\ Opening(f) \in Nat
        /\ Count(cmds[Owner(f)], Creates(f)) \in Nat /\ Len(opened[f]) \in Nat
        /\ next_stream_id[Owner(f)] \in Nat /\ Owner(f) \in Peers
    BY <1>1, <1>4, AskedType, EndFacts DEF IndType, CreatesOK, Opening
  <2>2. CASE Owner(f) = p
    <3>1. Count(Append(cmds[p], cmd), Creates(f)) <= Count(cmds[p], Creates(f)) + 1
      BY <1>4, <2>1, <2>2, CountAppend
    <3>2. Count(Append(cmds[p], cmd), Creates(f)) \in Nat
      BY <1>4, CountType, AppendType
    <3>3. CASE cmds'[p] = Append(cmds[p], cmd)
      <4>1. Asked(f)' = Len(opened[f]) + Opening(f) + Count(Append(cmds[p], cmd), Creates(f))
        BY <1>4, <2>1, <2>2, <3>3 DEF Asked, Count, At
      <4>. QED
        BY <1>6, <2>1, <2>2, <3>1, <3>2, <4>1 DEF Asked
    <3>4. CASE cmds'[p] = cmds[p]
      <4>1. cmds'[Owner(f)] = cmds[Owner(f)] /\ opened' = opened
        BY <1>4, <2>2, <3>4
      <4>2. Asked(f)' = Asked(f)
        BY <2>1, <4>1 DEF Asked, Count, At
      <4>3. Asked(f) \in Nat
        BY <2>1 DEF Asked
      <4>. QED
        BY <1>6, <2>1, <2>2, <4>2, <4>3
    <3>. QED
      BY <1>6, <3>3, <3>4
  <2>3. CASE Owner(f) # p
    <3>1. Asked(f)' = Asked(f)
      BY <1>4, <1>6, <2>1, <2>3 DEF Asked, Count, At
    <3>. QED
      BY <1>6, <2>1, <2>3, <3>1
  <2>. QED
    BY <2>2, <2>3
<1>. QED
  BY <1>5, <1>7 DEF IndType, CreatesOK

LEMMA AppSendParts ==
    ASSUME TypeOK, NEW e \in Ends, NEW stream \in StreamId, AppSend(e, stream)
    PROVE  \E m \in Packet :
               /\ m = [stream |-> stream, n |-> sent[e] + 1]
               /\ SendCmd(e, m) \in Commands[Owner(e)] /\ SendCommand(Owner(e), SendCmd(e, m))
               /\ stream \in SendsOn(e) /\ sent' = [sent EXCEPT ![e] = @ + 1]
               /\ UNCHANGED <<events, polled, next_stream_id, app, thread, acceptVars, mapVars,
                              known, loopVars, quinnVars, net, accepted, delivered>>
<1>1. sent[e] \in Nat /\ MaxSends[e] \in Nat /\ sent[e] < MaxSends[e]
  BY QuicAssumption DEF AppSend, TypeOK, HistoryTypeOK
<1>2. sent[e] + 1 \in 1 .. MaxSends[e]
  BY <1>1
<1>3. PICK m \in Packet : m = [stream |-> stream, n |-> sent[e] + 1]
  BY <1>2 DEF Packet
<1>4. SendCmd(e, m) \in Commands[Owner(e)]
  BY EndFacts, CommandMembers DEF Commands
<1>. QED
  BY <1>3, <1>4 DEF AppSend

LEMMA AppSendType ==
    ASSUME IndType, NEW e \in Ends, NEW stream \in StreamId, AppSend(e, stream)
    PROVE  IndType'
<1>1. TypeOK
  BY DEF IndType
<1>2. PICK m \in Packet :
          /\ SendCmd(e, m) \in Commands[Owner(e)] /\ SendCommand(Owner(e), SendCmd(e, m))
          /\ sent' = [sent EXCEPT ![e] = @ + 1]
          /\ UNCHANGED <<events, polled, next_stream_id, app, thread, acceptVars, mapVars,
                         known, loopVars, quinnVars, net, accepted, delivered>>
  BY <1>1, AppSendParts
<1>3. HistoryTypeOK'
  BY <1>1, <1>2 DEF TypeOK, HistoryTypeOK
<1>4. OtherCall(Owner(e), SendCmd(e, m))
  BY <1>1, <1>2 DEF OtherCall, SendCmd, TypeOK, PeerTypeOK, ThreadsTypeOK
<1>. QED
  BY <1>2, <1>3, <1>4, EndFacts, OtherCallType

LEMMA AppCloseParts ==
    ASSUME TypeOK, NEW e \in Ends, NEW stream \in StreamId, AppCloseStream(e, stream)
    PROVE  /\ OtherCall(Owner(e), CloseStreamCmd(e, stream)) /\ UNCHANGED <<quicVars, app>>
           /\ stream \in KnownStreams(Owner(e), e)
<1>1. CloseStreamCmd(e, stream) \in Commands[Owner(e)]
  BY EndFacts, CommandMembers DEF Commands
<1>. QED
  BY <1>1
  DEF AppCloseStream, CloseStream, OtherCall, CloseStreamCmd, TypeOK, PeerTypeOK, ThreadsTypeOK

\* The calls without a connection.
LEMMA PlainCalls ==
    ASSUME TypeOK
    PROVE  /\ AppListen => OtherCall(Server, BindCmd) /\ UNCHANGED quicVars
           /\ \A c \in Clients : AppDial(c) => /\ OtherCall(c, ConnectCmd) /\ UNCHANGED quicVars
                                               /\ conn[<<c, "dial">>] = "none"
                                               /\ ~Contains(cmds[c], ConnectCmd)
           /\ \A p \in Peers : AppShutdown(p) => OtherCall(p, ShutdownCmd) /\ UNCHANGED quicVars
<1>1. \A p \in Peers : /\ BindCmd \in Commands[p] /\ ConnectCmd \in Commands[p]
                       /\ ShutdownCmd \in Commands[p]
  BY CommandMembers DEF Commands
<1>2. app \in [Peers -> {"running", "joining", "joined", "dead"}]
  BY DEF TypeOK, PeerTypeOK, ThreadsTypeOK
<1>3. AppListen => OtherCall(Server, BindCmd) /\ UNCHANGED quicVars
  BY <1>1, <1>2, ServerIsPeer DEF AppListen, Listen, OtherCall, BindCmd
<1>4. \A c \in Clients : AppDial(c) => /\ OtherCall(c, ConnectCmd) /\ UNCHANGED quicVars
                                       /\ conn[<<c, "dial">>] = "none"
                                       /\ ~Contains(cmds[c], ConnectCmd)
  BY <1>1, <1>2 DEF AppDial, Dial, OtherCall, ConnectCmd, Clients
<1>5. \A p \in Peers : AppShutdown(p) => OtherCall(p, ShutdownCmd) /\ UNCHANGED quicVars
  BY <1>1, <1>2 DEF AppShutdown, Shutdown, OtherCall, ShutdownCmd
<1>. QED
  BY <1>3, <1>4, <1>5

LEMMA AppWaitsType ==
    ASSUME IndType, NEW p \in Peers, AppPoll(p) \/ AppJoin(p)
    PROVE  IndType'
<1>1. TypeOK /\ UNCHANGED <<quicVars, cmds, events, next_stream_id, thread>>
  BY DEF IndType, AppPoll, AppJoin, Poll, Join
<1>2. PeerTypeOK(Commands, Events)'
  <2>1. CASE AppPoll(p)
    <3>1. Poll(p) /\ UNCHANGED <<next_stream_id, app, thread>>
      BY <2>1 DEF AppPoll, Poll
    <3>. QED
      BY <1>1, <3>1, PollType, UnchangedCommandsType, UnchangedThreadsType DEF TypeOK, PeerTypeOK
  <2>2. CASE AppJoin(p)
    <3>1. app' = [app EXCEPT ![p] = "joined"] /\ UNCHANGED <<events, polled, cmds>>
      BY <2>2 DEF AppJoin, Join
    <3>2. ThreadsTypeOK'
      BY <1>1, <3>1 DEF TypeOK, PeerTypeOK, ThreadsTypeOK
    <3>. QED
      BY <1>1, <3>1, <3>2, UnchangedCommandsType, UnchangedEventsType DEF TypeOK, PeerTypeOK
  <2>. QED
    BY <2>1, <2>2
<1>3. TypeOK'
  BY <1>1, <1>2, SameHistory, CallFrame
<1>4. \A e \in Ends : UNCHANGED <<opened[e], Opening(e), cmds[Owner(e)]>>
  BY <1>1 DEF quicVars, quinnVars, loopVars, Opening
<1>. QED
  BY <1>1, <1>3, <1>4, CreatesFrame DEF IndType

LEMMA AppType ==
    ASSUME IndType, AppAction
    PROVE  IndType'
<1>1. TypeOK
  BY DEF IndType
<1>2. ASSUME NEW p \in Peers, NEW cmd, OtherCall(p, cmd), UNCHANGED quicVars PROVE IndType'
  BY <1>1, <1>2, SameHistory, OtherCallType
<1>3. CASE AppListen
  BY <1>1, <1>2, <1>3, PlainCalls, ServerIsPeer
<1>4. ASSUME NEW c \in Clients, AppDial(c) PROVE IndType'
  BY <1>1, <1>2, <1>4, PlainCalls, ClientEnds
<1>5. ASSUME NEW e \in Ends, NEW stream \in StreamId, AppCloseStream(e, stream) PROVE IndType'
  BY <1>1, <1>2, <1>5, AppCloseParts, EndFacts
<1>6. ASSUME NEW p \in Peers, AppShutdown(p) PROVE IndType'
  BY <1>1, <1>2, <1>6, PlainCalls
<1>. QED
  BY <1>3, <1>4, <1>5, <1>6, AppCreateType, AppSendType, AppWaitsType DEF AppAction

-------------------------------------------------------------------------------
(* The types are kept: the end of a backend                                *)

LEMMA StopType ==
    ASSUME TypeOK, NEW p \in Peers, Stop(p),
           app' \in [Peers -> {"running", "joining", "joined", "dead"}]
    PROVE  TypeOK'
<1>1. ThreadExits(p) /\ UNCHANGED <<events, polled, next_stream_id>>
  BY DEF Stop
<1>2. PeerTypeOK(Commands, Events)'
  <2>1. CommandsTypeOK(Commands)' /\ EventsTypeOK(Events)'
    BY <1>1, QueueTypes, ThreadExitsType, SameTypes DEF TypeOK, PeerTypeOK
  <2>2. ThreadsTypeOK'
    BY <1>1 DEF TypeOK, PeerTypeOK, ThreadsTypeOK, ThreadExits
  <2>. QED
    BY <2>1, <2>2 DEF PeerTypeOK
<1>3. AcceptTypeOK'
  <2>1. CASE p = Server
    BY <2>1, EmptySeq DEF Stop, AcceptTypeOK
  <2>2. CASE p # Server
    BY <2>2, SameTypes DEF Stop
  <2>. QED
    BY <2>1, <2>2
<1>4. MapTypeOK'
  <2>1. /\ streamReg' = [streamReg EXCEPT ![p] = <<>>] /\ known' = known
        /\ connections' = connections \ EndsOf(p)
        /\ unreliable' = {k \in unreliable : Owner(k[1]) # p}
    BY DEF Stop
  <2>2. \A q \in Peers : streamReg'[q] \in Seq(Registration(q))
    BY <2>1, EmptySeq DEF TypeOK, MapTypeOK
  <2>3. /\ reliable' \in [Key -> QuicStream \cup {NoStream}]
        /\ \A k \in Key : reliable'[k] \in StreamsOf(k[1]) \cup {NoStream}
    BY DEF Stop, TypeOK, MapTypeOK
  <2>. QED
    BY <2>1, <2>2, <2>3 DEF TypeOK, MapTypeOK
<1>5. LoopTypeOK'
  <2>1. writing' = [writing EXCEPT ![p] = <<>>] /\ opening' = [opening EXCEPT ![p] = <<>>]
    BY DEF Stop
  <2>. QED
    BY <2>1 DEF TypeOK, LoopTypeOK, AtMostOne
<1>6. QuinnTypeOK'
  <2>1. UNCHANGED <<opened, taken, pipe, finished>>
    BY DEF Stop
  <2>2. conn' \in [Ends -> {"none", "up", "lost", "closed"}]
    BY DEF Stop, TypeOK, QuinnTypeOK
  <2>3. /\ reading' \in [Halves -> {"none", "running", "done"}]
        /\ \A h \in Halves : reading'[h] = "running" => reading[h] = "running"
    BY DEF Stop, TypeOK, QuinnTypeOK
  <2>. QED
    BY <2>1, <2>2, <2>3 DEF TypeOK, QuinnTypeOK
<1>7. HistoryTypeOK'
  BY SameTypes DEF Stop
<1>. QED
  BY <1>2, <1>3, <1>4, <1>5, <1>6, <1>7 DEF TypeOK

LEMMA StopCreates ==
    ASSUME IndType, NEW p \in Peers, Stop(p), TypeOK'
    PROVE  IndType'
<1>1. /\ cmds' = [cmds EXCEPT ![p] = <<>>] /\ opening' = [opening EXCEPT ![p] = <<>>]
      /\ UNCHANGED <<opened, next_stream_id>>
  BY DEF Stop, ThreadExits
<1>2. /\ cmds'[p] = <<>> /\ opening'[p] = <<>>
      /\ \A q \in Peers \ {p} : cmds'[q] = cmds[q] /\ opening'[q] = opening[q]
  BY <1>1 DEF IndType, TypeOK, PeerTypeOK, CommandsTypeOK, LoopTypeOK
<1>3. ASSUME NEW e \in Ends, Owner(e) = p PROVE Asked(e)' <= Asked(e)
  <2>1. /\ Len(opened[e]) \in Nat /\ Opening(e) \in Nat
        /\ Count(cmds[p], Creates(e)) \in Nat
    BY <1>3, AskedType DEF IndType
  <2>2. PICK none : none = cmds'[p] /\ Count(none, Creates(e)) = 0
    BY <1>2, CountEmpty
  <2>3. Opening(e)' = 0
    BY <1>2, <1>3 DEF Opening
  <2>4. Asked(e)' = Len(opened[e])
    BY <1>1, <1>3, <2>1, <2>2, <2>3 DEF Asked, Count, At
  <2>. QED
    BY <1>3, <2>1, <2>4 DEF Asked
<1>4. ASSUME NEW e \in Ends, Owner(e) # p PROVE UNCHANGED <<opened[e], Opening(e), cmds[Owner(e)]>>
  BY <1>1, <1>2, <1>4, EndFacts DEF Opening
<1>. QED
  BY <1>1, <1>3, <1>4, CreatesFrame DEF IndType

\* The ways a backend ends.
StopsOrDies(p) == Stop(p) /\ app' \in {app, [app EXCEPT ![p] = "dead"]}

LEMMA PanicStops ==
    ASSUME NEW p \in Peers, Panic(p) \/ BackendShutdown(p)
    PROVE  StopsOrDies(p)
BY DEF Panic, BackendShutdown, StopsOrDies

LEMMA StopsType ==
    ASSUME IndType, NEW p \in Peers, StopsOrDies(p)
    PROVE  IndType'
<1>1. app' \in [Peers -> {"running", "joining", "joined", "dead"}]
  BY DEF StopsOrDies, IndType, TypeOK, PeerTypeOK, ThreadsTypeOK
<1>2. TypeOK'
  BY <1>1, StopType DEF StopsOrDies, IndType
<1>. QED
  BY <1>2, StopCreates DEF StopsOrDies

-------------------------------------------------------------------------------
(* The types are kept: the loop                                            *)

LEMMA CommandFrame ==
    ASSUME IndType, NEW p \in Peers, NEW type, HandlesQuietly(p, type),
           EventsTypeOK(Events)', AcceptTypeOK', MapTypeOK', LoopTypeOK', QuinnTypeOK',
           HistoryTypeOK', UNCHANGED <<opened, opening>>
    PROVE  IndType'
<1>1. TypeOK /\ CommandsTypeOK(Commands)' /\ ThreadsTypeOK'
  BY QuietType DEF IndType
<1>2. TypeOK'
  BY <1>1 DEF TypeOK, PeerTypeOK
<1>. QED
  BY <1>2, CreatesTaken DEF IndType

\* A step of a task, or of the loop without a command.
LEMMA TaskFrame ==
    ASSUME IndType, EventsTypeOK(Events)', AcceptTypeOK', MapTypeOK', LoopTypeOK', QuinnTypeOK',
           HistoryTypeOK', UNCHANGED <<cmds, next_stream_id, app, thread, opened, opening>>
    PROVE  IndType'
<1>1. TypeOK'
  BY SameTypes DEF IndType, TypeOK, PeerTypeOK
<1>2. \A e \in Ends : UNCHANGED <<opened[e], Opening(e), cmds[Owner(e)]>>
  BY DEF Opening
<1>. QED
  BY <1>1, <1>2, CreatesFrame DEF IndType

LEMMA BindType ==
    ASSUME IndType, Bind
    PROVE  IndType'
<1>1. TypeOK /\ HandlesQuietly(Server, "Bind") /\ Server \in Peers /\ listening' = TRUE
      /\ UNCHANGED <<events, polled, backlog, connReg, mapVars, known, loopVars, quinnVars, net,
                     historyVars>>
  BY ServerIsPeer DEF IndType, Bind, HandlesQuietly
<1>2. AcceptTypeOK'
  BY <1>1 DEF TypeOK, AcceptTypeOK
<1>3. UNCHANGED <<opened, opening>>
  BY <1>1 DEF quinnVars, loopVars
<1>. QED
  BY <1>1, <1>2, <1>3, SameTypes, CommandFrame

LEMMA ConnectType ==
    ASSUME IndType, NEW c \in Clients, Connect(c)
    PROVE  IndType'
<1>1. PICK e \in Ends : e = <<c, "dial">> /\ e \in EndsOf(c) /\ Other(e) \in AcceptEnds
  BY ClientEnds, EndFacts
<1>2. TypeOK /\ HandlesQuietly(c, "Connect") /\ c \in Peers
  BY ClientEnds DEF IndType, Connect
<1>3. /\ backlog' = Append(backlog, Other(e)) /\ conn' = [conn EXCEPT ![e] = "up"]
      /\ connections' = connections \cup {e} /\ Emit(c, <<Connected(e)>>) /\ polled' = polled
      /\ UNCHANGED <<listening, connReg, streamReg, reliable, unreliable, known, loopVars, opened,
                     taken, reading, pipe, finished, net, historyVars>>
  BY <1>1, <1>2, QuietType DEF Connect
<1>4. EventsTypeOK(Events)'
  BY <1>1, <1>2, <1>3, EventTypes, EmitOneType
<1>5. AcceptTypeOK'
  BY <1>1, <1>2, <1>3, AppendType DEF TypeOK, AcceptTypeOK
<1>6. MapTypeOK' /\ QuinnTypeOK'
  BY <1>1, <1>2, <1>3 DEF TypeOK, MapTypeOK, QuinnTypeOK
<1>7. LoopTypeOK' /\ HistoryTypeOK' /\ UNCHANGED <<opened, opening>>
  BY <1>2, <1>3, SameTypes DEF loopVars
<1>. QED
  BY <1>2, <1>4, <1>5, <1>6, <1>7, CommandFrame

LEMMA RegisterConnectionType ==
    ASSUME IndType, RegisterConnection
    PROVE  IndType'
<1>1. TypeOK /\ connReg \in Seq(AcceptEnds) /\ connReg # <<>>
      /\ connections' = connections \cup {Head(connReg)} /\ connReg' = Tail(connReg)
      /\ UNCHANGED <<peerVars, listening, backlog, streamReg, reliable, unreliable, known, loopVars,
                     quinnVars, net, historyVars>>
  BY DEF IndType, TypeOK, AcceptTypeOK, RegisterConnection
<1>2. Head(connReg) \in AcceptEnds /\ Tail(connReg) \in Seq(AcceptEnds)
  BY <1>1, HeadTailProperties
<1>3. AcceptTypeOK' /\ MapTypeOK'
  BY <1>1, <1>2, AcceptEndFacts DEF TypeOK, AcceptTypeOK, MapTypeOK
<1>4. UNCHANGED <<cmds, events, polled, next_stream_id, app, thread, opened, opening>>
  BY <1>1 DEF peerVars, quinnVars, loopVars
<1>. QED
  BY <1>1, <1>3, <1>4, SameTypes, TaskFrame

\* What the loop takes from the channel of streams.
LEMMA RegistrationHead ==
    ASSUME TypeOK, NEW p \in Peers, streamReg[p] # <<>>
    PROVE  \E r \in Registration(p) :
               /\ r = Head(streamReg[p]) /\ r.end \in EndsOf(p) /\ r.end \in Ends
               /\ Owner(r.end) = p /\ r.stream \in StreamId /\ <<r.end, r.stream>> \in Key
               /\ r.quic \in StreamsOf(r.end) \cup {NoStream}
               /\ Tail(streamReg[p]) \in Seq(Registration(p))
<1>1. /\ Head(streamReg[p]) \in Registration(p)
      /\ Tail(streamReg[p]) \in Seq(Registration(p))
  BY HeadTailProperties DEF TypeOK, MapTypeOK
<1>. QED
  BY <1>1, RegistrationParts, KeyFacts

\* A SendStream that is dropped was the end's own.
LEMMA DropsType ==
    ASSUME TypeOK, NEW e \in Ends, NEW q \in StreamsOf(e) \cup {NoStream}, Drops(e, q)
    PROVE  finished' \subseteq Halves
BY StreamHalves DEF Drops, TypeOK, QuinnTypeOK

LEMMA RegisterStreamType ==
    ASSUME IndType, NEW p \in Peers, RegisterStream(p)
    PROVE  IndType'
<1>1. TypeOK /\ streamReg[p] # <<>>
  BY DEF IndType, RegisterStream
<1>2. PICK r \in Registration(p) :
               /\ r = Head(streamReg[p]) /\ r.end \in EndsOf(p) /\ r.end \in Ends
               /\ Owner(r.end) = p /\ r.stream \in StreamId /\ <<r.end, r.stream>> \in Key
               /\ r.quic \in StreamsOf(r.end) \cup {NoStream}
               /\ Tail(streamReg[p]) \in Seq(Registration(p))
  BY <1>1, RegistrationHead
<1>3. PICK k \in Key : k = <<r.end, r.stream>> /\ k[1] = r.end
  BY <1>2, KeyFacts
<1>4. /\ streamReg' = [streamReg EXCEPT ![p] = Tail(@)]
      /\ IF r.quic # NoStream
         THEN /\ reliable' = [reliable EXCEPT ![k] = r.quic] /\ Drops(r.end, reliable[k])
              /\ UNCHANGED unreliable
         ELSE unreliable' = unreliable \cup {k} /\ UNCHANGED <<reliable, finished>>
      /\ \/ Emit(p, <<>>) \/ Emit(p, <<StreamCreated(r.end, r.stream)>>)
      /\ UNCHANGED <<cmds, polled, next_stream_id, app, thread, acceptVars, connections, known,
                     loopVars, conn, opened, taken, reading, pipe, net, historyVars>>
  BY <1>2, <1>3 DEF RegisterStream
<1>5. EventsTypeOK(Events)'
  BY <1>1, <1>2, <1>4, EventTypes, EmitOneType, EmitNoneType
<1>6. /\ reliable \in [Key -> QuicStream \cup {NoStream}]
      /\ reliable[k] \in StreamsOf(r.end) \cup {NoStream}
  BY <1>1, <1>3 DEF TypeOK, MapTypeOK
<1>7. MapTypeOK'
  <2>1. \A q \in Peers : streamReg'[q] \in Seq(Registration(q))
    BY <1>1, <1>2, <1>4 DEF TypeOK, MapTypeOK
  <2>2. /\ reliable' \in [Key -> QuicStream \cup {NoStream}]
        /\ \A l \in Key : reliable'[l] \in StreamsOf(l[1]) \cup {NoStream}
    <3>1. /\ r.quic \in QuicStream \cup {NoStream}
          /\ r.quic \in StreamsOf(k[1]) \cup {NoStream}
      BY <1>2, <1>3, RegistrationParts
    <3>2. reliable' = [reliable EXCEPT ![k] = r.quic] \/ reliable' = reliable
      BY <1>4
    <3>. QED
      BY <1>1, <3>1, <3>2 DEF TypeOK, MapTypeOK
  <2>. QED
    BY <1>1, <1>4, <2>1, <2>2 DEF TypeOK, MapTypeOK
<1>8. finished' \subseteq Halves
  BY <1>1, <1>2, <1>4, <1>6, DropsType DEF TypeOK, QuinnTypeOK
<1>9. QuinnTypeOK'
  BY <1>1, <1>4, <1>8 DEF TypeOK, QuinnTypeOK
<1>10. AcceptTypeOK' /\ LoopTypeOK' /\ HistoryTypeOK' /\ opening' = opening
  BY <1>1, <1>4, SameTypes DEF loopVars
<1>. QED
  BY <1>4, <1>5, <1>7, <1>9, <1>10, TaskFrame

LEMMA CloseStreamType ==
    ASSUME IndType, NEW p \in Peers, BackendCloseStream(p)
    PROVE  IndType'
<1>1. TypeOK /\ HandlesQuietly(p, "CloseStream") /\ cmds[p] # <<>>
  BY QuietType DEF IndType, BackendCloseStream
<1>2. PICK e \in Ends, s \in StreamId :
          e = HeadEnd(p) /\ s = Head(cmds[p]).stream /\ e \in EndsOf(p)
  BY <1>1, QuietType, HeadParts
<1>3. PICK k \in Key : k = <<e, s>> /\ k[1] = e
  BY KeyFacts
<1>4. /\ reliable' = [reliable EXCEPT ![k] = NoStream] /\ Drops(e, reliable[k])
      /\ unreliable' = unreliable \ {k} /\ Emit(p, <<StreamClosed(e, s)>>)
      /\ UNCHANGED <<acceptVars, streamReg, connections, known, loopVars, conn, opened, taken,
                     reading, pipe, net, historyVars>>
  BY <1>2, <1>3 DEF BackendCloseStream
<1>5. EventsTypeOK(Events)'
  BY <1>1, <1>2, <1>4, QuietType, EventTypes, EmitOneType
<1>6. MapTypeOK'
  BY <1>1, <1>4 DEF TypeOK, MapTypeOK
<1>7. reliable[k] \in StreamsOf(e) \cup {NoStream}
  BY <1>1, <1>3 DEF TypeOK, MapTypeOK
<1>8. finished' \subseteq Halves
  BY <1>1, <1>4, <1>7, DropsType
<1>9. QuinnTypeOK'
  BY <1>1, <1>4, <1>8 DEF TypeOK, QuinnTypeOK
<1>10. AcceptTypeOK' /\ LoopTypeOK' /\ HistoryTypeOK' /\ UNCHANGED <<opened, opening>>
  BY <1>1, <1>4, SameTypes DEF loopVars
<1>. QED
  BY <1>1, <1>5, <1>6, <1>9, <1>10, CommandFrame

\* A packet is accepted.
LEMMA AcceptsType ==
    ASSUME TypeOK, NEW e \in Ends, NEW m \in Packet, Accepts(e, m), UNCHANGED <<sent, delivered>>,
           net' \subseteq Ends \X Packet
    PROVE  HistoryTypeOK'
<1>1. PICK k \in Key : k = <<e, m.stream>>
  BY KeyFacts DEF Packet
<1>2. accepted' = [accepted EXCEPT ![k] = Append(@, m)] /\ accepted \in [Key -> Seq(Packet)]
  BY <1>1 DEF Accepts, TypeOK, HistoryTypeOK
<1>3. Append(accepted[k], m) \in Seq(Packet)
  BY <1>2, AppendType
<1>4. accepted' \in [Key -> Seq(Packet)]
  BY <1>2, <1>3
<1>. QED
  BY <1>4 DEF TypeOK, HistoryTypeOK

\* A frame is put into a window with room.
LEMMA PutType ==
    ASSUME TypeOK, NEW h \in Halves, NEW m \in Packet, Put(h, m), Len(pipe[h]) < Window,
           UNCHANGED <<conn, opened, taken, reading, finished, net, sent, delivered>>
    PROVE  QuinnTypeOK' /\ HistoryTypeOK'
<1>1. Writer(h) \in Ends /\ Accepts(Writer(h), m) /\ pipe' = [pipe EXCEPT ![h] = Append(@, m)]
  BY HalfFacts DEF Put
<1>2. HistoryTypeOK'
  BY <1>1, AcceptsType DEF TypeOK, HistoryTypeOK
<1>3. /\ pipe[h] \in Seq(Packet) /\ Len(pipe[h]) \in Nat /\ Window \in Nat
      /\ pipe \in [Halves -> Seq(Packet)]
  BY LenProperties, QuicAssumption DEF TypeOK, QuinnTypeOK
<1>4. Append(pipe[h], m) \in Seq(Packet) /\ Len(Append(pipe[h], m)) <= Window
  BY <1>3, AppendType
<1>5. pipe' \in [Halves -> Seq(Packet)] /\ \A g \in Halves : Len(pipe'[g]) <= Window
  BY <1>1, <1>3, <1>4 DEF TypeOK, QuinnTypeOK
<1>. QED
  BY <1>2, <1>5 DEF TypeOK, QuinnTypeOK

\* The half a Send of the loop is written to.
LEMMA SendHalf ==
    ASSUME TypeOK, NEW p \in Peers, SendsReliably(p)
    PROVE  /\ HalfOf(HeadKey(p)) \in Halves /\ HalfOf(HeadKey(p)) \in HalvesOf(p)
           /\ Writer(HalfOf(HeadKey(p))) = HeadEnd(p)
           /\ HeadPacket(p) \in Packet /\ HeadEnd(p) \in Ends /\ HeadKey(p) \in Key
           /\ HandlesQuietly(p, "Send")
<1>1. HandlesQuietly(p, "Send") /\ reliable[HeadKey(p)] # NoStream
  BY DEF SendsReliably
<1>2. /\ HeadEnd(p) \in Ends /\ Owner(HeadEnd(p)) = p /\ HeadPacket(p) \in Packet
      /\ HeadPacket(p).stream \in StreamId
  BY <1>1, QuietType, HeadParts
<1>3. HeadKey(p) \in Key /\ HeadKey(p)[1] = HeadEnd(p)
  BY <1>2, KeyFacts DEF HeadKey
<1>4. reliable[HeadKey(p)] \in StreamsOf(HeadEnd(p))
  BY <1>1, <1>3 DEF TypeOK, MapTypeOK
<1>. QED
  BY <1>1, <1>2, <1>3, <1>4, StreamHalves DEF HalfOf

LEMMA SendWrittenType ==
    ASSUME IndType, NEW p \in Peers, SendWritten(p)
    PROVE  IndType'
<1>1. TypeOK /\ SendsReliably(p) /\ Len(pipe[HalfOf(HeadKey(p))]) < Window
      /\ Put(HalfOf(HeadKey(p)), HeadPacket(p))
      /\ UNCHANGED <<events, acceptVars, mapVars, known, loopVars, conn, opened, taken, reading,
                     finished, net, sent, delivered>>
  BY DEF IndType, SendWritten
<1>2. /\ HalfOf(HeadKey(p)) \in Halves /\ HeadPacket(p) \in Packet /\ HandlesQuietly(p, "Send")
      /\ polled' = polled
  BY <1>1, SendHalf, QuietType
<1>3. QuinnTypeOK' /\ HistoryTypeOK'
  BY <1>1, <1>2, PutType
<1>4. /\ EventsTypeOK(Events)' /\ AcceptTypeOK' /\ MapTypeOK' /\ LoopTypeOK'
      /\ UNCHANGED <<opened, opening>>
  BY <1>1, <1>2, SameTypes DEF loopVars
<1>. QED
  BY <1>2, <1>3, <1>4, CommandFrame

LEMMA SendWaitsType ==
    ASSUME IndType, NEW p \in Peers, SendWaits(p)
    PROVE  IndType'
<1>1. TypeOK /\ SendsReliably(p)
      /\ UNCHANGED <<events, acceptVars, mapVars, known, opening, quinnVars, net, historyVars>>
  BY DEF IndType, SendWaits
<1>2. /\ HalfOf(HeadKey(p)) \in HalvesOf(p) /\ HeadPacket(p) \in Packet
      /\ HandlesQuietly(p, "Send") /\ polled' = polled
  BY <1>1, SendHalf, QuietType
<1>3. PICK w \in [half : HalvesOf(p), packet : Packet] : writing' = [writing EXCEPT ![p] = <<w>>]
  BY <1>2 DEF SendWaits
<1>4. LoopTypeOK'
  BY <1>1, <1>3 DEF TypeOK, LoopTypeOK, AtMostOne
<1>5. /\ EventsTypeOK(Events)' /\ AcceptTypeOK' /\ MapTypeOK' /\ QuinnTypeOK' /\ HistoryTypeOK'
      /\ UNCHANGED <<opened, opening>>
  BY <1>1, <1>2, SameTypes DEF quinnVars
<1>. QED
  BY <1>2, <1>4, <1>5, CommandFrame

\* What the loop is writing.
LEMMA WritingHead ==
    ASSUME TypeOK, NEW p \in Peers, writing[p] # <<>>
    PROVE  /\ Head(writing[p]).half \in Halves /\ Head(writing[p]).packet \in Packet
           /\ Writer(Head(writing[p]).half) \in EndsOf(p)
           /\ Writer(Head(writing[p]).half) \in Ends /\ Owner(Writer(Head(writing[p]).half)) = p
<1>1. PICK w \in [half : HalvesOf(p), packet : Packet] : writing[p] = <<w>>
  BY DEF TypeOK, LoopTypeOK, AtMostOne
<1>2. Head(writing[p]) = w
  BY <1>1
<1>3. w.half \in Halves /\ Owner(Writer(w.half)) = p /\ w.packet \in Packet
  BY DEF HalvesOf
<1>. QED
  BY <1>2, <1>3, HalfFacts, EndFacts

\* The loop has written what it awaited, or has given it up.
LEMMA WrittenType ==
    ASSUME TypeOK, NEW p \in Peers, writing' = [writing EXCEPT ![p] = <<>>], UNCHANGED opening
    PROVE  LoopTypeOK'
BY DEF TypeOK, LoopTypeOK, AtMostOne

LEMMA WriteResumesType ==
    ASSUME IndType, NEW p \in Peers, WriteResumes(p)
    PROVE  IndType'
<1>1. TypeOK /\ writing[p] # <<>> /\ writing' = [writing EXCEPT ![p] = <<>>]
      /\ UNCHANGED <<peerVars, acceptVars, mapVars, known, opening, conn, opened, taken, reading,
                     finished, net, sent, delivered>>
  BY DEF IndType, WriteResumes
<1>2. PICK h \in Halves, m \in Packet : h = Head(writing[p]).half /\ m = Head(writing[p]).packet
  BY <1>1, WritingHead
<1>3. Len(pipe[h]) < Window /\ Put(h, m)
  BY <1>2 DEF WriteResumes
<1>4. QuinnTypeOK' /\ HistoryTypeOK'
  BY <1>1, <1>3, PutType
<1>5. /\ EventsTypeOK(Events)' /\ AcceptTypeOK' /\ MapTypeOK' /\ LoopTypeOK'
      /\ UNCHANGED <<cmds, next_stream_id, app, thread>>
  BY <1>1, SameTypes, WrittenType DEF peerVars
<1>. QED
  BY <1>1, <1>4, <1>5, TaskFrame

LEMMA WriteFailsType ==
    ASSUME IndType, NEW p \in Peers, WriteFails(p)
    PROVE  IndType'
<1>1. TypeOK /\ writing[p] # <<>> /\ writing' = [writing EXCEPT ![p] = <<>>]
      /\ UNCHANGED <<cmds, polled, next_stream_id, app, thread, acceptVars, mapVars, known, opening,
                     quinnVars, net, historyVars>>
  BY DEF IndType, WriteFails
<1>2. PICK e \in EndsOf(p) : e = Writer(Head(writing[p]).half)
  BY <1>1, WritingHead
<1>3. Emit(p, <<SendFailed(e)>>)
  BY <1>2 DEF WriteFails
<1>4. EventsTypeOK(Events)'
  BY <1>1, <1>3, EventTypes, EmitOneType
<1>5. /\ AcceptTypeOK' /\ MapTypeOK' /\ LoopTypeOK' /\ QuinnTypeOK' /\ HistoryTypeOK'
      /\ UNCHANGED opened
  BY <1>1, SameTypes, WrittenType DEF quinnVars
<1>. QED
  BY <1>1, <1>4, <1>5, TaskFrame

LEMMA OtherSendsType ==
    ASSUME IndType, NEW p \in Peers, SendDropped(p) \/ SendDatagram(p) \/ SendFails(p)
    PROVE  IndType'
<1>1. TypeOK /\ HandlesQuietly(p, "Send")
  BY DEF IndType, SendDropped, SendDatagram, SendFails
<1>2. PICK e \in Ends, m \in Packet : e = HeadEnd(p) /\ m = HeadPacket(p) /\ e \in EndsOf(p)
  BY <1>1, QuietType, HeadParts
<1>3. polled' = polled
  BY <1>1, QuietType
<1>4. CASE SendDatagram(p)
  <2>1. /\ net' = net \cup {<<Other(e), m>>} /\ Accepts(e, m)
        /\ UNCHANGED <<events, acceptVars, mapVars, known, loopVars, quinnVars, sent, delivered>>
    BY <1>2, <1>4 DEF SendDatagram
  <2>2. HistoryTypeOK'
    BY <1>1, <2>1, EndFacts, AcceptsType DEF TypeOK, HistoryTypeOK
  <2>. QED
    BY <1>1, <1>3, <2>1, <2>2, SameTypes, CommandFrame DEF quinnVars, loopVars
<1>5. CASE SendDropped(p)
  <2>1. UNCHANGED <<events, quicVars>>
    BY <1>5 DEF SendDropped
  <2>. QED
    BY <1>1, <1>3, <2>1, SameTypes, CommandFrame DEF quicVars, quinnVars, loopVars
<1>6. CASE SendFails(p)
  <2>1. UNCHANGED quicVars /\ Emit(p, <<SendFailed(e)>>)
    BY <1>2, <1>6 DEF SendFails
  <2>2. EventsTypeOK(Events)'
    BY <1>1, <1>2, <1>3, <2>1, EventTypes, EmitOneType
  <2>. QED
    BY <1>1, <1>3, <2>1, <2>2, SameTypes, CommandFrame DEF quicVars, quinnVars, loopVars
<1>. QED
  BY <1>4, <1>5, <1>6

-------------------------------------------------------------------------------
(* The types are kept: streams are opened                                  *)

LEMMA OpenType ==
    ASSUME TypeOK, NEW p \in Peers, NEW e \in EndsOf(p), NEW i \in StreamId,
           Len(opened[e]) < MaxStreams, OpenStream(p, e, i)
    PROVE  /\ AcceptTypeOK' /\ MapTypeOK' /\ QuinnTypeOK' /\ HistoryTypeOK'
           /\ Len(opened'[e]) = Len(opened[e]) + 1 /\ Len(opened[e]) \in Nat
           /\ \A f \in Ends \ {e} : opened'[f] = opened[f]
<1>1. e \in Ends /\ Owner(e) = p /\ opened[e] \in Seq(StreamId) /\ Len(opened[e]) \in Nat
  BY EndsOfFacts, LenProperties DEF TypeOK, QuinnTypeOK
<1>2. PICK n \in Nat : n = Len(opened[e]) + 1 /\ n <= MaxStreams
  BY <1>1, MaxStreamsAssumption
<1>3. PICK q : q = <<e, n>>
  OBVIOUS
<1>4. q \in StreamsOf(e) /\ q[1] = e /\ q[2] = n
  <2>1. <<e, Len(opened[e]) + 1>> \in StreamsOf(e)
    BY <1>1, <1>2, NextStream
  <2>. QED
    BY <1>2, <1>3, <2>1
<1>5. PICK h \in Halves : h = <<q, Other(e)>> /\ h[1] = q
  BY <1>1, <1>4, StreamHalves
<1>6. PICK r \in Registration(p) : r = [end |-> e, stream |-> NewStream(i, "Reliable"), quic |-> q]
  <2>1. NewStream(i, "Reliable") \in StreamId
    BY NewHandle DEF Reliability
  <2>. QED
    BY <1>4, <2>1, RegistrationMembers
<1>7. /\ opened' = [opened EXCEPT ![e] = Append(@, i)]
      /\ streamReg' = [streamReg EXCEPT ![p] = Append(@, r)]
      /\ reading' = [reading EXCEPT ![h] = "running"]
      /\ UNCHANGED <<acceptVars, connections, reliable, unreliable, known, writing, conn, taken,
                     pipe, finished, net, historyVars>>
  BY <1>2, <1>3, <1>4, <1>5, <1>6 DEF OpenStream
<1>8. MapTypeOK'
  BY <1>7, RegistersType DEF TypeOK, MapTypeOK
<1>9. Append(opened[e], i) \in Seq(StreamId) /\ Len(Append(opened[e], i)) = n
  BY <1>1, <1>2, AppendType
<1>10. DOMAIN opened = Ends /\ \A f \in Ends : opened[f] \in Seq(StreamId) /\ Len(opened[f]) <= MaxStreams
  BY DEF TypeOK, QuinnTypeOK
<1>11. /\ opened'[e] = Append(opened[e], i) /\ DOMAIN opened' = Ends
       /\ \A f \in Ends \ {e} : opened'[f] = opened[f]
  BY <1>1, <1>7, <1>10
<1>12. \A f \in Ends : Len(opened[f]) \in Nat
  BY <1>10, LenProperties
<1>13. \A f \in Ends : /\ opened'[f] \in Seq(StreamId) /\ Len(opened'[f]) <= MaxStreams
                       /\ Len(opened'[f]) \in Nat /\ Len(opened[f]) <= Len(opened'[f])
  <2> SUFFICES ASSUME NEW f \in Ends
               PROVE  /\ opened'[f] \in Seq(StreamId) /\ Len(opened'[f]) <= MaxStreams
                      /\ Len(opened'[f]) \in Nat /\ Len(opened[f]) <= Len(opened'[f])
    OBVIOUS
  <2>1. CASE f = e
    <3>1. PICK s \in Seq(StreamId) : s = opened'[e] /\ Len(s) = n
      BY <1>9, <1>11
    <3>2. n \in Nat /\ Len(opened[e]) <= n
      BY <1>1, <1>2
    <3>. QED
      BY <1>2, <2>1, <3>1, <3>2
  <2>2. CASE f # e
    BY <1>10, <1>11, <1>12, <2>2
  <2>. QED
    BY <2>1, <2>2
<1>14. \A f \in Ends : taken[f] <= Len(opened'[Other(f)])
  BY <1>12, <1>13, EndFacts DEF TypeOK, QuinnTypeOK
<1>15. \A f \in Ends : DOMAIN opened[f] = 1 .. Len(opened[f]) /\ DOMAIN opened'[f] = 1 .. Len(opened'[f])
  BY <1>10, <1>13, LenProperties
<1>16. ASSUME NEW g \in Halves, reading'[g] = "running" PROVE g[1][2] \in DOMAIN opened'[g[1][1]]
  <2>1. CASE g = h
    <3>1. h[1][1] = e /\ h[1][2] = n /\ Len(opened'[e]) = n
      BY <1>3, <1>4, <1>5, <1>9, <1>11
    <3>. QED
      BY <1>1, <1>2, <1>15, <2>1, <3>1
  <2>2. CASE g # h
    <3>1. reading[g] = "running"
      BY <1>7, <1>16, <2>2 DEF TypeOK, QuinnTypeOK
    <3>2. g[1][2] \in DOMAIN opened[g[1][1]] /\ g[1][1] \in Ends
      BY <3>1, HalfFacts DEF TypeOK, QuinnTypeOK
    <3>. QED
      BY <1>12, <1>13, <1>15, <3>2
  <2>. QED
    BY <2>1, <2>2
<1>17. reading' \in [Halves -> {"none", "running", "done"}]
  BY <1>7 DEF TypeOK, QuinnTypeOK
<1>18. QuinnTypeOK'
  BY <1>7, <1>11, <1>13, <1>14, <1>16, <1>17 DEF TypeOK, QuinnTypeOK
<1>. QED
  BY <1>1, <1>2, <1>7, <1>8, <1>9, <1>11, <1>18, SameTypes

\* What the loop awaits a stream for.
LEMMA OpeningHead ==
    ASSUME TypeOK, NEW p \in Peers, opening[p] # <<>>
    PROVE  /\ Head(opening[p]).end \in EndsOf(p) /\ Head(opening[p]).end \in Ends
           /\ Owner(Head(opening[p]).end) = p /\ Head(opening[p]).index \in StreamId
<1>1. PICK w \in [end : EndsOf(p), index : StreamId] : opening[p] = <<w>>
  BY DEF TypeOK, LoopTypeOK, AtMostOne
<1>2. Head(opening[p]) = w
  BY <1>1
<1>. QED
  BY <1>2, EndsOfFacts

\* A command to open a stream is one of those that are counted.
LEMMA CreateHead ==
    ASSUME IndType, NEW p \in Peers, NEW type, HandlesQuietly(p, type), type = "CreateStream",
           Head(cmds[p]).reliability = "Reliable", NEW e, e = Head(cmds[p]).conn
    PROVE  /\ e \in EndsOf(p) /\ Head(cmds[p]).index \in StreamId
           /\ Count(cmds'[p], Creates(e)) + 1 = Count(cmds[p], Creates(e))
           /\ Count(cmds'[p], Creates(e)) \in Nat
           /\ \A f \in Ends : Owner(f) = p =>
                  Count(cmds'[p], Creates(f)) <= Count(cmds[p], Creates(f))
           /\ \A q \in Peers \ {p} : cmds'[q] = cmds[q]
           /\ opening[p] = <<>> /\ Len(opened[e]) < MaxStreams
<1>1. TypeOK /\ cmds[p] # <<>> /\ cmds' = [cmds EXCEPT ![p] = Tail(@)] /\ opening[p] = <<>>
      /\ Head(cmds[p]) \in Commands[p] /\ Head(cmds[p]).type = "CreateStream"
      /\ \A q \in Peers \ {p} : cmds'[q] = cmds[q]
  BY QuietType DEF IndType, TakeCommand
<1>2. cmds[p] \in Seq(Commands[p]) /\ cmds'[p] = Tail(cmds[p])
  BY <1>1 DEF TypeOK, PeerTypeOK, CommandsTypeOK
<1>3. e \in EndsOf(p) /\ Head(cmds[p]).index \in StreamId
  BY <1>1, HeadParts DEF HeadEnd
<1>4. Head(cmds[p]) \in Creates(e)
  BY <1>1 DEF Creates, Commands, Command, BindCmd, ConnectCmd, ShutdownCmd, SendCmd,
              CreateStreamCmd, CloseStreamCmd
<1>5. ASSUME NEW X
      PROVE  /\ Count(cmds'[p], X) \in Nat
             /\ Count(cmds[p], X) = Count(cmds'[p], X) + (IF Head(cmds[p]) \in X THEN 1 ELSE 0)
  <2>1. Tail(cmds[p]) \in Seq(Commands[p])
    BY <1>1, <1>2, HeadTailProperties
  <2>. QED
    BY <1>1, <1>2, <2>1, CountTail, CountType
<1>6. \A f \in Ends : Count(cmds'[p], Creates(f)) <= Count(cmds[p], Creates(f))
  BY <1>5
<1>7. /\ Count(cmds'[p], Creates(e)) + 1 = Count(cmds[p], Creates(e))
      /\ Count(cmds'[p], Creates(e)) \in Nat
  BY <1>4, <1>5
<1>8. Len(opened[e]) < MaxStreams
  <2>1. e \in Ends /\ Owner(e) = p /\ Asked(e) <= next_stream_id[p]
    BY <1>3, EndsOfFacts DEF IndType, CreatesOK
  <2>2. Len(opened[e]) \in Nat /\ Opening(e) \in Nat /\ next_stream_id[p] \in 0 .. MaxStreams
    BY <1>1, <2>1, AskedType
  <2>3. Asked(e) = Len(opened[e]) + Opening(e) + Count(cmds[p], Creates(e))
    BY <2>1 DEF Asked
  <2>. QED
    BY <1>7, <2>1, <2>2, <2>3, MaxStreamsAssumption
<1>. QED
  BY <1>1, <1>3, <1>6, <1>7, <1>8

LEMMA CreateReliableType ==
    ASSUME IndType, NEW p \in Peers, CreateReliable(p)
    PROVE  IndType'
<1>1. TypeOK /\ HandlesQuietly(p, "CreateStream") /\ UNCHANGED <<events, opening>>
      /\ Head(cmds[p]).reliability = "Reliable"
      /\ OpenStream(p, Head(cmds[p]).conn, Head(cmds[p]).index)
  BY DEF IndType, CreateReliable
<1>2. PICK e \in EndsOf(p) :
          /\ e = Head(cmds[p]).conn /\ Len(opened[e]) < MaxStreams /\ opening[p] = <<>>
          /\ Count(cmds'[p], Creates(e)) + 1 = Count(cmds[p], Creates(e))
          /\ Count(cmds'[p], Creates(e)) \in Nat
          /\ \A f \in Ends : Owner(f) = p =>
                  Count(cmds'[p], Creates(f)) <= Count(cmds[p], Creates(f))
          /\ \A q \in Peers \ {p} : cmds'[q] = cmds[q]
  BY <1>1, CreateHead
<1>3. PICK i \in StreamId : i = Head(cmds[p]).index
  BY <1>1, CreateHead
<1>4. /\ AcceptTypeOK' /\ MapTypeOK' /\ QuinnTypeOK' /\ HistoryTypeOK'
      /\ Len(opened'[e]) = Len(opened[e]) + 1 /\ Len(opened[e]) \in Nat
      /\ \A f \in Ends \ {e} : opened'[f] = opened[f]
  BY <1>1, <1>2, <1>3, OpenType
<1>5. /\ UNCHANGED <<writing, next_stream_id>> /\ CommandsTypeOK(Commands)' /\ ThreadsTypeOK'
      /\ EventsTypeOK(Events)'
  BY <1>1, QuietType, SameTypes DEF OpenStream
<1>6. LoopTypeOK'
  BY <1>1, <1>5, SameTypes DEF loopVars
<1>7. TypeOK'
  BY <1>4, <1>5, <1>6 DEF TypeOK, PeerTypeOK
<1>8. e \in Ends /\ Owner(e) = p
  BY EndsOfFacts
<1>9. \A f \in Ends : Opening(f)' = Opening(f) /\ Opening(f) \in Nat /\ Len(opened[f]) \in Nat
  BY <1>1, AskedType DEF Opening
<1>10. ASSUME NEW f \in Ends, Owner(f) = p PROVE Asked(f)' <= Asked(f)
  <2>9. cmds[p] \in Seq(Commands[p]) /\ cmds'[p] \in Seq(Commands[p])
    BY <1>1, <1>7 DEF TypeOK, PeerTypeOK, CommandsTypeOK
  <2>1. Count(cmds[p], Creates(f)) \in Nat /\ Count(cmds'[p], Creates(f)) \in Nat
    BY <2>9, CountType
  <2>2. Asked(f)' = Len(opened'[f]) + Opening(f) + Count(cmds'[p], Creates(f))
    BY <1>9, <1>10 DEF Asked, Count, At
  <2>3. CASE f = e
    BY <1>2, <1>4, <1>9, <1>10, <2>1, <2>2, <2>3 DEF Asked
  <2>4. CASE f # e
    BY <1>2, <1>4, <1>9, <1>10, <2>1, <2>2, <2>4 DEF Asked
  <2>. QED
    BY <2>3, <2>4
<1>11. ASSUME NEW f \in Ends, Owner(f) # p PROVE UNCHANGED <<opened[f], Opening(f), cmds[Owner(f)]>>
  BY <1>2, <1>4, <1>8, <1>9, <1>11, EndFacts
<1>. QED
  BY <1>5, <1>7, <1>10, <1>11, CreatesFrame DEF IndType

LEMMA CreateWaitsType ==
    ASSUME IndType, NEW p \in Peers, CreateWaits(p)
    PROVE  IndType'
<1>1. TypeOK /\ HandlesQuietly(p, "CreateStream") /\ Head(cmds[p]).reliability = "Reliable"
      /\ opening' = [opening EXCEPT ![p] =
                        <<[end |-> Head(cmds[p]).conn, index |-> Head(cmds[p]).index]>>]
      /\ UNCHANGED <<events, acceptVars, mapVars, known, writing, quinnVars, net, historyVars>>
  BY DEF IndType, CreateWaits
<1>2. PICK e \in EndsOf(p) :
          /\ e = Head(cmds[p]).conn /\ Len(opened[e]) < MaxStreams /\ opening[p] = <<>>
          /\ Count(cmds'[p], Creates(e)) + 1 = Count(cmds[p], Creates(e))
          /\ Count(cmds'[p], Creates(e)) \in Nat
          /\ \A f \in Ends : Owner(f) = p =>
                  Count(cmds'[p], Creates(f)) <= Count(cmds[p], Creates(f))
          /\ \A q \in Peers \ {p} : cmds'[q] = cmds[q]
  BY <1>1, CreateHead
<1>3. PICK w \in [end : EndsOf(p), index : StreamId] :
          w = [end |-> Head(cmds[p]).conn, index |-> Head(cmds[p]).index]
  BY <1>1, <1>2, CreateHead
<1>4. opening' = [opening EXCEPT ![p] = <<w>>] /\ w.end = e
  BY <1>1, <1>2, <1>3
<1>5. LoopTypeOK' /\ opening'[p] = <<w>> /\ \A q \in Peers \ {p} : opening'[q] = opening[q]
  BY <1>1, <1>4 DEF TypeOK, LoopTypeOK, AtMostOne
<1>6. /\ UNCHANGED <<opened, next_stream_id>> /\ CommandsTypeOK(Commands)' /\ ThreadsTypeOK'
      /\ EventsTypeOK(Events)' /\ AcceptTypeOK' /\ MapTypeOK' /\ QuinnTypeOK' /\ HistoryTypeOK'
  BY <1>1, QuietType, SameTypes DEF quinnVars
<1>7. TypeOK'
  BY <1>5, <1>6 DEF TypeOK, PeerTypeOK
<1>8. e \in Ends /\ Owner(e) = p
  BY EndsOfFacts
<1>9. \A f \in Ends : Owner(f) = p => /\ Opening(f) = 0
                                      /\ Opening(f)' = (IF f = e THEN 1 ELSE 0)
  <2>1. opening'[p] # <<>> /\ Head(opening'[p]).end = e
    BY <1>4, <1>5
  <2>. QED
    BY <1>2, <2>1 DEF Opening
<1>10. ASSUME NEW f \in Ends, Owner(f) = p PROVE Asked(f)' <= Asked(f)
  <2>9. cmds[p] \in Seq(Commands[p]) /\ cmds'[p] \in Seq(Commands[p])
    BY <1>1, <1>7 DEF TypeOK, PeerTypeOK, CommandsTypeOK
  <2>1. /\ Count(cmds[p], Creates(f)) \in Nat /\ Count(cmds'[p], Creates(f)) \in Nat
        /\ Len(opened[f]) \in Nat
    BY <1>1, <2>9, CountType, AskedType
  <2>2. Asked(f)' = Len(opened[f]) + (IF f = e THEN 1 ELSE 0) + Count(cmds'[p], Creates(f))
    BY <1>6, <1>9, <1>10 DEF Asked, Count, At
  <2>3. Asked(f) = Len(opened[f]) + 0 + Count(cmds[p], Creates(f))
    BY <1>9, <1>10 DEF Asked
  <2>4. CASE f = e
    BY <1>2, <2>1, <2>2, <2>3, <2>4
  <2>5. CASE f # e
    BY <1>2, <1>10, <2>1, <2>2, <2>3, <2>5
  <2>. QED
    BY <2>4, <2>5
<1>11. ASSUME NEW f \in Ends, Owner(f) # p PROVE UNCHANGED <<opened[f], Opening(f), cmds[Owner(f)]>>
  BY <1>2, <1>5, <1>6, <1>11, EndFacts DEF Opening
<1>. QED
  BY <1>6, <1>7, <1>10, <1>11, CreatesFrame DEF IndType

LEMMA CreateResumesType ==
    ASSUME IndType, NEW p \in Peers, CreateResumes(p)
    PROVE  IndType'
<1>1. TypeOK /\ opening[p] # <<>> /\ opening' = [opening EXCEPT ![p] = <<>>]
      /\ OpenStream(p, Head(opening[p]).end, Head(opening[p]).index) /\ UNCHANGED peerVars
  BY DEF IndType, CreateResumes
<1>2. PICK e \in EndsOf(p), i \in StreamId :
          e = Head(opening[p]).end /\ i = Head(opening[p]).index
  BY <1>1, OpeningHead
<1>3. e \in Ends /\ Owner(e) = p
  BY EndsOfFacts
<1>4. \A f \in Ends : Owner(f) = p => Opening(f) = IF f = e THEN 1 ELSE 0
  BY <1>1, <1>2 DEF Opening
<1>5. Len(opened[e]) < MaxStreams
  <2>1. Opening(e) = 1 /\ Asked(e) <= next_stream_id[p]
    BY <1>3, <1>4 DEF IndType, CreatesOK
  <2>2. /\ Len(opened[e]) \in Nat /\ Count(cmds[p], Creates(e)) \in Nat
        /\ next_stream_id[p] \in 0 .. MaxStreams
    BY <1>1, <1>3, AskedType
  <2>. QED
    BY <1>3, <2>1, <2>2, MaxStreamsAssumption DEF Asked
<1>6. /\ AcceptTypeOK' /\ MapTypeOK' /\ QuinnTypeOK' /\ HistoryTypeOK'
      /\ Len(opened'[e]) = Len(opened[e]) + 1 /\ Len(opened[e]) \in Nat
      /\ \A f \in Ends \ {e} : opened'[f] = opened[f]
  BY <1>1, <1>2, <1>5, OpenType
<1>7. writing' = writing /\ PeerTypeOK(Commands, Events)' /\ UNCHANGED <<cmds, next_stream_id>>
  BY <1>1, SameTypes DEF OpenStream, peerVars
<1>8. LoopTypeOK' /\ opening'[p] = <<>> /\ \A q \in Peers \ {p} : opening'[q] = opening[q]
  BY <1>1, <1>7 DEF TypeOK, LoopTypeOK, AtMostOne
<1>9. TypeOK'
  BY <1>6, <1>7, <1>8 DEF TypeOK
<1>10. ASSUME NEW f \in Ends, Owner(f) = p PROVE Asked(f)' <= Asked(f)
  <2>1. Len(opened[f]) \in Nat /\ Count(cmds[p], Creates(f)) \in Nat
    BY <1>1, <1>10, AskedType
  <2>2. Opening(f)' = 0
    BY <1>8, <1>10 DEF Opening
  <2>3. Asked(f)' = Len(opened'[f]) + 0 + Count(cmds[p], Creates(f))
    BY <1>7, <1>10, <2>2 DEF Asked, Count, At
  <2>4. Asked(f) = Len(opened[f]) + (IF f = e THEN 1 ELSE 0) + Count(cmds[p], Creates(f))
    BY <1>4, <1>10 DEF Asked
  <2>5. CASE f = e
    BY <1>6, <2>1, <2>3, <2>4, <2>5
  <2>6. CASE f # e
    BY <1>6, <2>1, <2>3, <2>4, <2>6
  <2>. QED
    BY <2>5, <2>6
<1>11. ASSUME NEW f \in Ends, Owner(f) # p PROVE UNCHANGED <<opened[f], Opening(f), cmds[Owner(f)]>>
  BY <1>3, <1>6, <1>7, <1>8, <1>11, EndFacts DEF Opening
<1>. QED
  BY <1>7, <1>9, <1>10, <1>11, CreatesFrame DEF IndType

LEMMA CreateOthersType ==
    ASSUME IndType, NEW p \in Peers, CreateDropped(p) \/ CreateUnreliable(p)
    PROVE  IndType'
<1>1. TypeOK /\ HandlesQuietly(p, "CreateStream") /\ UNCHANGED events
  BY DEF IndType, CreateDropped, CreateUnreliable
<1>2. polled' = polled /\ cmds[p] # <<>> /\ Head(cmds[p]).type = "CreateStream"
  BY <1>1, QuietType
<1>3. CASE CreateDropped(p)
  <2>1. UNCHANGED quicVars
    BY <1>3 DEF CreateDropped
  <2>. QED
    BY <1>1, <1>2, <2>1, SameTypes, CommandFrame DEF quicVars, quinnVars, loopVars
<1>4. CASE CreateUnreliable(p)
  <2>1. /\ Head(cmds[p]).conn \in EndsOf(p) /\ Head(cmds[p]).index \in StreamId
        /\ Head(cmds[p]).reliability \in Reliability
    BY <1>1, <1>2, HeadParts DEF HeadEnd
  <2>2. NewStream(Head(cmds[p]).index, Head(cmds[p]).reliability) \in StreamId
    BY <2>1, NewHandle
  <2>3. PICK r \in Registration(p) :
            r = [end |-> Head(cmds[p]).conn, quic |-> NoStream,
                 stream |-> NewStream(Head(cmds[p]).index, Head(cmds[p]).reliability)]
    BY <2>1, <2>2, RegistrationMembers
  <2>4. /\ streamReg' = [streamReg EXCEPT ![p] = Append(@, r)]
        /\ UNCHANGED <<acceptVars, connections, reliable, unreliable, known, loopVars, quinnVars,
                       net, historyVars>>
    BY <1>4, <2>3 DEF CreateUnreliable
  <2>5. MapTypeOK'
    BY <1>1, <2>4, RegistersType DEF TypeOK, MapTypeOK
  <2>. QED
    BY <1>1, <1>2, <2>4, <2>5, SameTypes, CommandFrame DEF quinnVars, loopVars
<1>. QED
  BY <1>3, <1>4

-------------------------------------------------------------------------------
(* The types are kept: the accept task and the readers                     *)

LEMMA AcceptType ==
    ASSUME IndType, Accept
    PROVE  IndType'
<1>1. /\ TypeOK /\ backlog \in Seq(AcceptEnds) /\ connReg \in Seq(AcceptEnds) /\ backlog # <<>>
      /\ Server \in Peers
  BY ServerIsPeer DEF IndType, TypeOK, AcceptTypeOK, Accept
<1>2. PICK e \in AcceptEnds : e = Head(backlog)
  BY <1>1, HeadTailProperties
<1>3. /\ conn' = [conn EXCEPT ![e] = "up"] /\ connReg' = Append(connReg, e)
      /\ backlog' = Tail(backlog) /\ Emit(Server, <<Connected(e)>>)
      /\ UNCHANGED <<cmds, polled, next_stream_id, app, thread, listening, mapVars, known, loopVars,
                     opened, taken, reading, pipe, finished, net, historyVars>>
  BY <1>2 DEF Accept
<1>4. e \in Ends /\ e \in EndsOf(Server)
  BY AcceptEndFacts
<1>5. EventsTypeOK(Events)'
  BY <1>1, <1>3, <1>4, EventTypes, EmitOneType
<1>6. Tail(backlog) \in Seq(AcceptEnds) /\ Append(connReg, e) \in Seq(AcceptEnds)
  BY <1>1, HeadTailProperties, AppendType
<1>7. AcceptTypeOK' /\ QuinnTypeOK'
  BY <1>1, <1>3, <1>4, <1>6 DEF TypeOK, AcceptTypeOK, QuinnTypeOK
<1>8. MapTypeOK' /\ LoopTypeOK' /\ HistoryTypeOK' /\ opening' = opening
  BY <1>1, <1>3, SameTypes DEF loopVars
<1>. QED
  BY <1>3, <1>5, <1>7, <1>8, TaskFrame

LEMMA HandshakeFailsType ==
    ASSUME IndType, HandshakeFails
    PROVE  IndType'
<1>1. TypeOK /\ Server \in Peers
  BY ServerIsPeer DEF IndType
<1>2. CASE Stop(Server) /\ app' = [app EXCEPT ![Server] = "dead"]
  BY <1>1, <1>2, StopsType DEF StopsOrDies
<1>3. CASE /\ listening' = FALSE /\ backlog' = <<>>
           /\ UNCHANGED <<peerVars, connReg, mapVars, known, loopVars, quinnVars, net, historyVars>>
  <2>1. AcceptTypeOK'
    BY <1>1, <1>3, EmptySeq DEF TypeOK, AcceptTypeOK
  <2>2. UNCHANGED <<cmds, events, polled, next_stream_id, app, thread, opened, opening>>
    BY <1>3 DEF peerVars, quinnVars, loopVars
  <2>. QED
    BY <1>1, <1>3, <2>1, <2>2, SameTypes, TaskFrame
<1>. QED
  BY <1>2, <1>3 DEF HandshakeFails

LEMMA ReadDatagramType ==
    ASSUME IndType, NEW d \in net, ReadDatagram(d[1], d[2])
    PROVE  IndType'
<1>1. TypeOK /\ d \in Ends \X Packet
  BY DEF IndType, TypeOK, HistoryTypeOK
<1>2. PICK e \in Ends, m \in Packet : e = d[1] /\ m = d[2]
  BY <1>1
<1>3. PICK p \in Peers : p = Owner(e) /\ e \in EndsOf(p)
  BY EndFacts
<1>4. /\ net' = net \ {<<e, m>>} /\ known' = [known EXCEPT ![e] = @ \cup {m.stream}]
      /\ Emit(p, <<Message(e, m)>>)
      /\ UNCHANGED <<cmds, polled, next_stream_id, app, thread, acceptVars, connections, reliable,
                     unreliable, loopVars, quinnVars, historyVars>>
  BY <1>2, <1>3 DEF ReadDatagram
<1>5. m.stream \in StreamId
  BY DEF Packet
<1>6. PICK r \in Registration(p) : r = [end |-> e, stream |-> m.stream, quic |-> NoStream]
  BY <1>3, <1>5, RegistrationMembers
<1>7. streamReg' = streamReg \/ streamReg' = [streamReg EXCEPT ![p] = Append(@, r)]
  BY <1>2, <1>3, <1>6 DEF ReadDatagram
<1>8. known' \in [Ends -> SUBSET StreamId]
  BY <1>1, <1>4, <1>5 DEF TypeOK, MapTypeOK
<1>9. MapTypeOK'
  <2>1. CASE streamReg' = streamReg
    BY <1>1, <1>4, <1>8, <2>1 DEF TypeOK, MapTypeOK
  <2>2. CASE streamReg' = [streamReg EXCEPT ![p] = Append(@, r)]
    BY <1>1, <1>4, <1>8, <2>2, RegistersType
  <2>. QED
    BY <1>7, <2>1, <2>2
<1>10. EventsTypeOK(Events)'
  BY <1>1, <1>3, <1>4, EventTypes, EmitOneType
<1>11. HistoryTypeOK'
  BY <1>1, <1>4 DEF TypeOK, HistoryTypeOK, historyVars
<1>12. AcceptTypeOK' /\ LoopTypeOK' /\ QuinnTypeOK' /\ UNCHANGED <<opened, opening>>
  BY <1>1, <1>4, SameTypes DEF loopVars, quinnVars
<1>. QED
  BY <1>4, <1>9, <1>10, <1>11, <1>12, TaskFrame

\* The stream an end accepts next, and the half it reads of it.
LEMMA NextTaken ==
    ASSUME TypeOK, NEW e \in Ends, taken[e] < Len(opened[Other(e)])
    PROVE  \E q \in StreamsOf(e), h \in Halves :
               /\ q = <<Other(e), taken[e] + 1>> /\ h = <<q, Other(e)>>
               /\ q[2] \in DOMAIN opened[Other(e)] /\ opened[Other(e)][q[2]] \in StreamId
               /\ q[1] = Other(e) /\ q[2] = taken[e] + 1 /\ h[1] = q /\ Reader(h) = e
<1>1. /\ Other(e) \in Ends /\ Other(Other(e)) = e /\ taken[e] \in Nat
      /\ opened[Other(e)] \in Seq(StreamId) /\ Len(opened[Other(e)]) <= MaxStreams
  BY EndFacts DEF TypeOK, QuinnTypeOK
<1>2. PICK o \in Ends, s \in Seq(StreamId) :
          /\ o = Other(e) /\ s = opened[o] /\ Len(s) \in Nat
          /\ taken[e] < Len(s) /\ Len(s) <= MaxStreams
  BY <1>1, LenProperties
<1>3. PICK n \in Nat : n = taken[e] + 1 /\ n \in 1 .. Len(s) /\ taken[e] < MaxStreams
  BY <1>1, <1>2, MaxStreamsAssumption
<1>4. n \in DOMAIN s /\ s[n] \in StreamId
  BY <1>2, <1>3, LenProperties, ElementOfSeq
<1>5. <<o, taken[e] + 1>> \in StreamsOf(e)
  BY <1>1, <1>2, <1>3, NextStream
<1>6. PICK q : q = <<o, n>>
  OBVIOUS
<1>7. q \in StreamsOf(e) /\ q[1] = o /\ q[2] = n
  BY <1>3, <1>5, <1>6
<1>8. PICK h : h = <<q, o>>
  OBVIOUS
<1>9. h \in Halves /\ h[1] = q /\ Reader(h) = e
  BY <1>2, <1>7, <1>8, StreamHalves
<1>. QED
  BY <1>2, <1>3, <1>4, <1>6, <1>7, <1>8, <1>9

LEMMA AcceptStreamType ==
    ASSUME IndType, NEW e \in Ends, AcceptStream(e)
    PROVE  IndType'
<1>1. TypeOK /\ taken[e] < Len(opened[Other(e)])
  BY DEF IndType, AcceptStream
<1>2. PICK q \in StreamsOf(e), h \in Halves :
               /\ q = <<Other(e), taken[e] + 1>> /\ h = <<q, Other(e)>>
               /\ q[2] \in DOMAIN opened[Other(e)] /\ opened[Other(e)][q[2]] \in StreamId
               /\ q[1] = Other(e) /\ q[2] = taken[e] + 1 /\ h[1] = q /\ Reader(h) = e
  BY <1>1, NextTaken
<1>3. PICK p \in Peers, s \in StreamId :
          p = Owner(e) /\ e \in EndsOf(p) /\ s = NewStream(opened[Other(e)][q[2]], "Reliable")
  BY <1>2, EndFacts, NewHandle DEF Reliability
<1>4. PICK r \in Registration(p) : r = [end |-> e, stream |-> s, quic |-> q]
  BY <1>3, RegistrationMembers
<1>5. /\ taken' = [taken EXCEPT ![e] = @ + 1]
      /\ streamReg' = [streamReg EXCEPT ![p] = Append(@, r)]
      /\ reading' = [reading EXCEPT ![h] = "running"]
      /\ UNCHANGED <<peerVars, acceptVars, connections, reliable, unreliable, known, loopVars, conn,
                     opened, pipe, finished, net, historyVars>>
  BY <1>2, <1>3, <1>4 DEF AcceptStream
<1>6. MapTypeOK'
  BY <1>1, <1>5, RegistersType DEF TypeOK, MapTypeOK
<1>7. /\ taken[e] \in Nat /\ Len(opened[Other(e)]) \in Nat
  BY <1>1, EndFacts, LenProperties DEF TypeOK, QuinnTypeOK
<1>8. taken' \in [Ends -> Nat] /\ \A f \in Ends : taken'[f] <= Len(opened[Other(f)])
  BY <1>1, <1>5, <1>7 DEF TypeOK, QuinnTypeOK
<1>9. /\ reading' \in [Halves -> {"none", "running", "done"}]
      /\ \A g \in Halves : reading'[g] = "running" => g[1][2] \in DOMAIN opened[g[1][1]]
  BY <1>1, <1>2, <1>5 DEF TypeOK, QuinnTypeOK
<1>10. QuinnTypeOK'
  BY <1>1, <1>5, <1>8, <1>9 DEF TypeOK, QuinnTypeOK
<1>11. /\ EventsTypeOK(Events)' /\ AcceptTypeOK' /\ LoopTypeOK' /\ HistoryTypeOK'
       /\ UNCHANGED <<cmds, next_stream_id, app, thread, opened, opening>>
  BY <1>1, <1>5, SameTypes DEF peerVars, loopVars
<1>. QED
  BY <1>6, <1>10, <1>11, TaskFrame

\* What a reading loop gives to its application.
LEMMA FrameParts ==
    ASSUME TypeOK, NEW h \in Halves, ReadFrame(h)
    PROVE  \E e \in Ends, m \in Packet :
               /\ e = Reader(h) /\ m = [Head(pipe[h]) EXCEPT !.stream = HandleOf(h)]
               /\ m.stream = HandleOf(h) /\ m.stream \in StreamId
               /\ reading[h] = "running" /\ pipe[h] # <<>>
               /\ pipe' = [pipe EXCEPT ![h] = Tail(@)]
               /\ delivered' = [delivered EXCEPT ![<<e, m.stream>>] = Append(@, m)]
               /\ Emit(Owner(e), <<Message(e, m)>>)
               /\ UNCHANGED <<cmds, polled, next_stream_id, app, thread, acceptVars, mapVars, known,
                              loopVars, conn, opened, taken, reading, finished, net, sent,
                              accepted>>
<1>1. /\ reading[h] = "running" /\ pipe[h] # <<>> /\ pipe[h] \in Seq(Packet)
      /\ Reader(h) \in Ends
  BY HalfFacts DEF ReadFrame, TypeOK, QuinnTypeOK
<1>2. Head(pipe[h]) \in Packet
  BY <1>1, HeadTailProperties
<1>3. HandleOf(h) \in StreamId
  <2>1. PICK s \in Seq(StreamId), n \in Nat : s = opened[h[1][1]] /\ n = h[1][2] /\ n \in DOMAIN s
    BY <1>1, HalfFacts, MaxStreamsAssumption DEF TypeOK, QuinnTypeOK
  <2>2. s[n] \in StreamId
    BY <2>1, LenProperties, ElementOfSeq
  <2>. QED
    BY <2>1, <2>2, NewHandle DEF HandleOf, Reliability
<1>4. PICK m : m = [Head(pipe[h]) EXCEPT !.stream = HandleOf(h)]
  OBVIOUS
<1>5. m \in Packet /\ m.stream = HandleOf(h)
  BY <1>2, <1>3, <1>4 DEF Packet
<1>. QED
  BY <1>1, <1>3, <1>4, <1>5 DEF ReadFrame

LEMMA ReadFrameType ==
    ASSUME IndType, NEW h \in Halves, ReadFrame(h)
    PROVE  IndType'
<1>1. TypeOK
  BY DEF IndType
<1>2. PICK e \in Ends, m \in Packet :
               /\ e = Reader(h) /\ m = [Head(pipe[h]) EXCEPT !.stream = HandleOf(h)]
               /\ m.stream = HandleOf(h) /\ m.stream \in StreamId
               /\ reading[h] = "running" /\ pipe[h] # <<>>
               /\ pipe' = [pipe EXCEPT ![h] = Tail(@)]
               /\ delivered' = [delivered EXCEPT ![<<e, m.stream>>] = Append(@, m)]
               /\ Emit(Owner(e), <<Message(e, m)>>)
               /\ UNCHANGED <<cmds, polled, next_stream_id, app, thread, acceptVars, mapVars, known,
                              loopVars, conn, opened, taken, reading, finished, net, sent,
                              accepted>>
  BY <1>1, FrameParts
<1>3. EventsTypeOK(Events)'
  BY <1>1, <1>2, EndFacts, EventTypes, EmitOneType
<1>4. PICK k \in Key : k = <<e, m.stream>>
  BY <1>2, KeyFacts
<1>5. HistoryTypeOK'
  <2>1. delivered \in [Key -> Seq(Packet)]
    BY <1>1 DEF TypeOK, HistoryTypeOK
  <2>2. Append(delivered[k], m) \in Seq(Packet)
    BY <2>1, AppendType
  <2>3. delivered' = [delivered EXCEPT ![k] = Append(@, m)]
    BY <1>2, <1>4
  <2>4. delivered' \in [Key -> Seq(Packet)]
    BY <2>1, <2>2, <2>3
  <2>. QED
    BY <1>1, <1>2, <2>4 DEF TypeOK, HistoryTypeOK
<1>6. /\ Tail(pipe[h]) \in Seq(Packet) /\ Len(Tail(pipe[h])) = Len(pipe[h]) - 1
      /\ Len(pipe[h]) \in Nat /\ Window \in Nat /\ Len(pipe[h]) <= Window
  BY <1>1, <1>2, HeadTailProperties, LenProperties, QuicAssumption DEF TypeOK, QuinnTypeOK
<1>7. pipe' \in [Halves -> Seq(Packet)] /\ \A g \in Halves : Len(pipe'[g]) <= Window
  BY <1>1, <1>2, <1>6 DEF TypeOK, QuinnTypeOK
<1>8. QuinnTypeOK'
  BY <1>1, <1>2, <1>7 DEF TypeOK, QuinnTypeOK
<1>9. AcceptTypeOK' /\ MapTypeOK' /\ LoopTypeOK' /\ opening' = opening
  BY <1>1, <1>2, SameTypes DEF loopVars
<1>. QED
  BY <1>2, <1>3, <1>5, <1>8, <1>9, TaskFrame

LEMMA ReadEndType ==
    ASSUME IndType, NEW h \in Halves, ReadEnd(h)
    PROVE  IndType'
<1>1. TypeOK /\ reading' = [reading EXCEPT ![h] = "done"]
      /\ UNCHANGED <<peerVars, acceptVars, mapVars, known, loopVars, conn, opened, taken, pipe,
                     finished, net, historyVars>>
  BY DEF IndType, ReadEnd
<1>2. QuinnTypeOK'
  BY <1>1 DEF TypeOK, QuinnTypeOK
<1>3. UNCHANGED <<cmds, events, polled, next_stream_id, app, thread, opened, opening>>
  BY <1>1 DEF peerVars, loopVars
<1>. QED
  BY <1>1, <1>2, <1>3, SameTypes, TaskFrame

LEMMA LoseType ==
    ASSUME IndType, NEW e \in Ends, Lose(e)
    PROVE  IndType'
<1>1. TypeOK /\ conn' = [conn EXCEPT ![e] = "lost"]
      /\ UNCHANGED <<peerVars, acceptVars, mapVars, known, loopVars, opened, taken, reading, pipe,
                     finished, net, historyVars>>
  BY DEF IndType, Lose
<1>2. QuinnTypeOK'
  BY <1>1 DEF TypeOK, QuinnTypeOK
<1>3. UNCHANGED <<cmds, events, polled, next_stream_id, app, thread, opened, opening>>
  BY <1>1 DEF peerVars, loopVars
<1>. QED
  BY <1>1, <1>2, <1>3, SameTypes, TaskFrame

-------------------------------------------------------------------------------
(* Type correctness *)

LEMMA InitType == Init => IndType
<1> SUFFICES ASSUME Init PROVE IndType
  OBVIOUS
<1>1. PeerTypeOK(Commands, Events)
  BY PeerInitType DEF Init
<1>2. AcceptTypeOK
  BY EmptySeq DEF Init, AcceptTypeOK
<1>3. MapTypeOK
  <2>1. \A p \in Peers : streamReg[p] \in Seq(Registration(p))
    BY EmptySeq DEF Init
  <2>. QED
    BY <2>1 DEF Init, MapTypeOK
<1>4. LoopTypeOK
  BY DEF Init, LoopTypeOK, AtMostOne
<1>5. QuinnTypeOK
  <2>1. /\ <<>> \in Seq(StreamId) /\ <<>> \in Seq(Packet) /\ Len(<<>>) = 0
        /\ 0 <= MaxStreams /\ 0 <= Window
    <3>1. MaxStreams \in Nat /\ Window \in Nat
      BY MaxStreamsAssumption, QuicAssumption
    <3>. QED
      BY <3>1, EmptySeq
  <2>2. \A e \in Ends : opened[e] = <<>> /\ opened[Other(e)] = <<>> /\ taken[e] = 0
    BY EndFacts DEF Init
  <2>3. \A e \in Ends : opened[e] \in Seq(StreamId) /\ Len(opened[e]) <= MaxStreams
    BY <2>1, <2>2
  <2>4. taken \in [Ends -> Nat] /\ \A e \in Ends : taken[e] <= Len(opened[Other(e)])
    BY <2>1, <2>2 DEF Init
  <2>5. pipe \in [Halves -> Seq(Packet)] /\ \A h \in Halves : Len(pipe[h]) <= Window
    BY <2>1 DEF Init
  <2>. QED
    BY <2>3, <2>4, <2>5 DEF Init, QuinnTypeOK
<1>6. HistoryTypeOK
  BY EmptySeq DEF Init, HistoryTypeOK
<1>7. TypeOK
  BY <1>1, <1>2, <1>3, <1>4, <1>5, <1>6 DEF TypeOK
<1>8. ASSUME NEW e \in Ends PROVE Asked(e) <= next_stream_id[Owner(e)]
  <2>1. /\ Owner(e) \in Peers /\ cmds[Owner(e)] = <<>> /\ opening[Owner(e)] = <<>>
        /\ opened[e] = <<>> /\ next_stream_id[Owner(e)] = 0
    BY EndFacts DEF Init, PeerInit
  <2>2. PICK none : none = cmds[Owner(e)] /\ Count(none, Creates(e)) = 0
    BY <2>1, CountEmpty
  <2>3. Opening(e) = 0 /\ Len(opened[e]) = 0
    BY <2>1 DEF Opening
  <2>. QED
    BY <2>1, <2>2, <2>3 DEF Asked
<1>. QED
  BY <1>7, <1>8 DEF IndType, CreatesOK

LEMMA StutterType ==
    ASSUME IndType, UNCHANGED vars
    PROVE  IndType'
<1>1. /\ TypeOK
      /\ UNCHANGED <<peerVars, acceptVars, mapVars, known, loopVars, quinnVars, net, historyVars>>
  BY DEF IndType, vars, quicVars
<1>2. UNCHANGED <<cmds, events, polled, next_stream_id, app, thread, opened, opening>>
  BY <1>1 DEF peerVars, loopVars, quinnVars
<1>. QED
  BY <1>1, <1>2, SameTypes, TaskFrame

LEMMA NextType == IndType /\ [Next]_vars => IndType'
<1> SUFFICES ASSUME IndType, [Next]_vars PROVE IndType'
  OBVIOUS
<1>1. ASSUME NEW p \in Peers, HandleCommand(p) PROVE IndType'
  <2>1. CASE BindFails \/ ConnectFails(p) \/ CreatePanics(p) \/ BackendShutdown(p)
    <3>1. Panic(Server) \/ Panic(p) \/ BackendShutdown(p)
      BY <2>1 DEF BindFails, ConnectFails, CreatePanics
    <3>. QED
      BY <3>1, ServerIsPeer, PanicStops, StopsType
  <2>2. CASE Bind \/ (p \in Clients /\ Connect(p))
    BY <2>2, BindType, ConnectType
  <2>3. CASE SendStep(p)
    BY <2>3, SendWrittenType, SendWaitsType, OtherSendsType DEF SendStep
  <2>4. CASE CreateReliable(p) \/ CreateWaits(p) \/ CreateDropped(p) \/ CreateUnreliable(p)
    BY <2>4, CreateReliableType, CreateWaitsType, CreateOthersType
  <2>5. CASE BackendCloseStream(p)
    BY <2>5, CloseStreamType
  <2>. QED
    BY <1>1, <2>1, <2>2, <2>3, <2>4, <2>5 DEF HandleCommand, CreateStep
<1>2. ASSUME NEW p \in Peers, Resume(p) PROVE IndType'
  <2>1. CASE OpeningPanics(p)
    BY <2>1, PanicStops, StopsType DEF OpeningPanics
  <2>. QED
    BY <1>2, <2>1, WriteResumesType, WriteFailsType, CreateResumesType DEF Resume
<1>3. ASSUME NEW e \in Ends, Break(e) \/ Notice(e) PROVE IndType'
  BY <1>3, LoseType DEF Break, Notice
<1>4. ASSUME NEW h \in Halves, ReadHalf(h) PROVE IndType'
  BY <1>4, ReadFrameType, ReadEndType DEF ReadHalf
<1>. QED
  BY <1>1, <1>2, <1>3, <1>4, AppType, RegisterStreamType, RegisterConnectionType, AcceptType,
     HandshakeFailsType, ReadDatagramType, AcceptStreamType, StutterType DEF Next

(***************************************************************************)
(* For any number of clients, any window and any limit of open streams,    *)
(* and whatever panics: no half holds more than its window, a process      *)
(* handles commands, events and halves of its own connections only, and an *)
(* end opens no more streams than its application asked for.               *)
(***************************************************************************)
THEOREM TypeTheorem == Spec => []TypeOK
<1>1. IndType => TypeOK
  BY DEF IndType
<1>. QED
  BY <1>1, InitType, NextType, PTL DEF Spec

(***************************************************************************)
(* Part two: what an application first hears of a connection.              *)
(***************************************************************************)

-------------------------------------------------------------------------------
(* The inductive invariant.  ConnectedOnceAndFirst says nothing of the      *)
(* channels between the tasks: it would break if a connection was accepted  *)
(* twice, or if a command, a registration or a reader was of a connection   *)
(* that nobody has announced.  What ties them together is that an end is    *)
(* heard of from the step on in which its process gets it.                  *)

None(e) == conn[e] = "none"

Heard(e) == \E y \in Told(Owner(e)) : Concerns(y, e)

\* y may come after the events of E.
MayFollow(y, E) ==
    "conn" \in DOMAIN y => (y = Connected(y.conn) <=> \A z \in E : ~Concerns(z, y.conn))

InSequence(s) == \A j \in 1 .. Len(s) : MayFollow(s[j], Earlier(s, j))

HeardOK ==
    /\ \A p \in Peers : InSequence(events[p])
    /\ \A e \in Ends : Heard(e) <=> ~None(e)

OfConnection == {"Send", "CreateStream", "CloseStream"}

CallsOK == \A p \in Peers : \A x \in Queued(p) : x.type \in OfConnection => ~None(x.conn)

Dials(c) == Count(cmds[c], {ConnectCmd})

DialsOK == \A c \in Clients : Dials(c) <= IF None(<<c, "dial">>) THEN 1 ELSE 0

BacklogOK ==
    /\ \A a \in AcceptEnds :
           Count(backlog, {a}) <= IF None(a) /\ ~None(Other(a)) THEN 1 ELSE 0
    /\ \A a \in AcceptEnds : None(Other(a)) => None(a)

RegistrationsOK == \A p \in Peers : \A r \in Elems(streamReg[p]) : ~None(r.end)

ReadersOK == \A h \in Halves : reading[h] = "running" => ~None(Reader(h))

NewsInv == HeardOK /\ CallsOK /\ DialsOK /\ BacklogOK /\ RegistrationsOK /\ ReadersOK

-------------------------------------------------------------------------------
(* What the steps share *)

\* Who has a connection has it still, or still has had it.
Stays == \A e \in Ends : ~None(e) => ~None(e)'

SameNone == \A e \in Ends : None(e)' <=> None(e)

LEMMA InSequenceAppend ==
    ASSUME NEW S, NEW s \in Seq(S), NEW y \in S, InSequence(s), MayFollow(y, Elems(s))
    PROVE  InSequence(Append(s, y)) /\ Elems(Append(s, y)) = Elems(s) \cup {y}
<1> DEFINE t == Append(s, y)
<1>1. /\ t \in Seq(S) /\ Len(t) = Len(s) + 1 /\ Elems(t) = Elems(s) \cup {y}
      /\ \A j \in 1 .. Len(s) + 1 :
            \/ t[j] = y /\ Earlier(t, j) = Elems(s)
            \/ j \in 1 .. Len(s) /\ t[j] = s[j] /\ Earlier(t, j) = Earlier(s, j)
  BY EarlierAppend
<1> HIDE DEF t
<1>2. \A j \in 1 .. Len(s) + 1 : MayFollow(t[j], Earlier(t, j))
  BY <1>1 DEF InSequence
<1>. QED
  BY <1>1, <1>2 DEF InSequence, t

\* Nothing is told.
LEMMA HeardFrame ==
    ASSUME HeardOK, SameNone, \A p \in Peers : events'[p] = events[p]
    PROVE  HeardOK'
<1>1. ASSUME NEW p \in Peers PROVE InSequence(events[p])'
  BY DEF HeardOK, InSequence, Earlier
<1>2. ASSUME NEW e \in Ends PROVE Heard(e)' <=> Heard(e)
  BY EndFacts DEF Heard, Told, Elems
<1>. QED
  BY <1>1, <1>2 DEF HeardOK, SameNone

\* One event is told of e, and it is Connected just when it is the first.
LEMMA HeardTell ==
    ASSUME TypeOK, HeardOK, NEW e \in Ends, NEW p \in Peers, p = Owner(e), NEW y \in Events[p],
           Emit(p, <<y>>), Concerns(y, e), y = Connected(e) <=> None(e),
           \A f \in Ends : None(f)' <=> None(f) /\ f # e
    PROVE  HeardOK'
<1>1. /\ events' = [events EXCEPT ![p] = @ \o <<y>>] /\ events[p] \in Seq(Events[p])
      /\ DOMAIN events = Peers
  BY QueueTypes DEF Emit, TypeOK, PeerTypeOK, EventsTypeOK
<1>2. events'[p] = Append(events[p], y) /\ \A q \in Peers \ {p} : events'[q] = events[q]
  BY <1>1, AppendIsConcat
<1>3. "conn" \in DOMAIN y /\ y.conn = e
  BY DEF Concerns
<1>4. MayFollow(y, Told(p))
  BY <1>3 DEF MayFollow, HeardOK, Heard
<1>5. /\ InSequence(Append(events[p], y))
      /\ Elems(Append(events[p], y)) = Elems(events[p]) \cup {y}
  BY <1>1, <1>4, InSequenceAppend DEF HeardOK, Told
<1>6. PICK t : t = events'[p]
  OBVIOUS
<1>7. InSequence(t) /\ Elems(t) = Told(p) \cup {y}
  BY <1>2, <1>5, <1>6 DEF Told
<1>8. ASSUME NEW q \in Peers PROVE InSequence(events[q])'
  <2>1. CASE q = p
    BY <1>6, <1>7, <2>1 DEF InSequence, Earlier, MayFollow, Concerns, Connected
  <2>2. CASE q # p
    BY <1>2, <2>2 DEF HeardOK, InSequence, Earlier, MayFollow, Concerns, Connected
  <2>. QED
    BY <2>1, <2>2
<1>9. Told(p)' = Told(p) \cup {y} /\ \A q \in Peers \ {p} : Told(q)' = Told(q)
  <2>1. Told(p)' = Elems(t)
    BY <1>6 DEF Told, Elems
  <2>2. \A q \in Peers \ {p} : Told(q)' = Told(q)
    BY <1>2 DEF Told, Elems
  <2>. QED
    BY <1>7, <2>1, <2>2
<1>10. ASSUME NEW f \in Ends PROVE Heard(f)' <=> ~None(f)'
  <2>1. Heard(f) <=> ~None(f)
    BY DEF HeardOK
  <2>2. CASE f = e
    BY <1>9, <2>2 DEF Heard
  <2>3. CASE f # e
    <3>1. ~Concerns(y, f)
      BY <1>3, <2>3 DEF Concerns
    <3>2. Heard(f)' <=> Heard(f)
      BY <1>9, <3>1, EndFacts DEF Heard
    <3>. QED
      BY <2>1, <2>3, <3>2
  <2>. QED
    BY <2>2, <2>3
<1>. QED
  BY <1>8, <1>10 DEF HeardOK

\* The events that are told of a connection that is there.
LEMMA LaterEvents ==
    ASSUME NEW e \in Ends
    PROVE  /\ Concerns(Connected(e), e)
           /\ Concerns(SendFailed(e), e) /\ SendFailed(e) # Connected(e)
           /\ \A m : Concerns(Message(e, m), e) /\ Message(e, m) # Connected(e)
           /\ \A s : /\ Concerns(StreamCreated(e, s), e) /\ StreamCreated(e, s) # Connected(e)
                     /\ Concerns(StreamClosed(e, s), e) /\ StreamClosed(e, s) # Connected(e)
BY DEF Concerns, Connected, SendFailed, Message, StreamCreated, StreamClosed

LEMMA HeardLater ==
    ASSUME TypeOK, HeardOK, SameNone, NEW e \in Ends, NEW p \in Peers, p = Owner(e), ~None(e),
           NEW y \in Events[p], Emit(p, <<y>>), Concerns(y, e), y # Connected(e)
    PROVE  HeardOK'
<1>1. \A f \in Ends : None(f)' <=> None(f) /\ f # e
  BY DEF SameNone
<1>. QED
  BY <1>1, HeardTell

-------------------------------------------------------------------------------
(* The queues of commands *)

CommandsOK == CallsOK /\ DialsOK

SameDialed == \A c \in Clients : None(<<c, "dial">>)' <=> None(<<c, "dial">>)

\* What is in the queues was in them, and is not dialed more often.
LEMMA CommandsFrame ==
    ASSUME CommandsOK, Stays, SameDialed, TypeOK, TypeOK',
           \A p \in Peers : \/ cmds'[p] = cmds[p]
                            \/ /\ Queued(p)' \subseteq Queued(p)
                               /\ Count(cmds'[p], {ConnectCmd}) <= Count(cmds[p], {ConnectCmd})
    PROVE  CommandsOK'
<1>1. ASSUME NEW p \in Peers PROVE Queued(p)' \subseteq Queued(p)
  BY DEF Queued, Elems
<1>2. ASSUME NEW p \in Peers, NEW x \in Queued(p)', x.type \in OfConnection PROVE ~None(x.conn)'
  <2>1. x \in Queued(p)
    BY <1>1
  <2>2. Queued(p) \subseteq Command(EndsOf(p), Packet)
    BY QueueTypes, ElemsType DEF Queued
  <2>3. x.conn \in EndsOf(p)
    BY <1>2, <2>1, <2>2, PartsOfCommand DEF OfConnection
  <2>4. ~None(x.conn) /\ x.conn \in Ends
    BY <1>2, <2>1, <2>3, EndsOfFacts DEF CommandsOK, CallsOK
  <2>. QED
    BY <2>4 DEF Stays
<1>3. ASSUME NEW c \in Clients PROVE Dials(c)' <= IF None(<<c, "dial">>)' THEN 1 ELSE 0
  <2>1. c \in Peers /\ (None(<<c, "dial">>)' <=> None(<<c, "dial">>))
    BY ClientEnds DEF SameDialed
  <2>2. cmds[c] \in Seq(Commands[c]) /\ cmds'[c] \in Seq(Commands[c])
    BY <2>1 DEF TypeOK, PeerTypeOK, CommandsTypeOK
  <2>3. Count(cmds[c], {ConnectCmd}) \in Nat /\ Count(cmds'[c], {ConnectCmd}) \in Nat
    BY <2>2, CountType
  <2>4. Count(cmds'[c], {ConnectCmd}) <= Count(cmds[c], {ConnectCmd})
    BY <2>1, <2>3
  <2>5. Count(cmds[c], {ConnectCmd}) <= IF None(<<c, "dial">>) THEN 1 ELSE 0
    BY DEF CommandsOK, DialsOK, Dials
  <2>6. Dials(c)' = Count(cmds'[c], {ConnectCmd})
    BY DEF Dials, Count, At, ConnectCmd
  <2>. QED
    BY <2>1, <2>3, <2>4, <2>5, <2>6
<1>. QED
  BY <1>2, <1>3 DEF CommandsOK, CallsOK, DialsOK

LEMMA CommandsTaken ==
    ASSUME CommandsOK, Stays, SameDialed, TypeOK, TypeOK', NEW p \in Peers, NEW type,
           HandlesQuietly(p, type)
    PROVE  CommandsOK'
<1>1. /\ cmds[p] # <<>> /\ cmds' = [cmds EXCEPT ![p] = Tail(@)]
      /\ Queued(p)' \subseteq Queued(p) /\ \A q \in Peers \ {p} : cmds'[q] = cmds[q]
  BY QuietType DEF TakeCommand
<1>2. cmds[p] \in Seq(Commands[p]) /\ cmds'[p] = Tail(cmds[p]) /\ Tail(cmds[p]) \in Seq(Commands[p])
  BY <1>1, HeadTailProperties DEF TypeOK, PeerTypeOK, CommandsTypeOK
<1>3. Count(cmds'[p], {ConnectCmd}) <= Count(cmds[p], {ConnectCmd})
  <2>1. Count(Tail(cmds[p]), {ConnectCmd}) \in Nat
    BY <1>2, CountType
  <2>2. Count(cmds[p], {ConnectCmd}) = Count(Tail(cmds[p]), {ConnectCmd})
                                          + (IF Head(cmds[p]) \in {ConnectCmd} THEN 1 ELSE 0)
    BY <1>1, <1>2, CountTail
  <2>. QED
    BY <1>2, <2>1, <2>2
<1>4. \A q \in Peers : \/ cmds'[q] = cmds[q]
                       \/ /\ Queued(q)' \subseteq Queued(q)
                          /\ Count(cmds'[q], {ConnectCmd}) <= Count(cmds[q], {ConnectCmd})
  BY <1>1, <1>3
<1>. QED
  BY <1>4, CommandsFrame

LEMMA CommandsStop ==
    ASSUME CommandsOK, Stays, SameDialed, TypeOK, TypeOK', NEW p \in Peers, ThreadExits(p)
    PROVE  CommandsOK'
<1>1. cmds' = [cmds EXCEPT ![p] = <<>>] /\ DOMAIN cmds = Peers /\ cmds[p] \in Seq(Commands[p])
  BY DEF ThreadExits, TypeOK, PeerTypeOK, CommandsTypeOK
<1>2. cmds'[p] = <<>> /\ \A q \in Peers \ {p} : cmds'[q] = cmds[q]
  BY <1>1
<1>3. Queued(p)' \subseteq Queued(p)
  BY <1>2 DEF Queued, Elems
<1>4. Count(cmds'[p], {ConnectCmd}) <= Count(cmds[p], {ConnectCmd})
  <2>1. Count(cmds[p], {ConnectCmd}) \in Nat
    BY <1>1, CountType
  <2>2. PICK s : s = cmds'[p]
    OBVIOUS
  <2>3. Count(s, {ConnectCmd}) = 0
    BY <1>2, <2>2, CountEmpty
  <2>. QED
    BY <2>1, <2>2, <2>3
<1>5. \A q \in Peers : \/ cmds'[q] = cmds[q]
                       \/ /\ Queued(q)' \subseteq Queued(q)
                          /\ Count(cmds'[q], {ConnectCmd}) <= Count(cmds[q], {ConnectCmd})
  BY <1>2, <1>3, <1>4
<1>. QED
  BY <1>5, CommandsFrame

\* A command more: of a connection that is there, or the one dial.
LEMMA CommandsCall ==
    ASSUME CommandsOK, SameNone, TypeOK, TypeOK', NEW p \in Peers, NEW cmd \in Commands[p],
           SendCommand(p, cmd), cmd.type \in OfConnection => ~None(cmd.conn),
           cmd = ConnectCmd => /\ p \in Clients /\ None(<<p, "dial">>)
                               /\ \A i \in DOMAIN cmds[p] : cmds[p][i] # ConnectCmd
    PROVE  CommandsOK'
<1>1. cmds' = [cmds EXCEPT ![p] = Append(@, cmd)] /\ cmds[p] \in Seq(Commands[p])
      /\ CommandsTypeOK(Commands)
  BY QueueTypes DEF SendCommand
<1>2. /\ cmds'[p] = Append(cmds[p], cmd) /\ Queued(p)' = Queued(p) \cup {cmd}
      /\ \A q \in Peers \ {p} : cmds'[q] = cmds[q] /\ Queued(q)' = Queued(q)
  BY <1>1, SendCommandQueued DEF CommandsTypeOK, Queued, Elems
<1>3. ASSUME NEW q \in Peers, NEW x \in Queued(q)', x.type \in OfConnection PROVE ~None(x.conn)'
  <2>1. Queued(q) \subseteq Command(EndsOf(q), Packet) /\ Commands[p] = Command(EndsOf(p), Packet)
    BY QueueTypes, ElemsType DEF Queued
  <2>2. x \in Queued(q) \/ (q = p /\ x = cmd)
    BY <1>2
  <2>3. x \in Command(EndsOf(q), Packet) /\ ~None(x.conn)
    BY <1>3, <2>1, <2>2 DEF CommandsOK, CallsOK
  <2>4. x.conn \in Ends
    BY <1>3, <2>3, PartsOfCommand, EndsOfFacts DEF OfConnection
  <2>. QED
    BY <2>3, <2>4 DEF SameNone
<1>4. ASSUME NEW c \in Clients PROVE Dials(c)' <= IF None(<<c, "dial">>)' THEN 1 ELSE 0
  <2>1. c \in Peers /\ (None(<<c, "dial">>)' <=> None(<<c, "dial">>))
    BY ClientEnds DEF SameNone
  <2>2. Dials(c) <= IF None(<<c, "dial">>) THEN 1 ELSE 0
    BY DEF CommandsOK, DialsOK
  <2>3. CASE c # p
    <3>1. Dials(c)' = Dials(c)
      BY <1>2, <2>1, <2>3 DEF Dials, Count, At, ConnectCmd
    <3>. QED
      BY <2>1, <2>2, <3>1
  <2>4. CASE c = p
    <3>1. PICK t : t = cmds'[p] /\ t = Append(cmds[p], cmd)
      BY <1>2
    <3>2. Dials(c)' = Count(t, {ConnectCmd}) /\ Dials(c) = Count(cmds[p], {ConnectCmd})
      BY <2>4, <3>1 DEF Dials, Count, At, ConnectCmd
    <3>3. /\ Count(t, {ConnectCmd}) = Count(cmds[p], {ConnectCmd})
                                        + (IF cmd \in {ConnectCmd} THEN 1 ELSE 0)
          /\ Count(cmds[p], {ConnectCmd}) \in Nat
      BY <1>1, <3>1, CountAppend, CountType
    <3>4. CASE cmd # ConnectCmd
      BY <2>1, <2>2, <3>2, <3>3, <3>4
    <3>5. CASE cmd = ConnectCmd
      <4>1. Count(cmds[p], {ConnectCmd}) = 0 /\ None(<<c, "dial">>)
        BY <1>1, <2>4, <3>5, CountNone
      <4>. QED
        BY <2>1, <3>2, <3>3, <3>5, <4>1
    <3>. QED
      BY <3>4, <3>5
  <2>. QED
    BY <2>3, <2>4
<1>. QED
  BY <1>3, <1>4 DEF CommandsOK, CallsOK, DialsOK

-------------------------------------------------------------------------------
(* The channels and tasks *)

LEMMA RegistrationsFrame ==
    ASSUME TypeOK, RegistrationsOK, Stays,
           \A p \in Peers : \/ streamReg'[p] = streamReg[p]
                            \/ \A r \in Elems(streamReg'[p]) :
                                   r \in Elems(streamReg[p]) \/ ~None(r.end)'
    PROVE  RegistrationsOK'
<1> SUFFICES ASSUME NEW p \in Peers, NEW r \in Elems(streamReg'[p]) PROVE ~None(r.end)'
  BY DEF RegistrationsOK, Elems
<1>1. CASE r \in Elems(streamReg[p])
  <2>1. Elems(streamReg[p]) \subseteq Registration(p)
    BY ElemsType DEF TypeOK, MapTypeOK
  <2>2. r.end \in Ends /\ ~None(r.end)
    BY <1>1, <2>1, RegistrationParts DEF RegistrationsOK
  <2>. QED
    BY <2>2 DEF Stays
<1>2. CASE r \notin Elems(streamReg[p])
  BY <1>2
<1>. QED
  BY <1>1, <1>2

LEMMA RegistrationsAdd ==
    ASSUME TypeOK, RegistrationsOK, SameNone, NEW p \in Peers, NEW r \in Registration(p),
           streamReg' = [streamReg EXCEPT ![p] = Append(@, r)], ~None(r.end)
    PROVE  RegistrationsOK'
<1>1. DOMAIN streamReg = Peers /\ streamReg[p] \in Seq(Registration(p)) /\ r.end \in Ends
  BY RegistrationParts DEF TypeOK, MapTypeOK
<1>2. streamReg'[p] = Append(streamReg[p], r) /\ \A q \in Peers \ {p} : streamReg'[q] = streamReg[q]
  BY <1>1
<1>3. Elems(Append(streamReg[p], r)) = Elems(streamReg[p]) \cup {r}
  BY <1>1, ElemsAppend
<1>4. ~None(r.end)' /\ Stays
  BY <1>1 DEF SameNone, Stays
<1>. QED
  BY <1>2, <1>3, <1>4, RegistrationsFrame

LEMMA ReadersFrame ==
    ASSUME ReadersOK, Stays,
           \A h \in Halves : reading'[h] = "running" => reading[h] = "running" \/ ~None(Reader(h))'
    PROVE  ReadersOK'
<1>1. \A h \in Halves : Reader(h) \in Ends /\ Reader(h)' = Reader(h)
  BY HalfFacts DEF Reader
<1>. QED
  BY <1>1 DEF ReadersOK, Stays

LEMMA BacklogFrame ==
    ASSUME BacklogOK, SameNone, UNCHANGED backlog
    PROVE  BacklogOK'
<1>1. \A a \in AcceptEnds : a \in Ends /\ Other(a) \in Ends
  BY AcceptEndFacts, EndFacts
<1>2. \A a \in AcceptEnds : (None(a)' <=> None(a)) /\ (None(Other(a))' <=> None(Other(a)))
  BY <1>1 DEF SameNone
<1>3. \A a \in AcceptEnds : Count(backlog, {a})' = Count(backlog, {a})
  BY DEF Count, At
<1>. QED
  BY <1>2, <1>3 DEF BacklogOK

LEMMA BacklogEmpty ==
    ASSUME BacklogOK, SameNone, backlog' = <<>>
    PROVE  BacklogOK'
<1>1. \A a \in AcceptEnds : a \in Ends /\ Other(a) \in Ends
  BY AcceptEndFacts, EndFacts
<1>2. \A a \in AcceptEnds : (None(a)' <=> None(a)) /\ (None(Other(a))' <=> None(Other(a)))
  BY <1>1 DEF SameNone
<1>3. ASSUME NEW a \in AcceptEnds PROVE Count(backlog, {a})' = 0
  <2>1. At(backlog, {a})' = {}
    BY DEF At
  <2>. QED
    BY <2>1, FS_EmptySet DEF Count
<1>. QED
  BY <1>2, <1>3 DEF BacklogOK

-------------------------------------------------------------------------------
(* The news is kept: the steps that leave the connections                  *)

LEMMA SameConn ==
    ASSUME UNCHANGED conn
    PROVE  SameNone /\ Stays /\ SameDialed
BY ClientEnds DEF SameNone, Stays, SameDialed, None

LEMMA SameRegistrations ==
    ASSUME TypeOK, NewsInv, UNCHANGED <<conn, streamReg>>
    PROVE  RegistrationsOK'
BY SameConn, RegistrationsFrame DEF NewsInv

\* What a step that neither gets nor loses a connection leaves alone.
LEMMA NewsFrame ==
    ASSUME TypeOK, NewsInv, UNCHANGED <<conn, backlog>>,
           UNCHANGED events \/ HeardOK', CommandsOK',
           UNCHANGED streamReg \/ RegistrationsOK',
           \A h \in Halves : reading'[h] = "running" => reading[h] = "running" \/ ~None(Reader(h))
    PROVE  NewsInv'
<1>1. SameNone /\ Stays /\ SameDialed
  BY SameConn
<1>2. HeardOK'
  BY <1>1, HeardFrame DEF NewsInv
<1>3. BacklogOK' /\ RegistrationsOK'
  BY <1>1, BacklogFrame, SameRegistrations DEF NewsInv
<1>4. \A h \in Halves : Reader(h) \in Ends /\ (~None(Reader(h)) => ~None(Reader(h))')
  BY HalfFacts DEF None, Reader
<1>5. ReadersOK'
  BY <1>1, <1>4, ReadersFrame DEF NewsInv
<1>. QED
  BY <1>2, <1>3, <1>5 DEF NewsInv, CommandsOK

LEMMA SameCommands ==
    ASSUME TypeOK, TypeOK', NewsInv, UNCHANGED <<conn, cmds>>
    PROVE  CommandsOK'
<1>1. CommandsOK /\ Stays /\ SameDialed
  BY SameConn DEF NewsInv, CommandsOK
<1>. QED
  BY <1>1, CommandsFrame

LEMMA AppQuiet ==
    ASSUME AppAction
    PROVE  UNCHANGED <<events, conn, backlog, streamReg, reading>>
<1>1. CASE UNCHANGED quicVars /\ UNCHANGED events
  BY <1>1 DEF quicVars, acceptVars, mapVars, quinnVars
<1>2. ASSUME NEW e \in Ends, NEW stream \in StreamId, AppSend(e, stream)
      PROVE  UNCHANGED <<events, conn, backlog, streamReg, reading>>
  BY <1>2 DEF AppSend, acceptVars, mapVars, quinnVars
<1>. QED
  BY <1>1, <1>2
  DEF AppAction, AppListen, AppDial, AppCreateStream, AppCloseStream, AppPoll, AppShutdown, AppJoin,
      Listen, Dial, CreateStream, CloseStream, Poll, Shutdown, Join

LEMMA AppNews ==
    ASSUME TypeOK, TypeOK', NewsInv, AppAction
    PROVE  NewsInv'
<1>1. UNCHANGED <<events, conn, backlog, streamReg, reading>> /\ SameNone /\ CommandsOK
  BY AppQuiet, SameConn DEF NewsInv, CommandsOK
<1>2. \A e \in Ends : (\E y \in Told(Owner(e)) : Concerns(y, e)) => ~None(e)
  BY DEF NewsInv, HeardOK, Heard
<1>3. ASSUME NEW p \in Peers, NEW cmd \in Commands[p], SendCommand(p, cmd),
             cmd.type \notin OfConnection, cmd # ConnectCmd
      PROVE  CommandsOK'
  BY <1>1, <1>3, CommandsCall
<1>4. ASSUME NEW e \in Ends, NEW cmd \in Commands[Owner(e)], SendCommand(Owner(e), cmd),
             cmd.conn = e, ~None(e), cmd # ConnectCmd
      PROVE  CommandsOK'
  BY <1>1, <1>4, EndFacts, CommandsCall
<1>5. ASSUME AppListen PROVE CommandsOK'
  <2>1. OtherCall(Server, BindCmd)
    BY <1>5, PlainCalls
  <2>2. BindCmd.type \notin OfConnection /\ BindCmd # ConnectCmd
    BY DEF BindCmd, ConnectCmd, OfConnection
  <2>3. SendCommand(Server, BindCmd) /\ BindCmd \in Commands[Server]
    BY <2>1 DEF OtherCall
  <2>. QED
    BY <1>3, <2>2, <2>3, ServerIsPeer
<1>6. ASSUME NEW c \in Clients, AppDial(c) PROVE CommandsOK'
  <2>1. /\ OtherCall(c, ConnectCmd) /\ None(<<c, "dial">>) /\ ~Contains(cmds[c], ConnectCmd)
        /\ c \in Peers
    BY <1>6, PlainCalls, ClientEnds DEF None
  <2>2. \A i \in DOMAIN cmds[c] : cmds[c][i] # ConnectCmd
    <3>1. DOMAIN cmds[c] = 1 .. Len(cmds[c])
      BY <2>1, QueueTypes, LenProperties
    <3>. QED
      BY <2>1, <3>1 DEF Contains
  <2>3. ConnectCmd.type \notin OfConnection
    BY DEF ConnectCmd, OfConnection
  <2>. QED
    BY <1>1, <2>1, <2>2, <2>3, CommandsCall DEF OtherCall
<1>7. ASSUME NEW e \in Ends, NEW r \in Kinds, AppCreateStream(e, r) PROVE CommandsOK'
  <2>1. /\ CreateStream(Owner(e), e, r) /\ e \in EndsOf(Owner(e)) /\ Owner(e) \in Peers
        /\ r \in Reliability
    BY <1>7, EndFacts, QuicAssumption DEF AppCreateStream
  <2>2. PICK i \in StreamId : /\ CreateStreamCmd(e, i, r) \in Commands[Owner(e)]
                              /\ \/ SendCommand(Owner(e), CreateStreamCmd(e, i, r))
                                 \/ UNCHANGED cmds
    BY <2>1, CreateStreamType
  <2>3. ~None(e)
    BY <1>2, <2>1, KnowsFacts DEF CreateStream
  <2>4. CreateStreamCmd(e, i, r).conn = e /\ CreateStreamCmd(e, i, r) # ConnectCmd
    BY DEF CreateStreamCmd, ConnectCmd
  <2>5. CASE UNCHANGED cmds
    BY <1>1, <2>5, SameCommands
  <2>. QED
    BY <1>4, <2>2, <2>3, <2>4, <2>5
<1>8. ASSUME NEW e \in Ends, NEW stream \in StreamId, AppCloseStream(e, stream) PROVE CommandsOK'
  <2>1. OtherCall(Owner(e), CloseStreamCmd(e, stream)) /\ stream \in KnownStreams(Owner(e), e)
    BY <1>8, AppCloseParts
  <2>2. ~None(e)
    BY <1>2, <2>1, KnownFacts
  <2>3. CloseStreamCmd(e, stream).conn = e /\ CloseStreamCmd(e, stream) # ConnectCmd
    BY DEF CloseStreamCmd, ConnectCmd
  <2>. QED
    BY <1>4, <2>1, <2>2, <2>3 DEF OtherCall
<1>9. ASSUME NEW e \in Ends, NEW stream \in StreamId, AppSend(e, stream) PROVE CommandsOK'
  <2>1. PICK m \in Packet : /\ SendCmd(e, m) \in Commands[Owner(e)]
                            /\ SendCommand(Owner(e), SendCmd(e, m)) /\ stream \in SendsOn(e)
    BY <1>9, AppSendParts
  <2>2. ~None(e)
    BY <1>2, <2>1, KnownFacts
  <2>3. SendCmd(e, m).conn = e /\ SendCmd(e, m) # ConnectCmd
    BY DEF SendCmd, ConnectCmd
  <2>. QED
    BY <1>4, <2>1, <2>2, <2>3
<1>10. ASSUME NEW p \in Peers, AppShutdown(p) PROVE CommandsOK'
  <2>1. OtherCall(p, ShutdownCmd)
    BY <1>10, PlainCalls
  <2>. QED
    BY <1>3, <2>1 DEF OtherCall, ShutdownCmd, ConnectCmd, OfConnection
<1>11. ASSUME NEW p \in Peers, AppPoll(p) \/ AppJoin(p) PROVE CommandsOK'
  BY <1>1, <1>11, SameCommands DEF AppPoll, AppJoin, Poll, Join
<1>12. CommandsOK'
  BY <1>5, <1>6, <1>7, <1>8, <1>9, <1>10, <1>11 DEF AppAction
<1>. QED
  BY <1>1, <1>12, NewsFrame

\* A command that leaves the connections.
LEMMA CommandNews ==
    ASSUME TypeOK, TypeOK', NewsInv, NEW p \in Peers, NEW type, HandlesQuietly(p, type),
           UNCHANGED <<conn, backlog>>, UNCHANGED events \/ HeardOK',
           UNCHANGED streamReg \/ RegistrationsOK',
           \A h \in Halves : reading'[h] = "running" => reading[h] = "running" \/ ~None(Reader(h))
    PROVE  NewsInv'
<1>1. CommandsOK /\ Stays /\ SameDialed
  BY SameConn DEF NewsInv, CommandsOK
<1>2. CommandsOK'
  BY <1>1, CommandsTaken
<1>. QED
  BY <1>2, NewsFrame

LEMMA BindNews ==
    ASSUME TypeOK, TypeOK', NewsInv, Bind
    PROVE  NewsInv'
<1>1. HandlesQuietly(Server, "Bind") /\ UNCHANGED <<events, backlog, streamReg, conn, reading>>
  BY DEF Bind, mapVars, quinnVars
<1>. QED
  BY <1>1, ServerIsPeer, CommandNews

\* The commands of a connection are of one that is there.
LEMMA HeadThere ==
    ASSUME TypeOK, NewsInv, NEW p \in Peers, NEW type, type \in OfConnection,
           HandlesQuietly(p, type)
    PROVE  /\ HeadEnd(p) \in EndsOf(p) /\ HeadEnd(p) \in Ends /\ Owner(HeadEnd(p)) = p
           /\ ~None(HeadEnd(p))
<1>1. Head(cmds[p]) \in Queued(p) /\ Head(cmds[p]).type = type /\ cmds[p] # <<>>
  BY QuietType
<1>2. HeadEnd(p) \in EndsOf(p) /\ HeadEnd(p) \in Ends /\ Owner(HeadEnd(p)) = p
  BY <1>1, HeadParts DEF OfConnection
<1>. QED
  BY <1>1, <1>2 DEF NewsInv, CallsOK, HeadEnd

LEMMA SendNews ==
    ASSUME TypeOK, TypeOK', NewsInv, NEW p \in Peers, SendStep(p)
    PROVE  NewsInv'
<1>1. HandlesQuietly(p, "Send") /\ UNCHANGED <<backlog, streamReg, conn, reading>>
  BY DEF SendStep, SendDropped, SendWritten, SendWaits, SendDatagram, SendFails, SendsReliably,
         quicVars, acceptVars, mapVars, quinnVars
<1>2. UNCHANGED events \/ HeardOK'
  <2>1. CASE SendFails(p)
    <3>1. PICK e \in Ends : e = HeadEnd(p) /\ e \in EndsOf(p) /\ Owner(e) = p /\ ~None(e)
      BY <1>1, HeadThere DEF OfConnection
    <3>2. Emit(p, <<SendFailed(e)>>)
      BY <2>1, <3>1 DEF SendFails
    <3>3. SendFailed(e) \in Events[p] /\ Concerns(SendFailed(e), e) /\ SendFailed(e) # Connected(e)
      BY <3>1, EventTypes, LaterEvents
    <3>. QED
      BY <1>1, <3>1, <3>2, <3>3, SameConn, HeardLater DEF NewsInv
  <2>. QED
    BY <2>1 DEF SendStep, SendDropped, SendWritten, SendWaits, SendDatagram
<1>. QED
  BY <1>1, <1>2, CommandNews

LEMMA CloseStreamNews ==
    ASSUME TypeOK, TypeOK', NewsInv, NEW p \in Peers, BackendCloseStream(p)
    PROVE  NewsInv'
<1>1. HandlesQuietly(p, "CloseStream") /\ UNCHANGED <<backlog, streamReg, conn, reading>>
      /\ cmds[p] # <<>> /\ Head(cmds[p]).type = "CloseStream"
  BY QuietType DEF BackendCloseStream, acceptVars
<1>2. PICK e \in Ends : e = HeadEnd(p) /\ e \in EndsOf(p) /\ Owner(e) = p /\ ~None(e)
  BY <1>1, HeadThere DEF OfConnection
<1>3. PICK s \in StreamId : s = Head(cmds[p]).stream
  BY <1>1, HeadParts
<1>4. Emit(p, <<StreamClosed(e, s)>>)
  BY <1>2, <1>3 DEF BackendCloseStream
<1>5. /\ StreamClosed(e, s) \in Events[p] /\ Concerns(StreamClosed(e, s), e)
      /\ StreamClosed(e, s) # Connected(e)
  BY <1>2, EventTypes, LaterEvents
<1>6. HeardOK'
  BY <1>1, <1>2, <1>4, <1>5, SameConn, HeardLater DEF NewsInv
<1>. QED
  BY <1>1, <1>6, CommandNews

LEMMA WriteNews ==
    ASSUME TypeOK, TypeOK', NewsInv, NEW p \in Peers, WriteResumes(p) \/ WriteFails(p)
    PROVE  NewsInv'
<1>1. UNCHANGED <<cmds, backlog, streamReg, conn, reading>>
  BY DEF WriteResumes, WriteFails, peerVars, acceptVars, mapVars, quinnVars
<1>2. UNCHANGED events \/ HeardOK'
  <2>1. CASE WriteFails(p)
    <3>1. PICK e \in Ends : /\ e = Writer(Head(writing[p]).half) /\ e \in EndsOf(p) /\ Owner(e) = p
      BY <2>1, WritingHead DEF WriteFails
    <3>2. Emit(p, <<SendFailed(e)>>) /\ ~None(e)
      BY <2>1, <3>1 DEF WriteFails, None
    <3>3. SendFailed(e) \in Events[p] /\ Concerns(SendFailed(e), e) /\ SendFailed(e) # Connected(e)
      BY <3>1, EventTypes, LaterEvents
    <3>. QED
      BY <1>1, <3>1, <3>2, <3>3, SameConn, HeardLater DEF NewsInv
  <2>2. CASE WriteResumes(p)
    BY <2>2 DEF WriteResumes, peerVars
  <2>. QED
    BY <2>1, <2>2
<1>. QED
  BY <1>1, <1>2, SameCommands, NewsFrame

LEMMA RegisterConnectionNews ==
    ASSUME TypeOK, TypeOK', NewsInv, RegisterConnection
    PROVE  NewsInv'
<1>1. UNCHANGED <<cmds, events, backlog, streamReg, conn, reading>>
  BY DEF RegisterConnection, peerVars, quinnVars
<1>. QED
  BY <1>1, SameCommands, NewsFrame

LEMMA RegisterStreamNews ==
    ASSUME TypeOK, TypeOK', NewsInv, NEW p \in Peers, RegisterStream(p)
    PROVE  NewsInv'
<1>1. streamReg[p] # <<>> /\ streamReg' = [streamReg EXCEPT ![p] = Tail(@)]
      /\ UNCHANGED <<cmds, backlog, conn, reading>>
  BY DEF RegisterStream, acceptVars
<1>2. PICK r \in Registration(p) :
          /\ r = Head(streamReg[p]) /\ r.end \in EndsOf(p) /\ r.end \in Ends
          /\ Owner(r.end) = p /\ r.stream \in StreamId
  BY <1>1, RegistrationHead
<1>3. DOMAIN streamReg = Peers /\ streamReg[p] \in Seq(Registration(p))
  BY DEF TypeOK, MapTypeOK
<1>4. r \in Elems(streamReg[p]) /\ Elems(Tail(streamReg[p])) \subseteq Elems(streamReg[p])
  BY <1>1, <1>2, <1>3, ElemsTail
<1>5. ~None(r.end)
  BY <1>4 DEF NewsInv, RegistrationsOK
<1>6. HeardOK'
  <2>1. SameNone /\ HeardOK
    BY <1>1, SameConn DEF NewsInv
  <2>2. CASE Emit(p, <<>>)
    <3>1. \A q \in Peers : events'[q] = events[q]
      BY <2>2, QueueTypes, EmitNone
    <3>. QED
      BY <2>1, <3>1, HeardFrame
  <2>3. CASE Emit(p, <<StreamCreated(r.end, r.stream)>>)
    <3>1. /\ StreamCreated(r.end, r.stream) \in Events[p]
          /\ Concerns(StreamCreated(r.end, r.stream), r.end)
          /\ StreamCreated(r.end, r.stream) # Connected(r.end)
      BY <1>2, EventTypes, LaterEvents
    <3>. QED
      BY <1>2, <1>5, <2>1, <2>3, <3>1, HeardLater
  <2>4. Emit(p, <<>>) \/ Emit(p, <<StreamCreated(r.end, r.stream)>>)
    BY <1>2 DEF RegisterStream
  <2>. QED
    BY <2>2, <2>3, <2>4
<1>7. RegistrationsOK'
  <2>1. streamReg'[p] = Tail(streamReg[p]) /\ \A q \in Peers \ {p} : streamReg'[q] = streamReg[q]
    BY <1>1, <1>3
  <2>2. Stays /\ RegistrationsOK
    BY <1>1, SameConn DEF NewsInv
  <2>. QED
    BY <1>4, <2>1, <2>2, RegistrationsFrame
<1>. QED
  BY <1>1, <1>6, <1>7, SameCommands, NewsFrame

\* A stream is opened by an end that is up: its registration and its reader
\* are of a connection that was announced.
LEMMA OpenNews ==
    ASSUME TypeOK, NewsInv, NEW p \in Peers, NEW e \in EndsOf(p), NEW i \in StreamId,
           conn[e] = "up", Len(opened[e]) < MaxStreams, OpenStream(p, e, i)
    PROVE  /\ UNCHANGED <<conn, backlog>> /\ RegistrationsOK'
           /\ \A h \in Halves : reading'[h] = "running" => reading[h] = "running" \/ ~None(Reader(h))
<1>1. e \in Ends /\ Owner(e) = p /\ Len(opened[e]) \in Nat /\ ~None(e)
  BY EndsOfFacts, LenProperties DEF TypeOK, QuinnTypeOK, None
<1>2. PICK q \in StreamsOf(e) : q = <<e, Len(opened[e]) + 1>>
  BY <1>1, NextStream
<1>3. PICK r \in Registration(p) : r = [end |-> e, stream |-> NewStream(i, "Reliable"), quic |-> q]
  <2>1. NewStream(i, "Reliable") \in StreamId
    BY NewHandle DEF Reliability
  <2>. QED
    BY <2>1, RegistrationMembers
<1>4. /\ streamReg' = [streamReg EXCEPT ![p] = Append(@, r)]
      /\ reading' = [reading EXCEPT ![<<q, Other(e)>>] = "running"]
      /\ UNCHANGED <<conn, backlog>>
  BY <1>2, <1>3 DEF OpenStream, acceptVars
<1>5. RegistrationsOK'
  <2>1. r.end = e
    BY <1>3
  <2>. QED
    BY <1>1, <1>4, <2>1, SameConn, RegistrationsAdd DEF NewsInv
<1>6. Reader(<<q, Other(e)>>) = e
  BY <1>1, StreamHalves
<1>7. \A h \in Halves : h # <<q, Other(e)>> => reading'[h] = reading[h]
  BY <1>4 DEF TypeOK, QuinnTypeOK
<1>. QED
  BY <1>1, <1>4, <1>5, <1>6, <1>7

LEMMA CreateNews ==
    ASSUME IndType, TypeOK', NewsInv, NEW p \in Peers,
           CreateReliable(p) \/ CreateWaits(p) \/ CreateDropped(p) \/ CreateUnreliable(p)
    PROVE  NewsInv'
<1>1. HandlesQuietly(p, "CreateStream") /\ UNCHANGED events /\ TypeOK
  BY DEF CreateReliable, CreateWaits, CreateDropped, CreateUnreliable, IndType
<1>2. PICK e \in Ends : e = HeadEnd(p) /\ e \in EndsOf(p) /\ ~None(e)
  BY <1>1, HeadThere DEF OfConnection
<1>3. e = Head(cmds[p]).conn
  BY <1>2 DEF HeadEnd
<1>4. PICK i \in StreamId : i = Head(cmds[p]).index
  BY <1>1, QuietType, HeadParts
<1>5. CASE CreateReliable(p)
  <2>1. OpenStream(p, e, i) /\ conn[e] = "up" /\ Head(cmds[p]).reliability = "Reliable"
    BY <1>3, <1>4, <1>5 DEF CreateReliable
  <2>2. Len(opened[e]) < MaxStreams
    BY <1>1, <1>3, <2>1, CreateHead
  <2>3. /\ UNCHANGED <<conn, backlog>> /\ RegistrationsOK'
        /\ \A h \in Halves : reading'[h] = "running" => reading[h] = "running" \/ ~None(Reader(h))
    BY <1>1, <1>2, <2>1, <2>2, OpenNews
  <2>. QED
    BY <1>1, <2>3, CommandNews
<1>6. CASE CreateWaits(p) \/ CreateDropped(p)
  <2>1. UNCHANGED <<backlog, streamReg, conn, reading>>
    BY <1>6 DEF CreateWaits, CreateDropped, quicVars, acceptVars, mapVars, quinnVars
  <2>. QED
    BY <1>1, <2>1, CommandNews
<1>7. CASE CreateUnreliable(p)
  <2>1. PICK k \in Reliability : k = Head(cmds[p]).reliability
    BY <1>1, QuietType, HeadParts
  <2>2. PICK r \in Registration(p) : r = [end |-> e, stream |-> NewStream(i, k), quic |-> NoStream]
    <3>1. NewStream(i, k) \in StreamId
      BY NewHandle
    <3>. QED
      BY <1>2, <3>1, RegistrationMembers
  <2>3. /\ streamReg' = [streamReg EXCEPT ![p] = Append(@, r)]
        /\ UNCHANGED <<conn, backlog, reading>>
    BY <1>3, <1>4, <1>7, <2>1, <2>2 DEF CreateUnreliable, acceptVars, quinnVars
  <2>4. RegistrationsOK'
    <3>1. r.end = e
      BY <2>2
    <3>. QED
      BY <1>1, <1>2, <2>3, <3>1, SameConn, RegistrationsAdd DEF NewsInv
  <2>. QED
    BY <1>1, <2>3, <2>4, CommandNews
<1>. QED
  BY <1>5, <1>6, <1>7

LEMMA CreateResumesNews ==
    ASSUME IndType, TypeOK', NewsInv, NEW p \in Peers, CreateResumes(p)
    PROVE  NewsInv'
<1>1. TypeOK /\ opening[p] # <<>> /\ UNCHANGED peerVars
  BY DEF CreateResumes, IndType
<1>2. PICK e \in Ends, i \in StreamId : /\ e = Head(opening[p]).end /\ i = Head(opening[p]).index
                                        /\ e \in EndsOf(p) /\ Owner(e) = p
  BY <1>1, OpeningHead
<1>3. conn[e] = "up" /\ OpenStream(p, e, i)
  BY <1>2 DEF CreateResumes
<1>4. Len(opened[e]) < MaxStreams
  <2>1. /\ Asked(e) <= next_stream_id[p] /\ Len(opened[e]) \in Nat
        /\ Count(cmds[p], Creates(e)) \in Nat /\ next_stream_id[p] \in 0 .. MaxStreams
    BY <1>1, <1>2, AskedType DEF IndType, CreatesOK
  <2>2. Opening(e) = 1
    BY <1>1, <1>2 DEF Opening
  <2>3. Asked(e) = Len(opened[e]) + 1 + Count(cmds[p], Creates(e))
    BY <1>2, <2>2 DEF Asked
  <2>. QED
    BY <2>1, <2>3, MaxStreamsAssumption
<1>5. /\ UNCHANGED <<conn, backlog>> /\ RegistrationsOK'
      /\ \A h \in Halves : reading'[h] = "running" => reading[h] = "running" \/ ~None(Reader(h))
  BY <1>1, <1>2, <1>3, <1>4, OpenNews
<1>6. UNCHANGED <<cmds, events>>
  BY <1>1 DEF peerVars
<1>. QED
  BY <1>1, <1>5, <1>6, SameCommands, NewsFrame

-------------------------------------------------------------------------------
(* The news is kept: the readers, past the loop                            *)

LEMMA MessageTold ==
    ASSUME TypeOK, NewsInv, NEW e \in Ends, ~None(e), NEW m \in Packet,
           Emit(Owner(e), <<Message(e, m)>>), UNCHANGED conn
    PROVE  HeardOK'
<1>1. /\ Owner(e) \in Peers /\ e \in EndsOf(Owner(e)) /\ Concerns(Message(e, m), e)
      /\ Message(e, m) # Connected(e)
  BY EndFacts, LaterEvents
<1>2. Message(e, m) \in Events[Owner(e)]
  BY <1>1, EventTypes
<1>. QED
  BY <1>1, <1>2, SameConn, HeardLater DEF NewsInv

LEMMA ReadDatagramNews ==
    ASSUME TypeOK, TypeOK', NewsInv, NEW e \in Ends, NEW m \in Packet, ReadDatagram(e, m)
    PROVE  NewsInv'
<1>1. /\ ~None(e) /\ Emit(Owner(e), <<Message(e, m)>>) /\ UNCHANGED <<cmds, conn, backlog, reading>>
  BY DEF ReadDatagram, Reads, None, acceptVars, quinnVars
<1>2. HeardOK'
  BY <1>1, MessageTold
<1>3. UNCHANGED streamReg \/ RegistrationsOK'
  <2>1. PICK r \in Registration(Owner(e)) :
            r = [end |-> e, stream |-> m.stream, quic |-> NoStream]
    BY EndFacts, RegistrationMembers DEF Packet
  <2>2. UNCHANGED streamReg \/ streamReg' = [streamReg EXCEPT ![Owner(e)] = Append(@, r)]
    BY <2>1 DEF ReadDatagram
  <2>3. r.end = e
    BY <2>1
  <2>. QED
    BY <1>1, <2>2, <2>3, EndFacts, SameConn, RegistrationsAdd DEF NewsInv
<1>. QED
  BY <1>1, <1>2, <1>3, SameCommands, NewsFrame

LEMMA AcceptStreamNews ==
    ASSUME TypeOK, TypeOK', NewsInv, NEW e \in Ends, AcceptStream(e)
    PROVE  NewsInv'
<1>1. ~None(e) /\ UNCHANGED <<cmds, events, conn, backlog>> /\ taken[e] < Len(opened[Other(e)])
  BY DEF AcceptStream, Reads, None, peerVars, acceptVars
<1>2. PICK q \in StreamsOf(e), half \in Halves :
               /\ q = <<Other(e), taken[e] + 1>> /\ half = <<q, Other(e)>>
               /\ opened[Other(e)][q[2]] \in StreamId /\ Reader(half) = e
  BY <1>1, NextTaken
<1>3. PICK s \in StreamId : s = NewStream(opened[Other(e)][q[2]], "Reliable")
  BY <1>2, NewHandle DEF Reliability
<1>4. Owner(e) \in Peers /\ e \in EndsOf(Owner(e))
  BY EndFacts
<1>5. PICK r \in Registration(Owner(e)) : r = [end |-> e, stream |-> s, quic |-> q]
  BY <1>4, RegistrationMembers
<1>6. r.end = e
  BY <1>5
<1>7. /\ streamReg' = [streamReg EXCEPT ![Owner(e)] = Append(@, r)]
      /\ reading' = [reading EXCEPT ![half] = "running"]
  BY <1>2, <1>3, <1>5 DEF AcceptStream
<1>8. RegistrationsOK'
  BY <1>1, <1>4, <1>6, <1>7, SameConn, RegistrationsAdd DEF NewsInv
<1>9. \A h \in Halves : reading'[h] = "running" => reading[h] = "running" \/ ~None(Reader(h))
  <2>1. \A h \in Halves : h # half => reading'[h] = reading[h]
    BY <1>7 DEF TypeOK, QuinnTypeOK
  <2>. QED
    BY <1>1, <1>2, <2>1
<1>. QED
  BY <1>1, <1>8, <1>9, SameCommands, NewsFrame

LEMMA ReadHalfNews ==
    ASSUME TypeOK, TypeOK', NewsInv, NEW h \in Halves, ReadHalf(h)
    PROVE  NewsInv'
<1>1. CASE ReadFrame(h)
  <2>1. /\ pipe[h] # <<>> /\ reading[h] = "running"
        /\ UNCHANGED <<cmds, conn, backlog, streamReg, reading>>
    BY <1>1 DEF ReadFrame, acceptVars, mapVars
  <2>2. PICK e \in Ends, m \in Packet : e = Reader(h) /\ Emit(Owner(e), <<Message(e, m)>>)
    BY <1>1, FrameParts
  <2>4. ~None(e)
    BY <2>1, <2>2 DEF NewsInv, ReadersOK
  <2>5. HeardOK'
    BY <2>1, <2>2, <2>4, MessageTold
  <2>. QED
    BY <2>1, <2>5, SameCommands, NewsFrame
<1>2. CASE ReadEnd(h)
  <2>1. UNCHANGED <<cmds, events, conn, backlog, streamReg>>
    BY <1>2 DEF ReadEnd, peerVars, acceptVars, mapVars
  <2>2. \A g \in Halves : reading'[g] = "running" => reading[g] = "running"
    BY <1>2 DEF ReadEnd, TypeOK, QuinnTypeOK
  <2>. QED
    BY <2>1, <2>2, SameCommands, NewsFrame
<1>. QED
  BY <1>1, <1>2 DEF ReadHalf

-------------------------------------------------------------------------------
(* The news is kept: connections come and go                               *)

LEMMA LoseNews ==
    ASSUME TypeOK, TypeOK', NewsInv, NEW e \in Ends, Lose(e)
    PROVE  NewsInv'
<1>1. /\ UNCHANGED <<cmds, events, backlog, streamReg, reading>>
      /\ conn[e] = "up" /\ conn' = [conn EXCEPT ![e] = "lost"]
  BY DEF Lose, peerVars, acceptVars, mapVars
<1>2. SameNone /\ Stays /\ SameDialed
  BY <1>1, ClientEnds DEF SameNone, Stays, SameDialed, None, TypeOK, QuinnTypeOK
<1>3. HeardOK' /\ BacklogOK' /\ CommandsOK'
  BY <1>1, <1>2, HeardFrame, BacklogFrame, CommandsFrame DEF NewsInv, CommandsOK
<1>4. RegistrationsOK' /\ ReadersOK'
  BY <1>1, <1>2, RegistrationsFrame, ReadersFrame DEF NewsInv
<1>. QED
  BY <1>3, <1>4 DEF NewsInv, CommandsOK

LEMMA StopNews ==
    ASSUME TypeOK, TypeOK', NewsInv, NEW p \in Peers, Stop(p)
    PROVE  NewsInv'
<1>1. /\ ThreadExits(p) /\ UNCHANGED events
      /\ streamReg' = [streamReg EXCEPT ![p] = <<>>]
      /\ conn' = [e \in Ends |-> IF Owner(e) = p /\ conn[e] # "none" THEN "closed" ELSE conn[e]]
      /\ backlog' = <<>> \/ UNCHANGED backlog
      /\ \A h \in Halves : reading'[h] = "running" => reading[h] = "running"
  BY DEF Stop, acceptVars
<1>2. SameNone /\ Stays /\ SameDialed
  BY <1>1, ClientEnds DEF SameNone, Stays, SameDialed, None
<1>3. HeardOK' /\ BacklogOK' /\ CommandsOK'
  BY <1>1, <1>2, HeardFrame, BacklogFrame, BacklogEmpty, CommandsStop DEF NewsInv, CommandsOK
<1>4. RegistrationsOK'
  <2>1. DOMAIN streamReg = Peers
    BY DEF TypeOK, MapTypeOK
  <2>2. \A q \in Peers : streamReg'[q] = streamReg[q] \/ streamReg'[q] = <<>>
    BY <1>1, <2>1
  <2>3. \A q \in Peers : streamReg'[q] = <<>> => Elems(streamReg'[q]) = {}
    BY DEF Elems
  <2>4. \A q \in Peers : \/ streamReg'[q] = streamReg[q]
                         \/ \A r \in Elems(streamReg'[q]) : r \in Elems(streamReg[q]) \/ ~None(r.end)'
    BY <2>2, <2>3
  <2>. QED
    BY <1>2, <2>4, RegistrationsFrame DEF NewsInv
<1>5. ReadersOK'
  BY <1>1, <1>2, ReadersFrame DEF NewsInv
<1>. QED
  BY <1>3, <1>4, <1>5 DEF NewsInv, CommandsOK

LEMMA HandshakeFailsNews ==
    ASSUME TypeOK, TypeOK', NewsInv, HandshakeFails
    PROVE  NewsInv'
<1>1. CASE Stop(Server)
  BY <1>1, ServerIsPeer, StopNews
<1>2. CASE backlog' = <<>> /\ UNCHANGED <<peerVars, mapVars, quinnVars>>
  <2>1. UNCHANGED <<cmds, events, streamReg, conn, reading>>
    BY <1>2 DEF peerVars, mapVars, quinnVars
  <2>2. SameNone /\ Stays
    BY <2>1, SameConn
  <2>3. HeardOK' /\ BacklogOK' /\ CommandsOK' /\ RegistrationsOK' /\ ReadersOK'
    BY <1>2, <2>1, <2>2, HeardFrame, BacklogEmpty, SameCommands, RegistrationsFrame, ReadersFrame
    DEF NewsInv
  <2>. QED
    BY <2>3 DEF NewsInv, CommandsOK
<1>. QED
  BY <1>1, <1>2 DEF HandshakeFails

\* An end gets its connection, and its application is told in the same step.
LEMMA GetNews ==
    ASSUME TypeOK, TypeOK', HeardOK, NEW e \in Ends, None(e), conn' = [conn EXCEPT ![e] = "up"],
           Emit(Owner(e), <<Connected(e)>>)
    PROVE  /\ HeardOK' /\ Stays /\ ~None(e)' /\ \A f \in Ends \ {e} : None(f)' <=> None(f)
<1>1. \A f \in Ends : None(f)' <=> None(f) /\ f # e
  BY DEF None, TypeOK, QuinnTypeOK
<1>2. /\ Owner(e) \in Peers /\ Connected(e) \in Events[Owner(e)] /\ Concerns(Connected(e), e)
  BY EndFacts, EventTypes, LaterEvents
<1>3. HeardOK'
  BY <1>1, <1>2, HeardTell
<1>. QED
  BY <1>1, <1>3 DEF Stays

LEMMA SameReaders ==
    ASSUME NewsInv, Stays, UNCHANGED reading
    PROVE  ReadersOK'
BY ReadersFrame DEF NewsInv

LEMMA ConnectNews ==
    ASSUME TypeOK, TypeOK', NewsInv, NEW c \in Clients, Connect(c)
    PROVE  NewsInv'
<1>1. PICK e \in Ends : /\ e = <<c, "dial">> /\ Owner(e) = c /\ c \in Peers
                        /\ Other(e) \in AcceptEnds /\ Other(Other(e)) = e /\ e \in DialEnds
  BY ClientEnds, EndFacts
<1>2. /\ HandlesQuietly(c, "Connect") /\ backlog' = Append(backlog, Other(e))
      /\ conn' = [conn EXCEPT ![e] = "up"] /\ Emit(c, <<Connected(e)>>)
      /\ UNCHANGED <<streamReg, reading>>
  BY <1>1 DEF Connect
<1>3. cmds[c] # <<>> /\ cmds' = [cmds EXCEPT ![c] = Tail(@)] /\ Head(cmds[c]).type = "Connect"
      /\ cmds[c] \in Seq(Commands[c]) /\ Head(cmds[c]) \in Command(EndsOf(c), Packet)
      /\ Queued(c)' \subseteq Queued(c) /\ \A q \in Peers \ {c} : cmds'[q] = cmds[q]
  BY <1>1, <1>2, QueueTypes, QuietType DEF TakeCommand
<1>4. Head(cmds[c]) = ConnectCmd
  BY <1>3 DEF Command, BindCmd, ConnectCmd, ShutdownCmd, SendCmd, CreateStreamCmd, CloseStreamCmd
<1>5. cmds'[c] = Tail(cmds[c]) /\ Tail(cmds[c]) \in Seq(Commands[c])
  BY <1>1, <1>3, HeadTailProperties DEF TypeOK, PeerTypeOK, CommandsTypeOK
<1>6. PICK left \in Nat : left = Count(Tail(cmds[c]), {ConnectCmd}) /\ Dials(c) = left + 1
  <2>1. Count(cmds[c], {ConnectCmd}) = Count(Tail(cmds[c]), {ConnectCmd})
                                          + (IF Head(cmds[c]) \in {ConnectCmd} THEN 1 ELSE 0)
    BY <1>3, CountTail
  <2>2. Count(Tail(cmds[c]), {ConnectCmd}) \in Nat
    BY <1>5, CountType
  <2>. QED
    BY <1>4, <2>1, <2>2 DEF Dials
\* The one dial that was queued: the client has no connection yet.
<1>7. None(e) /\ left = 0
  <2>1. Dials(c) <= IF None(<<c, "dial">>) THEN 1 ELSE 0
    BY DEF NewsInv, DialsOK
  <2>. QED
    BY <1>1, <1>6, <2>1
<1>8. HeardOK' /\ Stays /\ ~None(e)' /\ \A f \in Ends \ {e} : None(f)' <=> None(f)
  BY <1>1, <1>2, <1>7, GetNews DEF NewsInv
<1>9. CallsOK'
  <2> SUFFICES ASSUME NEW p \in Peers, NEW x \in Queued(p)', x.type \in OfConnection
               PROVE  ~None(x.conn)'
    BY DEF CallsOK
  <2>1. x \in Queued(p)
    BY <1>3 DEF Queued, Elems
  <2>2. Queued(p) \subseteq Command(EndsOf(p), Packet)
    BY QueueTypes, ElemsType DEF Queued
  <2>3. x.conn \in Ends /\ ~None(x.conn)
    BY <2>1, <2>2, PartsOfCommand, EndsOfFacts DEF OfConnection, NewsInv, CallsOK
  <2>. QED
    BY <1>8, <2>3 DEF Stays
<1>10. ASSUME NEW d \in Clients PROVE Dials(d)' <= IF None(<<d, "dial">>)' THEN 1 ELSE 0
  <2>1. CASE d = c
    <3>1. PICK t : t = cmds'[c] /\ t = Tail(cmds[c])
      BY <1>5
    <3>2. Dials(d)' = Count(t, {ConnectCmd})
      BY <2>1, <3>1 DEF Dials, Count, At, ConnectCmd
    <3>3. Dials(d)' = 0
      BY <1>6, <1>7, <3>1, <3>2
    <3>. QED
      BY <3>3
  <2>2. CASE d # c
    <3>1. /\ <<d, "dial">> \in Ends /\ Owner(<<d, "dial">>) = d /\ d \in Peers
      BY ClientEnds
    <3>2. <<d, "dial">> # e
      BY <1>1, <2>2, <3>1
    <3>3. None(<<d, "dial">>)' <=> None(<<d, "dial">>)
      BY <1>8, <3>1, <3>2
    <3>4. Dials(d)' = Dials(d)
      BY <1>3, <2>2, <3>1 DEF Dials, Count, At, ConnectCmd
    <3>5. Dials(d) <= IF None(<<d, "dial">>) THEN 1 ELSE 0
      BY DEF NewsInv, DialsOK
    <3>. QED
      BY <3>3, <3>4, <3>5
  <2>. QED
    BY <2>1, <2>2
<1>11. DialsOK'
  BY <1>10, Zenon DEF DialsOK
<1>12. BacklogOK'
  <2>1. backlog \in Seq(AcceptEnds)
    BY DEF TypeOK, AcceptTypeOK
  <2>2. PICK b : b = backlog' /\ b = Append(backlog, Other(e))
    BY <1>2
  <2>3. ASSUME NEW a \in AcceptEnds
        PROVE  /\ Count(b, {a}) <= IF None(a)' /\ ~None(Other(a))' THEN 1 ELSE 0
               /\ None(Other(a))' => None(a)'
    <3>1. /\ Count(b, {a}) = Count(backlog, {a}) + (IF Other(e) \in {a} THEN 1 ELSE 0)
          /\ Count(backlog, {a}) \in Nat
      BY <1>1, <2>1, <2>2, CountAppend, CountType
    <3>2. /\ Count(backlog, {a}) <= IF None(a) /\ ~None(Other(a)) THEN 1 ELSE 0
          /\ None(Other(a)) => None(a)
      BY DEF NewsInv, BacklogOK
    <3>3. /\ a \in Ends /\ Other(a) \in Ends /\ Other(Other(a)) = a /\ a # e
      BY <1>1, AcceptEndFacts, EndFacts DEF DialEnds, AcceptEnds
    <3>4. None(a)' <=> None(a)
      BY <1>8, <3>3
    <3>5. CASE Other(a) = e
      <4>1. Other(e) = a /\ ~None(Other(a))' /\ Count(backlog, {a}) = 0 /\ None(a)
        BY <1>1, <1>7, <1>8, <3>1, <3>2, <3>3, <3>5
      <4>. QED
        BY <3>1, <3>4, <4>1
    <3>6. CASE Other(a) # e
      <4>1. Other(e) # a /\ (None(Other(a))' <=> None(Other(a)))
        BY <1>1, <1>8, <3>3, <3>6
      <4>. QED
        BY <3>1, <3>2, <3>4, <4>1
    <3>. QED
      BY <3>5, <3>6
  <2>4. \A a \in AcceptEnds : Count(backlog, {a})' = Count(b, {a})
    BY <2>2 DEF Count, At
  <2>. QED
    BY <2>3, <2>4 DEF BacklogOK
<1>13. RegistrationsOK' /\ ReadersOK'
  BY <1>2, <1>8, RegistrationsFrame, SameReaders DEF NewsInv
<1>. QED
  BY <1>8, <1>9, <1>11, <1>12, <1>13 DEF NewsInv

LEMMA AcceptNews ==
    ASSUME TypeOK, TypeOK', NewsInv, Accept
    PROVE  NewsInv'
<1>1. /\ backlog \in Seq(AcceptEnds) /\ backlog # <<>> /\ backlog' = Tail(backlog)
      /\ UNCHANGED <<cmds, streamReg, reading>>
  BY DEF TypeOK, AcceptTypeOK, Accept, mapVars
<1>2. PICK e \in AcceptEnds : e = Head(backlog) /\ Tail(backlog) \in Seq(AcceptEnds)
  BY <1>1, HeadTailProperties
<1>3. e \in Ends /\ Owner(e) = Server /\ Other(e) \in DialEnds /\ Other(e) \in Ends
  BY AcceptEndFacts, EndFacts
<1>4. conn' = [conn EXCEPT ![e] = "up"] /\ Emit(Owner(e), <<Connected(e)>>)
  BY <1>2, <1>3 DEF Accept
<1>5. \A a \in AcceptEnds : /\ Count(backlog, {a}) = Count(Tail(backlog), {a}) + (IF e \in {a} THEN 1 ELSE 0)
                            /\ Count(Tail(backlog), {a}) \in Nat
  BY <1>1, <1>2, CountTail, CountType
<1>6. \A a \in AcceptEnds : /\ Count(backlog, {a}) <= IF None(a) /\ ~None(Other(a)) THEN 1 ELSE 0
                            /\ None(Other(a)) => None(a)
  BY DEF NewsInv, BacklogOK
<1>7. None(e) /\ ~None(Other(e)) /\ Count(Tail(backlog), {e}) = 0
  BY <1>5, <1>6
<1>8. HeardOK' /\ Stays /\ ~None(e)' /\ \A f \in Ends \ {e} : None(f)' <=> None(f)
  BY <1>3, <1>4, <1>7, GetNews DEF NewsInv
<1>9. CommandsOK'
  <2>1. SameDialed
    <3> SUFFICES ASSUME NEW c \in Clients PROVE None(<<c, "dial">>)' <=> None(<<c, "dial">>)
      BY Zenon DEF SameDialed
    <3>1. <<c, "dial">> \in Ends /\ e = <<e[1], "accept">>
      BY ClientEnds, AcceptEndFacts
    <3>2. <<c, "dial">> # e
      BY <3>1
    <3>. QED
      BY <1>8, <3>1, <3>2
  <2>. QED
    BY <1>1, <1>8, <2>1, CommandsFrame DEF NewsInv, CommandsOK
<1>10. BacklogOK'
  <2>1. PICK b : b = backlog' /\ b = Tail(backlog)
    BY <1>1
  <2>2. ASSUME NEW a \in AcceptEnds
        PROVE  /\ Count(b, {a}) <= IF None(a)' /\ ~None(Other(a))' THEN 1 ELSE 0
               /\ None(Other(a))' => None(a)'
    <3>1. a \in Ends /\ Other(a) \in Ends /\ Other(a) # e
      BY AcceptEndFacts, EndFacts DEF DialEnds, AcceptEnds
    <3>2. None(Other(a))' <=> None(Other(a))
      BY <1>8, <3>1
    <3>3. CASE a = e
      BY <1>7, <2>1, <3>2, <3>3
    <3>4. CASE a # e
      <4>1. None(a)' <=> None(a)
        BY <1>8, <3>1, <3>4
      <4>2. Count(backlog, {a}) = Count(b, {a})
        BY <1>5, <2>1, <3>4
      <4>. QED
        BY <1>6, <3>2, <4>1, <4>2
    <3>. QED
      BY <3>3, <3>4
  <2>3. \A a \in AcceptEnds : Count(backlog, {a})' = Count(b, {a})
    BY <2>1 DEF Count, At
  <2>. QED
    BY <2>2, <2>3 DEF BacklogOK
<1>11. RegistrationsOK' /\ ReadersOK'
  BY <1>1, <1>8, RegistrationsFrame, SameReaders DEF NewsInv
<1>. QED
  BY <1>8, <1>9, <1>10, <1>11 DEF NewsInv, CommandsOK

-------------------------------------------------------------------------------
LEMMA NewsInit == Init => NewsInv
<1> SUFFICES ASSUME Init PROVE NewsInv
  OBVIOUS
<1>1. /\ \A p \in Peers : cmds[p] = <<>> /\ events[p] = <<>> /\ streamReg[p] = <<>>
      /\ \A e \in Ends : None(e)
      /\ backlog = <<>> /\ \A h \in Halves : reading[h] = "none"
  BY DEF Init, PeerInit, None
<1>2. \A p \in Peers : Queued(p) = {} /\ Told(p) = {} /\ Elems(streamReg[p]) = {}
  BY <1>1 DEF Queued, Told, Elems
<1>3. HeardOK
  <2>1. \A p \in Peers : InSequence(events[p])
    BY <1>1 DEF InSequence
  <2>. QED
    BY <1>1, <1>2, <2>1, EndFacts DEF HeardOK, Heard
<1>4. ASSUME NEW c \in Clients PROVE Dials(c) = 0
  <2>1. PICK none : none = cmds[c] /\ Count(none, {ConnectCmd}) = 0
    BY <1>1, CountEmpty, ClientEnds
  <2>. QED
    BY <2>1 DEF Dials
<1>5. \A a \in AcceptEnds : Count(backlog, {a}) = 0 /\ None(a)
  BY <1>1, CountEmpty, AcceptEndFacts
<1>6. DialsOK /\ BacklogOK
  <2>1. ASSUME NEW c \in Clients PROVE Dials(c) <= IF None(<<c, "dial">>) THEN 1 ELSE 0
    BY <1>4
  <2>2. ASSUME NEW a \in AcceptEnds
        PROVE  Count(backlog, {a}) <= IF None(a) /\ ~None(Other(a)) THEN 1 ELSE 0
    BY <1>5
  <2>. QED
    BY <1>5, <2>1, <2>2, Zenon DEF DialsOK, BacklogOK
<1>. QED
  BY <1>1, <1>2, <1>3, <1>6 DEF NewsInv, CallsOK, RegistrationsOK, ReadersOK

LEMMA NewsStutter ==
    ASSUME TypeOK, TypeOK', NewsInv, UNCHANGED vars
    PROVE  NewsInv'
<1>1. UNCHANGED <<cmds, events, backlog, streamReg, conn, reading>>
  BY DEF vars, quicVars, peerVars, acceptVars, mapVars, quinnVars
<1>. QED
  BY <1>1, SameCommands, NewsFrame

LEMMA NewsNext == IndType /\ NewsInv /\ [Next]_vars => NewsInv'
<1> SUFFICES ASSUME IndType, NewsInv, [Next]_vars PROVE NewsInv'
  OBVIOUS
<1>1. TypeOK /\ TypeOK'
  BY NextType DEF IndType
<1>2. ASSUME NEW p \in Peers, HandleCommand(p) PROVE NewsInv'
  <2>1. CASE BindFails \/ ConnectFails(p) \/ CreatePanics(p) \/ BackendShutdown(p)
    <3>1. Panic(Server) \/ Panic(p) \/ BackendShutdown(p)
      BY <2>1 DEF BindFails, ConnectFails, CreatePanics
    <3>2. Stop(Server) \/ Stop(p)
      BY <3>1 DEF Panic, BackendShutdown
    <3>. QED
      BY <1>1, <3>2, ServerIsPeer, StopNews
  <2>2. CASE Bind \/ (p \in Clients /\ Connect(p))
    BY <1>1, <2>2, BindNews, ConnectNews
  <2>3. CASE SendStep(p)
    BY <1>1, <2>3, SendNews
  <2>4. CASE CreateReliable(p) \/ CreateWaits(p) \/ CreateDropped(p) \/ CreateUnreliable(p)
    BY <1>1, <2>4, CreateNews
  <2>5. CASE BackendCloseStream(p)
    BY <1>1, <2>5, CloseStreamNews
  <2>. QED
    BY <1>2, <2>1, <2>2, <2>3, <2>4, <2>5 DEF HandleCommand, CreateStep
<1>3. ASSUME NEW p \in Peers, Resume(p) PROVE NewsInv'
  <2>1. CASE OpeningPanics(p)
    BY <1>1, <2>1, StopNews DEF OpeningPanics, Panic
  <2>. QED
    BY <1>1, <1>3, <2>1, WriteNews, CreateResumesNews DEF Resume
<1>4. ASSUME NEW d \in net, ReadDatagram(d[1], d[2]) PROVE NewsInv'
  <2>1. d[1] \in Ends /\ d[2] \in Packet
    BY <1>1 DEF TypeOK, HistoryTypeOK
  <2>. QED
    BY <1>1, <1>4, <2>1, ReadDatagramNews
<1>5. ASSUME NEW e \in Ends, AcceptStream(e) \/ Break(e) \/ Notice(e) PROVE NewsInv'
  BY <1>1, <1>5, AcceptStreamNews, LoseNews DEF Break, Notice
<1>. QED
  BY <1>1, <1>2, <1>3, <1>4, <1>5, AppNews, RegisterStreamNews, RegisterConnectionNews, AcceptNews,
     HandshakeFailsNews, ReadHalfNews, NewsStutter DEF Next

(***************************************************************************)
(* In every process the application hears of a connection once and before  *)
(* anything else of it, although the accept task, the loop and the readers *)
(* of a connection write to its queue in any order.                        *)
(***************************************************************************)
THEOREM ConnectedTheorem == Spec => []ConnectedOnceAndFirst
<1>1. TypeOK /\ NewsInv => ConnectedOnceAndFirst
  <2> SUFFICES ASSUME TypeOK, NewsInv, NEW p \in Peers, NEW j \in DOMAIN events[p],
                      "conn" \in DOMAIN events[p][j]
               PROVE  events[p][j] = Connected(events[p][j].conn)
                          <=> \A earlier \in Before(p, j) : ~Concerns(earlier, events[p][j].conn)
    BY DEF ConnectedOnceAndFirst
  <2>1. InSequence(events[p]) /\ j \in 1 .. Len(events[p])
    BY QueueTypes, LenProperties DEF NewsInv, HeardOK
  <2>2. MayFollow(events[p][j], Before(p, j))
    BY <2>1 DEF InSequence, Before, Earlier
  <2>. QED
    BY <2>2 DEF MayFollow
<1>2. IndType => TypeOK
  BY DEF IndType
<1>. QED
  BY <1>1, <1>2, InitType, NextType, NewsInit, NewsNext, PTL DEF Spec

(***************************************************************************)
(* Part three: what becomes of the sends of a dialing side.                *)
(***************************************************************************)

-------------------------------------------------------------------------------
(* What is counted                                                         *)

LEMMA DialEndFacts ==
    ASSUME NEW e \in DialEnds
    PROVE  /\ e \in Ends /\ Owner(e) \in Peers /\ Owner(e) \in Clients /\ Owner(e) # Server
           /\ e = <<Owner(e), "dial">> /\ EndsOf(Owner(e)) = {e} /\ e \notin AcceptEnds
BY QuicAssumption DEF Ends, DialEnds, AcceptEnds, Clients, Owner, EndsOf

Sends(e) == {x \in Commands[Owner(e)] : x.type = "Send" /\ x.conn = e}

\* The queue holds so many sends of e, and so many were reported.
LEMMA QueuedAre ==
    ASSUME NEW p \in Peers, NEW e, Owner(e) = p, NEW q \in Seq(Commands[p])
    PROVE  {i \in DOMAIN q : q[i].type = "Send" /\ q[i].conn = e} = At(q, Sends(e))
<1>1. \A i \in DOMAIN q : q[i] \in Commands[p]
  BY LenProperties, ElementOfSeq
<1>. QED
  BY <1>1 DEF At, Sends

LEMMA QueuedCount ==
    ASSUME TypeOK, NEW e \in Ends
    PROVE  SendsQueued(e) = Count(cmds[Owner(e)], Sends(e)) /\ SendsQueued(e) \in Nat
<1>1. Owner(e) \in Peers /\ cmds[Owner(e)] \in Seq(Commands[Owner(e)])
  BY EndFacts, QueueTypes
<1>2. {i \in DOMAIN cmds[Owner(e)] :
           cmds[Owner(e)][i].type = "Send" /\ cmds[Owner(e)][i].conn = e}
         = At(cmds[Owner(e)], Sends(e))
  BY <1>1, QueuedAre
<1>. QED
  BY <1>1, <1>2, CountType DEF SendsQueued, Count

LEMMA QueuedCountNext ==
    ASSUME TypeOK', NEW e \in Ends, NEW q, q = cmds'[Owner(e)]
    PROVE  /\ q \in Seq(Commands[Owner(e)])
           /\ SendsQueued(e)' = Count(q, Sends(e)) /\ SendsQueued(e)' \in Nat
<1>1. Owner(e) \in Peers /\ q \in Seq(Commands[Owner(e)])
  BY EndFacts DEF TypeOK, PeerTypeOK, CommandsTypeOK
<1>2. {i \in DOMAIN q : q[i].type = "Send" /\ q[i].conn = e} = At(q, Sends(e))
  BY <1>1, QueuedAre
<1>3. Count(q, Sends(e)) \in Nat
  BY <1>1, CountType
<1>4. SendsQueued(e)' = Cardinality({i \in DOMAIN q : q[i].type = "Send" /\ q[i].conn = e})
  BY DEF SendsQueued
<1>. QED
  BY <1>1, <1>2, <1>3, <1>4 DEF Count

LEMMA FailedCount ==
    ASSUME TypeOK, NEW e \in Ends
    PROVE  SendsFailed(e) = Count(events[Owner(e)], {SendFailed(e)}) /\ SendsFailed(e) \in Nat
<1>1. Owner(e) \in Peers /\ events[Owner(e)] \in Seq(Events[Owner(e)])
  BY EndFacts, QueueTypes
<1>2. {i \in DOMAIN events[Owner(e)] : events[Owner(e)][i] = SendFailed(e)}
         = At(events[Owner(e)], {SendFailed(e)})
  BY DEF At
<1>. QED
  BY <1>1, <1>2, CountType DEF SendsFailed, Count

LEMMA FailedCountNext ==
    ASSUME TypeOK', NEW e \in Ends, NEW t, t = events'[Owner(e)]
    PROVE  SendsFailed(e)' = Count(t, {SendFailed(e)}) /\ SendsFailed(e)' \in Nat
<1>1. Owner(e) \in Peers /\ t \in Seq(Events[Owner(e)])
  BY EndFacts DEF TypeOK, PeerTypeOK, EventsTypeOK
<1>2. {i \in DOMAIN t : t[i] = SendFailed(e)} = At(t, {SendFailed(e)})
  BY DEF At
<1>3. Count(t, {SendFailed(e)}) \in Nat
  BY <1>1, CountType
<1>4. SendsFailed(e)' = Cardinality({i \in DOMAIN t : t[i] = SendFailed(e)})
  BY DEF SendsFailed, SendFailed
<1>. QED
  BY <1>2, <1>3, <1>4 DEF Count

\* What a history of accepted packets holds of e.
AcceptedIn(a, e) == UNION {{stream} \X DOMAIN a[<<e, stream>>] : stream \in StreamId}

LEMMA AcceptedMembers ==
    ASSUME NEW a, NEW e
    PROVE  /\ \A x \in AcceptedIn(a, e) : \E s \in StreamId : \E i \in DOMAIN a[<<e, s>>] : x = <<s, i>>
           /\ \A s \in StreamId : \A i : i \in DOMAIN a[<<e, s>>] <=> <<s, i>> \in AcceptedIn(a, e)
<1>1. ASSUME NEW x \in AcceptedIn(a, e)
      PROVE  \E s \in StreamId : \E i \in DOMAIN a[<<e, s>>] : x = <<s, i>>
  <2>1. PICK s \in StreamId : x \in {s} \X DOMAIN a[<<e, s>>]
    BY DEF AcceptedIn
  <2>2. PICK i \in DOMAIN a[<<e, s>>] : x = <<s, i>>
    BY <2>1
  <2>. QED
    BY <2>2
<1>2. ASSUME NEW s \in StreamId, NEW i
      PROVE  i \in DOMAIN a[<<e, s>>] <=> <<s, i>> \in AcceptedIn(a, e)
  <2>1. ASSUME i \in DOMAIN a[<<e, s>>] PROVE <<s, i>> \in AcceptedIn(a, e)
    <3>1. <<s, i>> \in {s} \X DOMAIN a[<<e, s>>]
      BY <2>1
    <3>. QED
      BY <3>1 DEF AcceptedIn
  <2>2. ASSUME <<s, i>> \in AcceptedIn(a, e) PROVE i \in DOMAIN a[<<e, s>>]
    <3>1. PICK t \in StreamId : <<s, i>> \in {t} \X DOMAIN a[<<e, t>>]
      BY <2>2 DEF AcceptedIn
    <3>2. s = t /\ i \in DOMAIN a[<<e, t>>]
      BY <3>1
    <3>. QED
      BY <3>2
  <2>. QED
    BY <2>1, <2>2
<1>. QED
  BY <1>1, <1>2

\* A packet more.
LEMMA AcceptedGrows ==
    ASSUME NEW a, NEW b, NEW e, NEW s \in StreamId, NEW n, n \notin DOMAIN a[<<e, s>>],
           DOMAIN b[<<e, s>>] = DOMAIN a[<<e, s>>] \cup {n},
           \A t \in StreamId \ {s} : b[<<e, t>>] = a[<<e, t>>],
           IsFiniteSet(AcceptedIn(a, e))
    PROVE  /\ IsFiniteSet(AcceptedIn(b, e))
           /\ Cardinality(AcceptedIn(b, e)) = Cardinality(AcceptedIn(a, e)) + 1
<1>1. <<s, n>> \notin AcceptedIn(a, e)
  BY AcceptedMembers
<1>2. AcceptedIn(b, e) \subseteq AcceptedIn(a, e) \cup {<<s, n>>}
  <2> SUFFICES ASSUME NEW x \in AcceptedIn(b, e) PROVE x \in AcceptedIn(a, e) \cup {<<s, n>>}
    OBVIOUS
  <2>1. PICK t \in StreamId : \E i \in DOMAIN b[<<e, t>>] : x = <<t, i>>
    BY AcceptedMembers
  <2>2. PICK i \in DOMAIN b[<<e, t>>] : x = <<t, i>>
    BY <2>1
  <2>3. i \in DOMAIN a[<<e, t>>] \/ (t = s /\ i = n)
    BY <2>2
  <2>. QED
    BY <2>2, <2>3, AcceptedMembers
<1>3. AcceptedIn(a, e) \cup {<<s, n>>} \subseteq AcceptedIn(b, e)
  <2>1. <<s, n>> \in AcceptedIn(b, e)
    BY AcceptedMembers
  <2>2. ASSUME NEW x \in AcceptedIn(a, e) PROVE x \in AcceptedIn(b, e)
    <3>1. PICK t \in StreamId : \E i \in DOMAIN a[<<e, t>>] : x = <<t, i>>
      BY AcceptedMembers
    <3>2. PICK i \in DOMAIN a[<<e, t>>] : x = <<t, i>>
      BY <3>1
    <3>3. i \in DOMAIN b[<<e, t>>]
      OBVIOUS
    <3>. QED
      BY <3>2, <3>3, AcceptedMembers
  <2>. QED
    BY <2>1, <2>2
<1>4. AcceptedIn(b, e) = AcceptedIn(a, e) \cup {<<s, n>>}
  BY <1>2, <1>3
<1>. QED
  BY <1>1, <1>4, FS_AddElement

LEMMA AcceptedSame ==
    ASSUME NEW a, NEW b, NEW e, \A t \in StreamId : b[<<e, t>>] = a[<<e, t>>]
    PROVE  AcceptedIn(b, e) = AcceptedIn(a, e)
BY DEF AcceptedIn

LEMMA AcceptedCount ==
    ASSUME NEW e \in Ends
    PROVE  /\ SendsAccepted(e) = Cardinality(AcceptedIn(accepted, e))
           /\ SendsAccepted(e)' = Cardinality(AcceptedIn(accepted', e))
BY DEF SendsAccepted, AcceptedIn

\* The step in which quinn is given a packet of e.
LEMMA AcceptsOne ==
    ASSUME TypeOK, NEW e \in Ends, NEW m \in Packet, Accepts(e, m),
           IsFiniteSet(AcceptedIn(accepted, e))
    PROVE  /\ IsFiniteSet(AcceptedIn(accepted', e)) /\ SendsAccepted(e) \in Nat
           /\ SendsAccepted(e)' = SendsAccepted(e) + 1
           /\ \A f \in Ends, s \in StreamId : f # e => accepted'[<<f, s>>] = accepted[<<f, s>>]
<1>1. PICK s \in StreamId, k \in Key : s = m.stream /\ k = <<e, s>>
  BY KeyFacts DEF Packet
<1>2. accepted' = [accepted EXCEPT ![k] = Append(@, m)] /\ accepted \in [Key -> Seq(Packet)]
  BY <1>1 DEF Accepts, TypeOK, HistoryTypeOK
<1>3. PICK n \in Nat : /\ n = Len(accepted[k]) + 1 /\ n \notin DOMAIN accepted[k]
                       /\ DOMAIN Append(accepted[k], m) = DOMAIN accepted[k] \cup {n}
  <2>1. /\ accepted[k] \in Seq(Packet) /\ Len(accepted[k]) \in Nat
        /\ DOMAIN accepted[k] = 1 .. Len(accepted[k])
    BY <1>2, LenProperties
  <2>2. /\ Append(accepted[k], m) \in Seq(Packet)
        /\ Len(Append(accepted[k], m)) = Len(accepted[k]) + 1
    BY <2>1, AppendProperties
  <2>3. DOMAIN Append(accepted[k], m) = 1 .. Len(accepted[k]) + 1
    BY <2>2, LenProperties
  <2>4. PICK n \in Nat : n = Len(accepted[k]) + 1
    BY <2>1
  <2>. QED
    BY <2>1, <2>3, <2>4
<1>4. DOMAIN accepted'[<<e, s>>] = DOMAIN accepted[<<e, s>>] \cup {n}
  BY <1>1, <1>2, <1>3
<1>5. \A f \in Ends, t \in StreamId : <<f, t>> # k => accepted'[<<f, t>>] = accepted[<<f, t>>]
  BY <1>2, KeyFacts
<1>6. \A t \in StreamId \ {s} : accepted'[<<e, t>>] = accepted[<<e, t>>]
  BY <1>1, <1>5
<1>7. n \notin DOMAIN accepted[<<e, s>>]
  BY <1>1, <1>3
<1>8. PICK a, b : a = accepted /\ b = accepted'
  OBVIOUS
<1>9. /\ IsFiniteSet(AcceptedIn(b, e))
      /\ Cardinality(AcceptedIn(b, e)) = Cardinality(AcceptedIn(a, e)) + 1
  <2>1. /\ n \notin DOMAIN a[<<e, s>>] /\ DOMAIN b[<<e, s>>] = DOMAIN a[<<e, s>>] \cup {n}
        /\ IsFiniteSet(AcceptedIn(a, e))
    BY <1>4, <1>7, <1>8
  <2>2. \A t \in StreamId \ {s} : b[<<e, t>>] = a[<<e, t>>]
    BY <1>6, <1>8
  <2>. QED
    BY <2>1, <2>2, AcceptedGrows
<1>10. Cardinality(AcceptedIn(a, e)) \in Nat
  BY <1>8, FS_CardinalityType
<1>11. \A f \in Ends, t \in StreamId : f # e => accepted'[<<f, t>>] = accepted[<<f, t>>]
  <2>1. ASSUME NEW f \in Ends, NEW t \in StreamId, f # e
        PROVE  accepted'[<<f, t>>] = accepted[<<f, t>>]
    <3>1. <<f, t>>[1] = f /\ <<e, s>>[1] = e
      OBVIOUS
    <3>2. <<f, t>> # k
      BY <1>1, <2>1, <3>1
    <3>. QED
      BY <3>2, <1>5
  <2>. QED
    BY <2>1
<1>. QED
  BY <1>8, <1>9, <1>10, <1>11, AcceptedCount

\* What the loop is writing is a send of its one end.
LEMMA WaitingCount ==
    ASSUME TypeOK, NEW e \in DialEnds
    PROVE  /\ writing[Owner(e)] = <<>> => SendsWaiting(e) = 0
           /\ writing[Owner(e)] # <<>> =>
                  SendsWaiting(e) = 1 /\ Writer(Head(writing[Owner(e)]).half) = e
BY DialEndFacts, WritingHead DEF SendsWaiting

-------------------------------------------------------------------------------
(* The inductive invariant.  That the sends add up is not inductive: a send *)
(* would be dropped in silence if its connection or its stream was not in   *)
(* the maps.  They are, because the application of the dialing side has its *)
(* streams from the loop, which registered them before; and because nothing *)
(* but a stream with a stream of QUIC is announced under a reliable handle, *)
(* which is where the kind Ordered would break it.                          *)

CreatesOfKind ==
    \A p \in Peers : \A x \in Queued(p) : x.type = "CreateStream" => x.reliability \in Kinds

DatagramsOK == \A d \in net : ~IsReliable(d[2].stream)

RegisteredOK ==
    \A p \in Peers : \A r \in Elems(streamReg[p]) : IsReliable(r.stream) => r.quic # NoStream

KindsOK == CreatesOfKind /\ DatagramsOK /\ RegisteredOK

\* The end has not been left, and the application has closed no stream on it.
Standing(e) == conn[e] # "closed" /\ ~HasClosed(e)

Announces(e, told, stream) == StreamCreated(e, stream) \in told

ListedOK(e) == conn[e] \in {"up", "lost"} => e \in connections

StreamsOK(e) ==
    \A stream \in StreamId :
        Announces(e, Told(Owner(e)), stream) /\ IsReliable(stream) /\ Standing(e) =>
            reliable[<<e, stream>>] # NoStream

SendsOK(e) ==
    \A x \in Queued(Owner(e)) :
        x.type = "Send" /\ x.conn = e => Announces(e, Told(Owner(e)), x.packet.stream)

Spent(e) == SendsQueued(e) + SendsAccepted(e) + SendsWaiting(e) + SendsFailed(e)

BalanceOK(e) ==
    /\ IsFiniteSet(AcceptedIn(accepted, e))
    /\ None(e) => sent[e] = 0
    /\ Standing(e) => sent[e] = Spent(e)

DialerOK(e) == ListedOK(e) /\ StreamsOK(e) /\ SendsOK(e) /\ BalanceOK(e)

SendInv == KindsOK /\ \A e \in DialEnds : DialerOK(e)

-------------------------------------------------------------------------------
(* What the steps share                                                    *)

LEMMA KindsStep ==
    ASSUME KindsOK,
           \A p \in Peers : \A x \in Queued(p)' :
               x \in Queued(p) \/ (x.type = "CreateStream" => x.reliability \in Kinds),
           \A d \in net' : d \in net \/ ~IsReliable(d[2].stream),
           \A p \in Peers : \A r \in Elems(streamReg'[p]) :
               r \in Elems(streamReg[p]) \/ (IsReliable(r.stream) => r.quic # NoStream)
    PROVE  KindsOK'
<1>1. CreatesOfKind'
  BY DEF KindsOK, CreatesOfKind
<1>2. DatagramsOK'
  BY DEF KindsOK, DatagramsOK, IsReliable
<1>3. RegisteredOK'
  BY DEF KindsOK, RegisteredOK, Elems, NoStream, IsReliable
<1>. QED
  BY <1>1, <1>2, <1>3 DEF KindsOK

LEMMA SpentType ==
    ASSUME TypeOK, NEW e \in DialEnds, IsFiniteSet(AcceptedIn(accepted, e))
    PROVE  /\ SendsQueued(e) \in Nat /\ SendsAccepted(e) \in Nat
           /\ SendsWaiting(e) \in {0, 1} /\ SendsFailed(e) \in Nat /\ sent[e] \in Nat
<1>1. SendsAccepted(e) \in Nat
  BY DialEndFacts, AcceptedCount, FS_CardinalityType
<1>2. SendsWaiting(e) \in {0, 1}
  BY DEF SendsWaiting
<1>. QED
  BY <1>1, <1>2, DialEndFacts, QueuedCount, FailedCount DEF TypeOK, HistoryTypeOK

LEMMA ClosedTold ==
    ASSUME TypeOK, NEW e \in Ends
    PROVE  HasClosed(e) <=> \E stream \in StreamId : StreamClosed(e, stream) \in Told(Owner(e))
<1>1. DOMAIN events[Owner(e)] = 1 .. Len(events[Owner(e)])
  BY EndFacts, QueueTypes, LenProperties
<1>. QED
  BY <1>1 DEF HasClosed, Contains, Told, Elems

LEMMA ClosedToldNext ==
    ASSUME TypeOK', NEW e \in Ends
    PROVE  HasClosed(e)' <=> \E stream \in StreamId : StreamClosed(e, stream) \in Told(Owner(e))'
<1>1. Owner(e) \in Peers /\ events'[Owner(e)] \in Seq(Events[Owner(e)])
  BY EndFacts DEF TypeOK, PeerTypeOK, EventsTypeOK
<1>2. DOMAIN events'[Owner(e)] = 1 .. Len(events'[Owner(e)])
  BY <1>1, LenProperties
<1>. QED
  BY <1>2 DEF HasClosed, Contains, Told, Elems, StreamClosed

\* An end that stands after a step has stood before it.
LEMMA StoodBefore ==
    ASSUME TypeOK, TypeOK', NEW e \in Ends, Standing(e)', Told(Owner(e)) \subseteq Told(Owner(e))',
           conn'[e] = conn[e] \/ conn[e] \in {"none", "up"}
    PROVE  Standing(e)
BY ClosedTold, ClosedToldNext DEF Standing

(***************************************************************************)
(* A step of the process of e that leaves e its connection: what has to be *)
(* shown of it.                                                            *)
(***************************************************************************)
LEMMA DialerStep ==
    ASSUME TypeOK, TypeOK', NEW e \in DialEnds, DialerOK(e), NEW p, p = Owner(e),
           \/ conn'[e] = conn[e] \/ (conn[e] = "up" /\ conn'[e] = "lost")
           \/ None(e) /\ conn'[e] = "up" /\ e \in connections',
           e \in connections => e \in connections',
           Told(p) \subseteq Told(p)',
           \A stream \in StreamId :
               Standing(e)' /\ IsReliable(stream) =>
                   /\ reliable[<<e, stream>>] # NoStream => reliable'[<<e, stream>>] # NoStream
                   /\ Announces(e, Told(p)', stream) =>
                          Announces(e, Told(p), stream) \/ reliable'[<<e, stream>>] # NoStream,
           \A x \in Queued(p)' :
               \/ x \in Queued(p)
               \/ ~(x.type = "Send" /\ x.conn = e)
               \/ Announces(e, Told(p), x.packet.stream),
           IsFiniteSet(AcceptedIn(accepted', e)), None(e) => sent'[e] = sent[e],
           Standing(e) /\ Standing(e)' /\ sent[e] = Spent(e) => sent'[e] = Spent(e)'
    PROVE  DialerOK(e)'
<1>1. e \in Ends /\ p \in Peers
  BY DialEndFacts
<1>2. Standing(e)' => Standing(e)
  BY <1>1, StoodBefore DEF None
<1>3. ListedOK(e)'
  BY DEF DialerOK, ListedOK
<1>4. StreamsOK(e)'
  <2> SUFFICES ASSUME NEW stream \in StreamId, Announces(e, Told(p)', stream), IsReliable(stream),
                      Standing(e)'
               PROVE  reliable'[<<e, stream>>] # NoStream
    BY DEF StreamsOK, Announces, StreamCreated, IsReliable, NoStream
  <2>1. Announces(e, Told(p), stream) => reliable[<<e, stream>>] # NoStream
    BY <1>2 DEF DialerOK, StreamsOK
  <2>. QED
    BY <2>1
<1>5. SendsOK(e)'
  <2> SUFFICES ASSUME NEW x \in Queued(p)', x.type = "Send", x.conn = e
               PROVE  Announces(e, Told(p)', x.packet.stream)
    BY DEF SendsOK, Announces, StreamCreated
  <2>1. Announces(e, Told(p), x.packet.stream)
    BY DEF DialerOK, SendsOK
  <2>. QED
    BY <2>1 DEF Announces
<1>6. BalanceOK(e)'
  <2>1. IsFiniteSet(AcceptedIn(accepted, e)')
    BY DEF AcceptedIn
  <2>2. None(e)' => sent'[e] = 0
    BY DEF None, DialerOK, BalanceOK
  <2>3. Standing(e)' => sent'[e] = Spent(e)'
    BY <1>2 DEF DialerOK, BalanceOK
  <2>. QED
    BY <2>1, <2>2, <2>3 DEF BalanceOK
<1>. QED
  BY <1>3, <1>4, <1>5, <1>6 DEF DialerOK

\* What a step does not touch counts as before.
LEMMA CountsKept ==
    ASSUME NEW e \in DialEnds, NEW p, p = Owner(e)
    PROVE  /\ events'[p] = events[p] =>
                  /\ Told(p)' = Told(p) /\ SendsFailed(e)' = SendsFailed(e)
                  /\ (Standing(e)' /\ conn'[e] = conn[e] => Standing(e))
           /\ cmds'[p] = cmds[p] => Queued(p)' = Queued(p) /\ SendsQueued(e)' = SendsQueued(e)
           /\ writing'[p] = writing[p] => SendsWaiting(e)' = SendsWaiting(e)
           /\ (\A s \in StreamId : accepted'[<<e, s>>] = accepted[<<e, s>>]) =>
                  /\ AcceptedIn(accepted', e) = AcceptedIn(accepted, e)
                  /\ SendsAccepted(e)' = SendsAccepted(e)
<1>1. ASSUME events'[p] = events[p]
      PROVE  /\ Told(p)' = Told(p) /\ SendsFailed(e)' = SendsFailed(e)
             /\ (Standing(e)' /\ conn'[e] = conn[e] => Standing(e))
  <2>1. Told(p)' = Told(p)
    BY <1>1 DEF Told, Elems
  <2>2. SendsFailed(e)' = SendsFailed(e)
    BY <1>1 DEF SendsFailed, SendFailed
  <2>3. HasClosed(e)' <=> HasClosed(e)
    BY <1>1 DEF HasClosed, Contains, StreamClosed
  <2>. QED
    BY <2>1, <2>2, <2>3 DEF Standing
<1>2. ASSUME cmds'[p] = cmds[p]
      PROVE  Queued(p)' = Queued(p) /\ SendsQueued(e)' = SendsQueued(e)
  BY <1>2 DEF Queued, Elems, SendsQueued
<1>3. ASSUME writing'[p] = writing[p] PROVE SendsWaiting(e)' = SendsWaiting(e)
  BY <1>3 DEF SendsWaiting, Writer
<1>4. ASSUME \A s \in StreamId : accepted'[<<e, s>>] = accepted[<<e, s>>]
      PROVE  /\ AcceptedIn(accepted', e) = AcceptedIn(accepted, e)
             /\ SendsAccepted(e)' = SendsAccepted(e)
  <2>1. AcceptedIn(accepted', e) = AcceptedIn(accepted, e)
    BY <1>4, AcceptedSame
  <2>. QED
    BY <2>1, DialEndFacts, AcceptedCount
<1>. QED
  BY <1>1, <1>2, <1>3, <1>4

\* A step of others: at most the connection is lost.
LEMMA DialerRests ==
    ASSUME TypeOK, TypeOK', NEW e \in DialEnds, DialerOK(e), NEW p, p = Owner(e),
           cmds'[p] = cmds[p], events'[p] = events[p], writing'[p] = writing[p],
           conn'[e] = conn[e] \/ (conn[e] = "up" /\ conn'[e] = "lost"),
           e \in connections => e \in connections',
           \A s \in StreamId : /\ reliable'[<<e, s>>] = reliable[<<e, s>>]
                               /\ accepted'[<<e, s>>] = accepted[<<e, s>>],
           sent'[e] = sent[e]
    PROVE  DialerOK(e)'
<1>1. /\ Told(p)' = Told(p) /\ SendsFailed(e)' = SendsFailed(e)
      /\ Queued(p)' = Queued(p) /\ SendsQueued(e)' = SendsQueued(e)
      /\ SendsWaiting(e)' = SendsWaiting(e) /\ SendsAccepted(e)' = SendsAccepted(e)
      /\ AcceptedIn(accepted', e) = AcceptedIn(accepted, e)
  BY CountsKept
<1>2. IsFiniteSet(AcceptedIn(accepted', e))
  BY <1>1 DEF DialerOK, BalanceOK
<1>3. Spent(e)' = Spent(e)
  BY <1>1 DEF Spent
<1>4. \A s \in StreamId :
          /\ reliable[<<e, s>>] # NoStream => reliable'[<<e, s>>] # NoStream
          /\ Announces(e, Told(p)', s) => Announces(e, Told(p), s)
  BY <1>1
<1>. QED
  BY <1>1, <1>2, <1>3, <1>4, DialerStep

\* An event more.
LEMMA EventMore ==
    ASSUME TypeOK, TypeOK', NEW e \in DialEnds, NEW p, p = Owner(e), NEW y \in Events[p],
           Emit(p, <<y>>)
    PROVE  /\ Told(p)' = Told(p) \cup {y} /\ SendsFailed(e) \in Nat
           /\ SendsFailed(e)' = SendsFailed(e) + (IF y = SendFailed(e) THEN 1 ELSE 0)
<1>1. e \in Ends /\ p \in Peers /\ events[p] \in Seq(Events[p])
  BY DialEndFacts, QueueTypes
<1>2. events' = [events EXCEPT ![p] = @ \o <<y>>] /\ DOMAIN events = Peers
  BY DEF Emit, TypeOK, PeerTypeOK, EventsTypeOK
<1>3. PICK t : t = events'[p] /\ t = Append(events[p], y)
  BY <1>1, <1>2, AppendIsConcat
<1>4. Told(p)' = Elems(t) /\ Elems(t) = Told(p) \cup {y}
  <2>1. Elems(t) = Elems(events[p]) \cup {y}
    BY <1>1, <1>3, ElemsAppend
  <2>2. Told(p)' = Elems(t)
    BY <1>3 DEF Told, Elems
  <2>. QED
    BY <2>1, <2>2 DEF Told
<1>5. SendsFailed(e)' = Count(t, {SendFailed(e)})
  BY <1>1, <1>3, FailedCountNext
<1>6. Count(t, {SendFailed(e)}) = Count(events[p], {SendFailed(e)})
                                    + (IF y \in {SendFailed(e)} THEN 1 ELSE 0)
  BY <1>1, <1>3, CountAppend
<1>7. SendsFailed(e) = Count(events[p], {SendFailed(e)}) /\ SendsFailed(e) \in Nat
  BY <1>1, FailedCount
<1>. QED
  BY <1>4, <1>5, <1>6, <1>7

\* A command less: the one the loop handles.
LEMMA Takes ==
    ASSUME TypeOK, TypeOK', NEW e \in DialEnds, NEW p, p = Owner(e), NEW type,
           HandlesQuietly(p, type)
    PROVE  /\ Queued(p)' \subseteq Queued(p) /\ SendsQueued(e)' \in Nat
           /\ SendsQueued(e) = SendsQueued(e)' + (IF type = "Send" THEN 1 ELSE 0)
           /\ type = "Send" => HeadEnd(p) = e
<1>1. e \in Ends /\ p \in Peers /\ EndsOf(p) = {e} /\ cmds[p] \in Seq(Commands[p])
  BY DialEndFacts, QueueTypes
<1>2. /\ cmds[p] # <<>> /\ Head(cmds[p]).type = type /\ Head(cmds[p]) \in Commands[p]
      /\ Queued(p)' \subseteq Queued(p) /\ cmds' = [cmds EXCEPT ![p] = Tail(@)]
  BY <1>1, QuietType DEF TakeCommand
<1>3. type = "Send" => HeadEnd(p) = e
  BY <1>1, <1>2, HeadParts
<1>4. Head(cmds[p]) \in Sends(e) <=> type = "Send"
  BY <1>2, <1>3 DEF Sends, HeadEnd
<1>5. PICK q : q = cmds'[p] /\ q = Tail(cmds[p])
  BY <1>1, <1>2 DEF TypeOK, PeerTypeOK, CommandsTypeOK
<1>6. SendsQueued(e)' = Count(q, Sends(e)) /\ SendsQueued(e)' \in Nat
  BY <1>1, <1>5, QueuedCountNext
<1>7. SendsQueued(e) = Count(cmds[p], Sends(e))
  BY <1>1, QueuedCount
<1>8. Count(cmds[p], Sends(e)) = Count(q, Sends(e)) + (IF Head(cmds[p]) \in Sends(e) THEN 1 ELSE 0)
  BY <1>1, <1>2, <1>5, CountTail
<1>. QED
  BY <1>2, <1>3, <1>4, <1>6, <1>7, <1>8

\* A command more: what the application calls.
LEMMA Calls ==
    ASSUME TypeOK, TypeOK', NEW e \in DialEnds, NEW p, p = Owner(e), NEW cmd \in Commands[p],
           SendCommand(p, cmd)
    PROVE  /\ Queued(p)' = Queued(p) \cup {cmd} /\ SendsQueued(e) \in Nat
           /\ SendsQueued(e)' = SendsQueued(e) + (IF cmd.type = "Send" THEN 1 ELSE 0)
<1>1. e \in Ends /\ p \in Peers /\ EndsOf(p) = {e} /\ cmds[p] \in Seq(Commands[p])
  BY DialEndFacts, QueueTypes
<1>2. Queued(p)' = Queued(p) \cup {cmd}
  BY <1>1, QueueTypes, SendCommandQueued
<1>3. cmd.type = "Send" => cmd.conn = e
  BY <1>1, PartsOfCommand DEF Commands
<1>4. cmd \in Sends(e) <=> cmd.type = "Send"
  BY <1>3 DEF Sends
<1>5. PICK q : q = cmds'[p] /\ q = Append(cmds[p], cmd)
  BY <1>1 DEF SendCommand, TypeOK, PeerTypeOK, CommandsTypeOK
<1>6. SendsQueued(e)' = Count(q, Sends(e))
  BY <1>1, <1>5, QueuedCountNext
<1>7. SendsQueued(e) = Count(cmds[p], Sends(e)) /\ SendsQueued(e) \in Nat
  BY <1>1, QueuedCount
<1>8. Count(q, Sends(e)) = Count(cmds[p], Sends(e)) + (IF cmd \in Sends(e) THEN 1 ELSE 0)
  BY <1>1, <1>5, CountAppend
<1>. QED
  BY <1>2, <1>4, <1>6, <1>7, <1>8

-------------------------------------------------------------------------------
(* The sends add up: the applications                                      *)

\* A step of process q that touches no maps and no connection of the others.
LEMMA OthersRest ==
    ASSUME TypeOK, TypeOK', SendInv, NEW q \in Peers,
           \A p \in Peers \ {q} :
               cmds'[p] = cmds[p] /\ events'[p] = events[p] /\ writing'[p] = writing[p],
           \A e \in DialEnds : Owner(e) # q =>
               /\ conn'[e] = conn[e] /\ (e \in connections => e \in connections')
               /\ sent'[e] = sent[e]
               /\ \A s \in StreamId : /\ reliable'[<<e, s>>] = reliable[<<e, s>>]
                                      /\ accepted'[<<e, s>>] = accepted[<<e, s>>],
           \A e \in DialEnds : Owner(e) = q => DialerOK(e)', KindsOK'
    PROVE  SendInv'
<1>1. ASSUME NEW e \in DialEnds, Owner(e) # q PROVE DialerOK(e)'
  BY <1>1, DialEndFacts, DialerRests DEF SendInv
<1>. QED
  BY <1>1 DEF SendInv

\* A command more, and it is no Send.
LEMMA CallSends ==
    ASSUME TypeOK, TypeOK', SendInv, NEW q \in Peers, NEW cmd \in Commands[q],
           SendCommand(q, cmd), cmd.type # "Send",
           cmd.type = "CreateStream" => cmd.reliability \in Kinds, UNCHANGED <<events, quicVars>>
    PROVE  SendInv'
<1>1. Queued(q)' = Queued(q) \cup {cmd} /\ \A p \in Peers \ {q} : cmds'[p] = cmds[p]
  BY QueueTypes, SendCommandQueued
<1>2. UNCHANGED <<streamReg, connections, reliable, writing, conn, net, sent, accepted>>
  BY DEF quicVars, mapVars, loopVars, quinnVars, historyVars
<1>3. KindsOK'
  <2>1. \A p \in Peers : \A x \in Queued(p)' : x \in Queued(p) \/ x = cmd
    BY <1>1 DEF Queued, Elems
  <2>. QED
    BY <1>2, <2>1, KindsStep DEF SendInv
<1>4. ASSUME NEW e \in DialEnds, Owner(e) = q PROVE DialerOK(e)'
  <2>1. /\ SendsQueued(e)' = SendsQueued(e) /\ Told(q)' = Told(q)
        /\ SendsFailed(e)' = SendsFailed(e) /\ SendsWaiting(e)' = SendsWaiting(e)
        /\ SendsAccepted(e)' = SendsAccepted(e)
        /\ AcceptedIn(accepted', e) = AcceptedIn(accepted, e)
    BY <1>2, <1>4, CountsKept, Calls
  <2>2. /\ Spent(e)' = Spent(e) /\ IsFiniteSet(AcceptedIn(accepted', e))
    BY <2>1 DEF Spent, SendInv, DialerOK, BalanceOK
  <2>3. \A x \in Queued(q)' : x \in Queued(q) \/ ~(x.type = "Send" /\ x.conn = e)
    BY <1>1
  <2>. QED
    BY <1>2, <1>4, <2>1, <2>2, <2>3, DialerStep DEF SendInv
<1>. QED
  BY <1>1, <1>2, <1>3, <1>4, OthersRest

\* Nothing that the invariant speaks of.
LEMMA SendsRest ==
    ASSUME TypeOK, TypeOK', SendInv,
           UNCHANGED <<cmds, events, streamReg, connections, reliable, writing, conn, net, sent,
                       accepted>>
    PROVE  SendInv'
<1>1. KindsOK'
  BY KindsStep DEF SendInv, Queued, Elems
<1>2. ASSUME NEW e \in DialEnds PROVE DialerOK(e)'
  BY DialEndFacts, DialerRests DEF SendInv
<1>. QED
  BY <1>1, <1>2 DEF SendInv

LEMMA AppSendSends ==
    ASSUME TypeOK, TypeOK', NewsInv, SendInv, NEW f \in Ends, NEW stream \in StreamId,
           AppSend(f, stream)
    PROVE  SendInv'
<1>1. PICK m \in Packet :
          /\ m.stream = stream /\ SendCmd(f, m) \in Commands[Owner(f)]
          /\ SendCommand(Owner(f), SendCmd(f, m))
          /\ stream \in SendsOn(f) /\ sent' = [sent EXCEPT ![f] = @ + 1]
          /\ UNCHANGED <<events, acceptVars, mapVars, known, loopVars, quinnVars, net, accepted>>
  BY AppSendParts
<1>2. PICK cmd \in Commands[Owner(f)] : cmd = SendCmd(f, m)
  BY <1>1
<1>3. /\ SendCommand(Owner(f), cmd) /\ cmd.type = "Send" /\ cmd.conn = f
      /\ cmd.packet = m /\ Owner(f) \in Peers
  BY <1>1, <1>2, EndFacts DEF SendCmd
<1>4. /\ Queued(Owner(f))' = Queued(Owner(f)) \cup {cmd}
      /\ \A p \in Peers \ {Owner(f)} : cmds'[p] = cmds[p]
  BY <1>3, QueueTypes, SendCommandQueued
<1>5. UNCHANGED <<streamReg, connections, reliable, writing, conn>>
  BY <1>1 DEF mapVars, loopVars, quinnVars
<1>6. KindsOK'
  <2>1. \A p \in Peers : \A x \in Queued(p)' : x \in Queued(p) \/ x = cmd
    BY <1>3, <1>4 DEF Queued, Elems
  <2>. QED
    BY <1>1, <1>3, <1>5, <2>1, KindsStep DEF SendInv
<1>7. sent \in [Ends -> Nat]
  BY DEF TypeOK, HistoryTypeOK
<1>8. ASSUME NEW e \in DialEnds, Owner(e) = Owner(f) PROVE DialerOK(e)'
  <2>1. e = f /\ e \in Ends /\ sent'[e] = sent[e] + 1
    BY <1>1, <1>7, <1>8, DialEndFacts, EndFacts
  <2>2. Announces(e, Told(Owner(e)), stream) /\ ~None(e)
    <3>1. stream \in KnownStreams(Owner(e), e)
      BY <1>1, <2>1, DialEndFacts DEF SendsOn
    <3>2. Seen(Owner(e)) \subseteq Told(Owner(e)) /\ Told(Owner(e)) \subseteq Events[Owner(e)]
      BY <2>1, EndFacts, QueueTypes, SeenTold
    <3>3. PICK y \in Told(Owner(e)) : /\ y.type = "StreamCreated" /\ y.conn = e /\ y.stream = stream
                                      /\ y \in Events[Owner(e)]
      BY <3>1, <3>2 DEF KnownStreams
    <3>4. y = StreamCreated(e, stream)
      <4>1. y \in {StreamCreated(c, t) : c \in EndsOf(Owner(e)), t \in StreamId}
        BY <2>1, <3>3, EndFacts DEF Events, Event, Connected, Disconnected, ConnectError, Message,
                               StreamClosed, SendFailed
      <4>2. PICK c \in EndsOf(Owner(e)), t \in StreamId : y = StreamCreated(c, t)
        BY <4>1
      <4>. QED
        BY <3>3, <4>2 DEF StreamCreated
    <3>5. Heard(e)
      BY <2>1, <3>4, LaterEvents DEF Heard
    <3>. QED
      BY <2>1, <3>4, <3>5 DEF Announces, NewsInv, HeardOK
  <2>3. /\ SendsQueued(e)' = SendsQueued(e) + 1 /\ Told(Owner(e))' = Told(Owner(e))
        /\ SendsFailed(e)' = SendsFailed(e) /\ SendsWaiting(e)' = SendsWaiting(e)
        /\ SendsAccepted(e)' = SendsAccepted(e)
        /\ AcceptedIn(accepted', e) = AcceptedIn(accepted, e)
    BY <1>1, <1>3, <1>5, <2>1, CountsKept, Calls
  <2>4. IsFiniteSet(AcceptedIn(accepted, e))
    BY DEF SendInv, DialerOK, BalanceOK
  <2>5. sent[e] = Spent(e) => sent'[e] = Spent(e)'
    BY <2>1, <2>3, <2>4, SpentType DEF Spent
  <2>6. \A x \in Queued(Owner(e))' :
            x \in Queued(Owner(e)) \/ Announces(e, Told(Owner(e)), x.packet.stream)
    BY <1>1, <1>3, <1>4, <2>1, <2>2
  <2>. QED
    BY <1>5, <2>2, <2>3, <2>4, <2>5, <2>6, DialerStep DEF SendInv
<1>9. \A e \in DialEnds : Owner(e) # Owner(f) => sent'[e] = sent[e]
  BY <1>1, <1>7, DialEndFacts
<1>. QED
  BY <1>1, <1>3, <1>4, <1>5, <1>6, <1>8, <1>9, OthersRest

LEMMA AppSends ==
    ASSUME TypeOK, TypeOK', NewsInv, SendInv, AppAction
    PROVE  SendInv'
<1>1. ASSUME NEW p \in Peers, NEW cmd, OtherCall(p, cmd), UNCHANGED quicVars, cmd.type # "Send"
      PROVE  SendInv'
  BY <1>1, CallSends DEF OtherCall
<1>2. CASE AppListen
  <2>1. OtherCall(Server, BindCmd) /\ UNCHANGED quicVars /\ BindCmd.type # "Send"
    BY <1>2, PlainCalls DEF BindCmd
  <2>. QED
    BY <1>1, <2>1, ServerIsPeer
<1>3. ASSUME NEW c \in Clients, AppDial(c) PROVE SendInv'
  <2>1. OtherCall(c, ConnectCmd) /\ UNCHANGED quicVars /\ ConnectCmd.type # "Send"
    BY <1>3, PlainCalls DEF ConnectCmd
  <2>. QED
    BY <1>1, <2>1, ClientEnds
<1>4. ASSUME NEW e \in Ends, NEW r \in Kinds, AppCreateStream(e, r) PROVE SendInv'
  <2>1. CreateStream(Owner(e), e, r) /\ e \in EndsOf(Owner(e)) /\ Owner(e) \in Peers
        /\ r \in Reliability /\ UNCHANGED <<quicVars, events>>
    BY <1>4, EndFacts, QuicAssumption DEF AppCreateStream, CreateStream
  <2>2. PICK i \in StreamId : /\ CreateStreamCmd(e, i, r) \in Commands[Owner(e)]
                              /\ \/ SendCommand(Owner(e), CreateStreamCmd(e, i, r))
                                 \/ UNCHANGED cmds
    BY <2>1, CreateStreamType
  <2>3. PICK cmd \in Commands[Owner(e)] : cmd = CreateStreamCmd(e, i, r)
    BY <2>2
  <2>4. cmd.type = "CreateStream" /\ cmd.reliability = r
    BY <2>3 DEF CreateStreamCmd
  <2>5. CASE UNCHANGED cmds
    BY <2>1, <2>5, SendsRest DEF quicVars, mapVars, loopVars, quinnVars, historyVars
  <2>. QED
    BY <2>1, <2>2, <2>3, <2>4, <2>5, CallSends
<1>5. ASSUME NEW e \in Ends, NEW stream \in StreamId, AppCloseStream(e, stream) PROVE SendInv'
  <2>1. OtherCall(Owner(e), CloseStreamCmd(e, stream)) /\ UNCHANGED quicVars
    BY <1>5, AppCloseParts
  <2>2. CloseStreamCmd(e, stream).type # "Send"
    BY DEF CloseStreamCmd
  <2>. QED
    BY <1>1, <2>1, <2>2, EndFacts
<1>6. ASSUME NEW p \in Peers, AppShutdown(p) PROVE SendInv'
  <2>1. OtherCall(p, ShutdownCmd) /\ UNCHANGED quicVars /\ ShutdownCmd.type # "Send"
    BY <1>6, PlainCalls DEF ShutdownCmd
  <2>. QED
    BY <1>1, <2>1
<1>7. ASSUME NEW p \in Peers, AppPoll(p) \/ AppJoin(p) PROVE SendInv'
  BY <1>7, SendsRest DEF AppPoll, AppJoin, Poll, Join, quicVars, mapVars, loopVars, quinnVars,
                         historyVars
<1>. QED
  BY <1>2, <1>3, <1>4, <1>5, <1>6, <1>7, AppSendSends DEF AppAction

-------------------------------------------------------------------------------
(* The sends add up: the sends of the loop                                 *)

LEMMA TakenQueued ==
    ASSUME TypeOK, NEW q \in Peers, NEW type, HandlesQuietly(q, type)
    PROVE  /\ \A p \in Peers : Queued(p)' \subseteq Queued(p)
           /\ \A p \in Peers \ {q} : cmds'[p] = cmds[p]
<1>1. Queued(q)' \subseteq Queued(q) /\ \A p \in Peers \ {q} : cmds'[p] = cmds[p]
  BY QuietType
<1>. QED
  BY <1>1 DEF Queued, Elems

\* A Send of a dialing side is of a connection that is there and of a stream
\* that was announced.
LEMMA SendHead ==
    ASSUME TypeOK, NewsInv, SendInv, NEW e \in DialEnds, NEW q, q = Owner(e),
           HandlesQuietly(q, "Send")
    PROVE  /\ HeadEnd(q) = e /\ ~None(e) /\ HeadPacket(q) \in Packet
           /\ HeadPacket(q).stream \in StreamId /\ HeadKey(q) = <<e, HeadPacket(q).stream>>
           /\ Announces(e, Told(q), HeadPacket(q).stream)
           /\ Standing(e) => Known(q) /\ conn[e] \in {"up", "lost"}
           /\ Standing(e) /\ IsReliable(HeadPacket(q).stream) => reliable[HeadKey(q)] # NoStream
<1>1. e \in Ends /\ q \in Peers /\ EndsOf(q) = {e}
  BY DialEndFacts
<1>2. /\ cmds[q] # <<>> /\ Head(cmds[q]).type = "Send" /\ Head(cmds[q]) \in Queued(q)
  BY <1>1, QuietType
<1>3. /\ HeadEnd(q) = e /\ ~None(e) /\ HeadPacket(q) \in Packet
      /\ HeadPacket(q).stream \in StreamId
  BY <1>1, <1>2, HeadParts, HeadThere DEF OfConnection
<1>4. Announces(e, Told(q), HeadPacket(q).stream)
  BY <1>2, <1>3 DEF SendInv, DialerOK, SendsOK, HeadEnd, HeadPacket
<1>5. HeadKey(q) = <<e, HeadPacket(q).stream>>
  BY <1>3 DEF HeadKey
<1>6. Standing(e) => conn[e] \in {"up", "lost"}
  BY <1>1, <1>3 DEF Standing, None, TypeOK, QuinnTypeOK
<1>7. Standing(e) => Known(q)
  BY <1>3, <1>6 DEF SendInv, DialerOK, ListedOK, Known
<1>8. Standing(e) /\ IsReliable(HeadPacket(q).stream) => reliable[HeadKey(q)] # NoStream
  BY <1>3, <1>4, <1>5 DEF SendInv, DialerOK, StreamsOK
<1>. QED
  BY <1>3, <1>4, <1>5, <1>6, <1>7, <1>8

LEMMA SendDroppedSends ==
    ASSUME TypeOK, TypeOK', NewsInv, SendInv, NEW q \in Peers, SendDropped(q)
    PROVE  SendInv'
<1>1. /\ HandlesQuietly(q, "Send")
      /\ ~Known(q) \/ (IsReliable(HeadPacket(q).stream) /\ reliable[HeadKey(q)] = NoStream)
      /\ UNCHANGED <<events, streamReg, connections, reliable, writing, conn, net, sent, accepted>>
  BY DEF SendDropped, quicVars, mapVars, loopVars, quinnVars, historyVars
<1>2. /\ \A p \in Peers : Queued(p)' \subseteq Queued(p)
      /\ \A p \in Peers \ {q} : cmds'[p] = cmds[p]
  BY <1>1, TakenQueued
<1>3. KindsOK'
  BY <1>1, <1>2, KindsStep DEF SendInv
<1>4. ASSUME NEW e \in DialEnds, Owner(e) = q PROVE DialerOK(e)'
  <2>1. ~Standing(e)
    BY <1>1, <1>4, SendHead
  <2>2. /\ Told(q)' = Told(q) /\ AcceptedIn(accepted', e) = AcceptedIn(accepted, e)
    BY <1>1, <1>4, CountsKept
  <2>3. IsFiniteSet(AcceptedIn(accepted', e))
    BY <2>2 DEF SendInv, DialerOK, BalanceOK
  <2>. QED
    BY <1>1, <1>2, <1>4, <2>1, <2>2, <2>3, DialerStep DEF SendInv
<1>. QED
  BY <1>1, <1>2, <1>3, <1>4, OthersRest

\* A packet of the loop's connection is handed to quinn.
LEMMA AcceptsSends ==
    ASSUME TypeOK, NEW e \in Ends, NEW m \in Packet, Accepts(e, m)
    PROVE  \A f \in Ends, s \in StreamId : f # e => accepted'[<<f, s>>] = accepted[<<f, s>>]
<1>1. PICK s \in StreamId, k \in Key : s = m.stream /\ k = <<e, s>>
  BY KeyFacts DEF Packet
<1>2. accepted' = [accepted EXCEPT ![k] = Append(@, m)] /\ accepted \in [Key -> Seq(Packet)]
  BY <1>1 DEF Accepts, TypeOK, HistoryTypeOK
<1>3. ASSUME NEW f \in Ends, NEW t \in StreamId, f # e
      PROVE  accepted'[<<f, t>>] = accepted[<<f, t>>]
  <2>1. <<f, t>>[1] = f /\ k[1] = e /\ <<f, t>> \in Key
    BY <1>1, KeyFacts
  <2>. QED
    BY <1>2, <1>3, <2>1
<1>. QED
  BY <1>3

\* A Send that leaves the queue, and is handed to quinn.
LEMMA AcceptedSend ==
    ASSUME TypeOK, TypeOK', NewsInv, SendInv, NEW q \in Peers, HandlesQuietly(q, "Send"),
           Accepts(HeadEnd(q), HeadPacket(q)),
           \A d \in net' : d \in net \/ ~IsReliable(d[2].stream),
           UNCHANGED <<events, streamReg, connections, reliable, writing, conn, sent>>
    PROVE  SendInv'
<1>1. /\ \A p \in Peers : Queued(p)' \subseteq Queued(p)
      /\ \A p \in Peers \ {q} : cmds'[p] = cmds[p]
  BY TakenQueued
<1>2. KindsOK'
  BY <1>1, KindsStep DEF SendInv
<1>3. ASSUME NEW e \in DialEnds, Owner(e) = q PROVE DialerOK(e)'
  <2>1. e \in Ends /\ HeadEnd(q) = e /\ HeadPacket(q) \in Packet
    BY <1>3, DialEndFacts, SendHead
  <2>2. IsFiniteSet(AcceptedIn(accepted, e))
    BY DEF SendInv, DialerOK, BalanceOK
  <2>3. PICK m \in Packet : m = HeadPacket(q) /\ Accepts(e, m)
    BY <2>1
  <2>4. /\ IsFiniteSet(AcceptedIn(accepted', e))
        /\ SendsAccepted(e)' = SendsAccepted(e) + 1
    BY <2>1, <2>2, <2>3, AcceptsOne
  <2>5. /\ Told(q)' = Told(q) /\ SendsFailed(e)' = SendsFailed(e)
        /\ SendsWaiting(e)' = SendsWaiting(e)
    BY <1>3, CountsKept
  <2>6. SendsQueued(e) = SendsQueued(e)' + 1 /\ SendsQueued(e)' \in Nat
    BY <1>3, Takes
  <2>7. Spent(e)' = Spent(e)
    BY <2>2, <2>4, <2>5, <2>6, SpentType DEF Spent
  <2>. QED
    BY <1>1, <1>3, <2>4, <2>5, <2>7, DialerStep DEF SendInv
<1>4. ASSUME NEW e \in DialEnds, Owner(e) # q, NEW s \in StreamId
      PROVE  accepted'[<<e, s>>] = accepted[<<e, s>>]
  <2>1. HeadEnd(q) \in Ends /\ Owner(HeadEnd(q)) = q /\ HeadPacket(q) \in Packet
    BY QuietType, HeadParts
  <2>. QED
    BY <1>4, <2>1, DialEndFacts, AcceptsSends
<1>. QED
  BY <1>1, <1>2, <1>3, <1>4, OthersRest

LEMMA SendAcceptedSends ==
    ASSUME TypeOK, TypeOK', NewsInv, SendInv, NEW q \in Peers, SendWritten(q) \/ SendDatagram(q)
    PROVE  SendInv'
<1>1. CASE SendWritten(q)
  <2>1. /\ SendsReliably(q) /\ Put(HalfOf(HeadKey(q)), HeadPacket(q))
        /\ UNCHANGED <<events, streamReg, connections, reliable, writing, conn, sent, net>>
    BY <1>1 DEF SendWritten, mapVars, loopVars
  <2>2. HandlesQuietly(q, "Send") /\ Accepts(HeadEnd(q), HeadPacket(q))
    BY <2>1, SendHalf DEF Put
  <2>. QED
    BY <2>1, <2>2, AcceptedSend
<1>2. CASE SendDatagram(q)
  <2>1. /\ HandlesQuietly(q, "Send") /\ Accepts(HeadEnd(q), HeadPacket(q))
        /\ ~IsReliable(HeadPacket(q).stream)
        /\ net' = net \cup {<<Other(HeadEnd(q)), HeadPacket(q)>>}
        /\ UNCHANGED <<events, streamReg, connections, reliable, writing, conn, sent>>
    BY <1>2 DEF SendDatagram, mapVars, loopVars, quinnVars
  <2>2. \A d \in net' : d \in net \/ ~IsReliable(d[2].stream)
    BY <2>1
  <2>. QED
    BY <2>1, <2>2, AcceptedSend
<1>. QED
  BY <1>1, <1>2

LEMMA SendWaitsSends ==
    ASSUME TypeOK, TypeOK', NewsInv, SendInv, NEW q \in Peers, SendWaits(q)
    PROVE  SendInv'
<1>1. /\ SendsReliably(q)
      /\ writing' = [writing EXCEPT ![q] = <<[half |-> HalfOf(HeadKey(q)), packet |-> HeadPacket(q)]>>]
      /\ UNCHANGED <<events, streamReg, connections, reliable, conn, sent, net, accepted>>
  BY DEF SendWaits, mapVars, quinnVars, historyVars
<1>2. /\ HandlesQuietly(q, "Send") /\ Writer(HalfOf(HeadKey(q))) = HeadEnd(q)
      /\ HalfOf(HeadKey(q)) \in HalvesOf(q) /\ HeadPacket(q) \in Packet
  BY <1>1, SendHalf
<1>3. /\ \A p \in Peers : Queued(p)' \subseteq Queued(p)
      /\ \A p \in Peers \ {q} : cmds'[p] = cmds[p]
  BY <1>2, TakenQueued
<1>4. KindsOK'
  BY <1>1, <1>3, KindsStep DEF SendInv
<1>5. PICK w \in [half : HalvesOf(q), packet : Packet] :
          w.half = HalfOf(HeadKey(q)) /\ writing' = [writing EXCEPT ![q] = <<w>>]
  BY <1>1, <1>2
<1>6. writing'[q] = <<w>> /\ \A p \in Peers \ {q} : writing'[p] = writing[p]
  BY <1>5 DEF TypeOK, LoopTypeOK
<1>7. ASSUME NEW e \in DialEnds, Owner(e) = q PROVE DialerOK(e)'
  <2>1. e \in Ends /\ HeadEnd(q) = e
    BY <1>2, <1>7, DialEndFacts, SendHead
  <2>2. /\ Told(q)' = Told(q) /\ SendsFailed(e)' = SendsFailed(e)
        /\ SendsAccepted(e)' = SendsAccepted(e)
        /\ AcceptedIn(accepted', e) = AcceptedIn(accepted, e)
    BY <1>1, <1>7, CountsKept
  <2>3. SendsWaiting(e) = 0
    <3>1. writing[q] = <<>>
      BY <1>2, QuietType
    <3>. QED
      BY <1>7, <3>1, WaitingCount
  <2>4. SendsWaiting(e)' = 1
    <3>1. writing'[q] # <<>> /\ Head(writing'[q]) = w
      BY <1>6
    <3>2. w.half[2] = e
      BY <1>2, <1>5, <2>1 DEF Writer
    <3>. QED
      BY <1>7, <3>1, <3>2 DEF SendsWaiting, Writer
  <2>5. SendsQueued(e) = SendsQueued(e)' + 1 /\ SendsQueued(e)' \in Nat
    BY <1>2, <1>7, Takes
  <2>6. IsFiniteSet(AcceptedIn(accepted, e))
    BY DEF SendInv, DialerOK, BalanceOK
  <2>7. Spent(e)' = Spent(e)
    BY <2>2, <2>3, <2>4, <2>5, <2>6, SpentType DEF Spent
  <2>. QED
    BY <1>1, <1>3, <1>7, <2>2, <2>6, <2>7, DialerStep DEF SendInv
<1>. QED
  BY <1>1, <1>3, <1>4, <1>6, <1>7, OthersRest

LEMMA SendFailsSends ==
    ASSUME TypeOK, TypeOK', NewsInv, SendInv, NEW q \in Peers, SendFails(q)
    PROVE  SendInv'
<1>1. /\ HandlesQuietly(q, "Send") /\ Emit(q, <<SendFailed(HeadEnd(q))>>)
      /\ UNCHANGED <<streamReg, connections, reliable, writing, conn, net, sent, accepted>>
  BY DEF SendFails, quicVars, mapVars, loopVars, quinnVars, historyVars
<1>2. /\ \A p \in Peers : Queued(p)' \subseteq Queued(p)
      /\ \A p \in Peers \ {q} : cmds'[p] = cmds[p]
  BY <1>1, TakenQueued
<1>3. \A p \in Peers \ {q} : events'[p] = events[p]
  BY <1>1 DEF Emit, TypeOK, PeerTypeOK, EventsTypeOK
<1>4. KindsOK'
  BY <1>1, <1>2, KindsStep DEF SendInv
<1>5. ASSUME NEW e \in DialEnds, Owner(e) = q PROVE DialerOK(e)'
  <2>1. e \in Ends /\ e \in EndsOf(q) /\ HeadEnd(q) = e
    BY <1>1, <1>5, DialEndFacts, SendHead
  <2>2. PICK y \in Events[q] : y = SendFailed(e)
    BY <2>1, EventTypes
  <2>3. Told(q)' = Told(q) \cup {y} /\ SendsFailed(e)' = SendsFailed(e) + 1
    BY <1>1, <1>5, <2>1, <2>2, EventMore
  <2>4. \A s \in StreamId : Announces(e, Told(q)', s) => Announces(e, Told(q), s)
    BY <2>2, <2>3 DEF Announces, StreamCreated, SendFailed
  <2>5. /\ SendsWaiting(e)' = SendsWaiting(e)
        /\ SendsAccepted(e)' = SendsAccepted(e)
        /\ AcceptedIn(accepted', e) = AcceptedIn(accepted, e)
    BY <1>1, <1>5, CountsKept
  <2>6. SendsQueued(e) = SendsQueued(e)' + 1 /\ SendsQueued(e)' \in Nat
    BY <1>1, <1>5, Takes
  <2>7. IsFiniteSet(AcceptedIn(accepted, e))
    BY DEF SendInv, DialerOK, BalanceOK
  <2>8. Spent(e)' = Spent(e)
    BY <2>3, <2>5, <2>6, <2>7, SpentType DEF Spent
  <2>. QED
    BY <1>1, <1>2, <1>5, <2>3, <2>4, <2>5, <2>7, <2>8, DialerStep DEF SendInv
<1>. QED
  BY <1>1, <1>2, <1>3, <1>4, <1>5, OthersRest

\* The loop is through with the frame it awaited.
LEMMA WriteSends ==
    ASSUME TypeOK, TypeOK', NewsInv, SendInv, NEW q \in Peers, WriteResumes(q) \/ WriteFails(q)
    PROVE  SendInv'
<1>1. /\ writing[q] # <<>> /\ writing' = [writing EXCEPT ![q] = <<>>]
      /\ UNCHANGED <<cmds, streamReg, connections, reliable, conn, net, sent>>
  BY DEF WriteResumes, WriteFails, peerVars, mapVars, quinnVars, historyVars
<1>2. PICK h \in Halves, m \in Packet, f \in Ends :
          /\ h = Head(writing[q]).half /\ m = Head(writing[q]).packet
          /\ f = Writer(h) /\ f \in EndsOf(q) /\ Owner(f) = q
  BY <1>1, WritingHead
<1>3. writing'[q] = <<>> /\ \A p \in Peers \ {q} : writing'[p] = writing[p]
  BY <1>1 DEF TypeOK, LoopTypeOK
<1>4. KindsOK'
  BY <1>1, KindsStep DEF SendInv, Queued, Elems
<1>5. ASSUME NEW e \in DialEnds, Owner(e) = q
      PROVE  /\ e = f /\ e \in Ends /\ SendsWaiting(e) = 1 /\ SendsWaiting(e)' = 0
             /\ Queued(q)' = Queued(q) /\ SendsQueued(e)' = SendsQueued(e)
             /\ IsFiniteSet(AcceptedIn(accepted, e))
  <2>1. e \in Ends /\ EndsOf(q) = {e}
    BY <1>5, DialEndFacts
  <2>2. SendsWaiting(e) = 1
    BY <1>1, <1>5, WaitingCount
  <2>3. SendsWaiting(e)' = 0
    BY <1>3, <1>5 DEF SendsWaiting
  <2>. QED
    BY <1>1, <1>2, <1>5, <2>1, <2>2, <2>3, CountsKept DEF SendInv, DialerOK, BalanceOK
<1>6. CASE WriteResumes(q)
  <2>1. Accepts(f, m) /\ UNCHANGED events
    BY <1>2, <1>6 DEF WriteResumes, Put, peerVars
  <2>2. ASSUME NEW e \in DialEnds, Owner(e) = q PROVE DialerOK(e)'
    <3>1. /\ IsFiniteSet(AcceptedIn(accepted', e)) /\ SendsAccepted(e)' = SendsAccepted(e) + 1
      BY <1>5, <2>1, <2>2, AcceptsOne
    <3>2. Told(q)' = Told(q) /\ SendsFailed(e)' = SendsFailed(e)
      BY <2>1, <2>2, CountsKept
    <3>3. Spent(e)' = Spent(e)
      BY <1>5, <2>2, <3>1, <3>2, SpentType DEF Spent
    <3>. QED
      BY <1>1, <1>5, <2>2, <3>1, <3>2, <3>3, DialerStep DEF SendInv
  <2>3. ASSUME NEW e \in DialEnds, Owner(e) # q, NEW s \in StreamId
        PROVE  accepted'[<<e, s>>] = accepted[<<e, s>>]
    BY <1>2, <2>1, <2>3, DialEndFacts, AcceptsSends
  <2>. QED
    BY <1>1, <1>3, <1>4, <2>1, <2>2, <2>3, OthersRest
<1>7. CASE WriteFails(q)
  <2>1. Emit(q, <<SendFailed(f)>>) /\ UNCHANGED accepted
    BY <1>2, <1>7 DEF WriteFails, historyVars
  <2>2. PICK y \in Events[q] : y = SendFailed(f)
    BY <1>2, EventTypes
  <2>3. \A p \in Peers \ {q} : events'[p] = events[p]
    BY <2>1 DEF Emit, TypeOK, PeerTypeOK, EventsTypeOK
  <2>4. ASSUME NEW e \in DialEnds, Owner(e) = q PROVE DialerOK(e)'
    <3>1. Told(q)' = Told(q) \cup {y} /\ SendsFailed(e)' = SendsFailed(e) + 1
      BY <1>5, <2>1, <2>2, <2>4, EventMore
    <3>2. \A s \in StreamId : Announces(e, Told(q)', s) => Announces(e, Told(q), s)
      BY <2>2, <3>1 DEF Announces, StreamCreated, SendFailed
    <3>3. /\ SendsAccepted(e)' = SendsAccepted(e)
          /\ AcceptedIn(accepted', e) = AcceptedIn(accepted, e)
      BY <2>1, <2>4, CountsKept
    <3>4. Spent(e)' = Spent(e)
      BY <1>5, <2>4, <3>1, <3>3, SpentType DEF Spent
    <3>. QED
      BY <1>1, <1>5, <2>4, <3>1, <3>2, <3>3, <3>4, DialerStep DEF SendInv
  <2>. QED
    BY <1>1, <1>3, <1>4, <2>1, <2>3, <2>4, OthersRest
<1>. QED
  BY <1>6, <1>7

-------------------------------------------------------------------------------
(* The sends add up: the other steps of the loop                           *)

\* An event that is no report of a send and announces no stream, at most.
LEMMA DialerHears ==
    ASSUME TypeOK, TypeOK', NEW e \in DialEnds, DialerOK(e), NEW p, p = Owner(e),
           \/ events'[p] = events[p]
           \/ \E y \in Events[p] : /\ Emit(p, <<y>>) /\ y.type # "StreamCreated"
                                   /\ y # SendFailed(e),
           Queued(p)' \subseteq Queued(p), SendsQueued(e)' = SendsQueued(e),
           writing'[p] = writing[p], conn'[e] = conn[e], e \in connections => e \in connections',
           \A s \in StreamId :
               /\ Standing(e)' => reliable'[<<e, s>>] = reliable[<<e, s>>]
               /\ accepted'[<<e, s>>] = accepted[<<e, s>>],
           sent'[e] = sent[e]
    PROVE  DialerOK(e)'
<1>1. /\ SendsWaiting(e)' = SendsWaiting(e) /\ SendsAccepted(e)' = SendsAccepted(e)
      /\ AcceptedIn(accepted', e) = AcceptedIn(accepted, e)
  BY CountsKept
<1>2. /\ Told(p) \subseteq Told(p)' /\ SendsFailed(e)' = SendsFailed(e)
      /\ \A s \in StreamId : Announces(e, Told(p)', s) => Announces(e, Told(p), s)
  <2>1. CASE events'[p] = events[p]
    BY <2>1, CountsKept
  <2>2. ASSUME NEW y \in Events[p], Emit(p, <<y>>), y.type # "StreamCreated", y # SendFailed(e)
        PROVE  /\ Told(p) \subseteq Told(p)' /\ SendsFailed(e)' = SendsFailed(e)
               /\ \A s \in StreamId : Announces(e, Told(p)', s) => Announces(e, Told(p), s)
    <3>1. Told(p)' = Told(p) \cup {y} /\ SendsFailed(e)' = SendsFailed(e) + 0
      BY <2>2, EventMore
    <3>2. SendsFailed(e) \in Nat
      BY DialEndFacts, FailedCount
    <3>. QED
      BY <2>2, <3>1, <3>2 DEF Announces, StreamCreated
  <2>. QED
    BY <2>1, <2>2
<1>3. Spent(e)' = Spent(e) /\ IsFiniteSet(AcceptedIn(accepted', e))
  BY <1>1, <1>2 DEF Spent, DialerOK, BalanceOK
<1>. QED
  BY <1>2, <1>3, DialerStep

\* A command that is no Send, about which the application is told nothing.
LEMMA CommandSends ==
    ASSUME TypeOK, TypeOK', NewsInv, SendInv, NEW q \in Peers, NEW type, type # "Send",
           HandlesQuietly(q, type), KindsOK',
           UNCHANGED <<events, connections, reliable, writing, conn, sent, accepted>>
    PROVE  SendInv'
<1>1. /\ \A p \in Peers : Queued(p)' \subseteq Queued(p)
      /\ \A p \in Peers \ {q} : cmds'[p] = cmds[p]
  BY TakenQueued
<1>2. ASSUME NEW e \in DialEnds, Owner(e) = q PROVE DialerOK(e)'
  <2>1. SendsQueued(e)' = SendsQueued(e)
    BY <1>2, Takes
  <2>. QED
    BY <1>1, <1>2, <2>1, DialerHears DEF SendInv
<1>. QED
  BY <1>1, <1>2, OthersRest

LEMMA BindSends ==
    ASSUME TypeOK, TypeOK', NewsInv, SendInv, Bind
    PROVE  SendInv'
<1>1. /\ HandlesQuietly(Server, "Bind")
      /\ UNCHANGED <<events, streamReg, connections, reliable, writing, conn, net, sent, accepted>>
  BY DEF Bind, mapVars, loopVars, quinnVars, historyVars
<1>2. KindsOK'
  BY <1>1, ServerIsPeer, TakenQueued, KindsStep DEF SendInv
<1>. QED
  BY <1>1, <1>2, ServerIsPeer, CommandSends

\* The kinds of the streams, in their handles.
LEMMA HandleKinds ==
    ASSUME NEW i \in StreamId, NEW k \in Reliability
    PROVE  IsReliable(NewStream(i, k)) <=> k # "Unreliable"
<1>1. i \in Nat
  BY SlotsAssumption DEF StreamId, IdSpace
<1>2. NewStream(i, k) % 4 = KindBits[k]
  BY <1>1, HandleParts
<1>3. KindBits["Unreliable"] = 0 /\ KindBits["Ordered"] = 2 /\ KindBits["Reliable"] = 3
  BY DEF KindBits
<1>. QED
  BY <1>2, <1>3 DEF IsReliable, Reliability

\* A registration more.
LEMMA RegistersKinds ==
    ASSUME TypeOK, SendInv, NEW q \in Peers, NEW r \in Registration(q),
           streamReg' = [streamReg EXCEPT ![q] = Append(@, r)],
           IsReliable(r.stream) => r.quic # NoStream,
           \A p \in Peers : Queued(p)' \subseteq Queued(p),
           \A d \in net' : d \in net \/ ~IsReliable(d[2].stream)
    PROVE  KindsOK'
<1>1. DOMAIN streamReg = Peers /\ streamReg[q] \in Seq(Registration(q))
  BY DEF TypeOK, MapTypeOK
<1>2. Elems(Append(streamReg[q], r)) = Elems(streamReg[q]) \cup {r}
  BY <1>1, ElemsAppend
<1>3. \A p \in Peers : streamReg'[p] = IF p = q THEN Append(streamReg[q], r) ELSE streamReg[p]
  BY <1>1
<1>4. \A p \in Peers : \A x \in Elems(streamReg'[p]) : x \in Elems(streamReg[p]) \/ x = r
  BY <1>2, <1>3
<1>. QED
  BY <1>4, KindsStep DEF SendInv

LEMMA OpenKinds ==
    ASSUME TypeOK, SendInv, NEW q \in Peers, NEW e \in EndsOf(q), NEW i \in StreamId,
           Len(opened[e]) < MaxStreams, OpenStream(q, e, i),
           \A p \in Peers : Queued(p)' \subseteq Queued(p)
    PROVE  /\ KindsOK'
           /\ UNCHANGED <<connections, reliable, writing, conn, sent, accepted>>
<1>1. e \in Ends /\ Owner(e) = q /\ Len(opened[e]) \in Nat
  BY EndsOfFacts, LenProperties DEF TypeOK, QuinnTypeOK
<1>2. PICK u \in StreamsOf(e) : u = <<e, Len(opened[e]) + 1>> /\ u # NoStream
  BY <1>1, NextStream, StreamHalves
<1>3. PICK r \in Registration(q) : r = [end |-> e, stream |-> NewStream(i, "Reliable"), quic |-> u]
  <2>1. NewStream(i, "Reliable") \in StreamId
    BY NewHandle DEF Reliability
  <2>. QED
    BY <2>1, RegistrationMembers
<1>4. /\ streamReg' = [streamReg EXCEPT ![q] = Append(@, r)]
      /\ UNCHANGED <<connections, reliable, writing, conn, net, sent, accepted>>
  BY <1>2, <1>3 DEF OpenStream, historyVars
<1>5. r.quic # NoStream
  BY <1>2, <1>3
<1>. QED
  BY <1>4, <1>5, RegistersKinds

LEMMA CreateSends ==
    ASSUME "Ordered" \notin Kinds, IndType, TypeOK', NewsInv, SendInv, NEW q \in Peers,
           CreateReliable(q) \/ CreateWaits(q) \/ CreateDropped(q) \/ CreateUnreliable(q)
    PROVE  SendInv'
<1>1. HandlesQuietly(q, "CreateStream") /\ UNCHANGED events /\ TypeOK
  BY DEF CreateReliable, CreateWaits, CreateDropped, CreateUnreliable, IndType
<1>2. PICK e \in Ends : e = Head(cmds[q]).conn /\ e \in EndsOf(q)
  BY <1>1, HeadThere DEF OfConnection, HeadEnd
<1>3. PICK i \in StreamId : i = Head(cmds[q]).index
  BY <1>1, QuietType, HeadParts
<1>4. \A p \in Peers : Queued(p)' \subseteq Queued(p)
  BY <1>1, TakenQueued
<1>5. CASE CreateReliable(q)
  <2>1. OpenStream(q, e, i) /\ Head(cmds[q]).reliability = "Reliable"
    BY <1>2, <1>3, <1>5 DEF CreateReliable
  <2>2. Len(opened[e]) < MaxStreams
    BY <1>1, <1>2, <2>1, CreateHead
  <2>3. KindsOK' /\ UNCHANGED <<connections, reliable, writing, conn, sent, accepted>>
    BY <1>1, <1>2, <1>4, <2>1, <2>2, OpenKinds
  <2>. QED
    BY <1>1, <2>3, CommandSends
<1>6. CASE CreateWaits(q) \/ CreateDropped(q)
  <2>1. UNCHANGED <<streamReg, connections, reliable, writing, conn, net, sent, accepted>>
    BY <1>6 DEF CreateWaits, CreateDropped, quicVars, mapVars, loopVars, quinnVars, historyVars
  <2>2. KindsOK'
    BY <1>4, <2>1, KindsStep DEF SendInv
  <2>. QED
    BY <1>1, <2>1, <2>2, CommandSends
<1>7. CASE CreateUnreliable(q)
  <2>1. PICK k \in Reliability : k = Head(cmds[q]).reliability /\ k = "Unreliable"
    <3>1. /\ cmds[q] # <<>> /\ Head(cmds[q]).type = "CreateStream" /\ Head(cmds[q]) \in Queued(q)
      BY <1>1, QuietType
    <3>2. Head(cmds[q]).reliability \in Kinds /\ Head(cmds[q]).reliability # "Reliable"
      BY <1>7, <3>1 DEF SendInv, KindsOK, CreatesOfKind, CreateUnreliable
    <3>. QED
      BY <3>2, QuicAssumption DEF Reliability
  <2>2. PICK r \in Registration(q) : r = [end |-> e, stream |-> NewStream(i, k), quic |-> NoStream]
    <3>1. NewStream(i, k) \in StreamId
      BY NewHandle
    <3>. QED
      BY <1>2, <3>1, RegistrationMembers
  <2>3. /\ streamReg' = [streamReg EXCEPT ![q] = Append(@, r)]
        /\ UNCHANGED <<connections, reliable, writing, conn, net, sent, accepted>>
    BY <1>2, <1>3, <1>7, <2>1, <2>2 DEF CreateUnreliable, loopVars, quinnVars, historyVars
  <2>4. ~IsReliable(r.stream)
    BY <2>1, <2>2, HandleKinds
  <2>5. KindsOK'
    BY <1>1, <1>4, <2>3, <2>4, RegistersKinds
  <2>. QED
    BY <1>1, <2>3, <2>5, CommandSends
<1>. QED
  BY <1>5, <1>6, <1>7

LEMMA CreateResumesSends ==
    ASSUME IndType, TypeOK', NewsInv, SendInv, NEW q \in Peers, CreateResumes(q)
    PROVE  SendInv'
<1>1. TypeOK /\ opening[q] # <<>> /\ UNCHANGED <<cmds, events>>
  BY DEF CreateResumes, IndType, peerVars
<1>2. PICK e \in Ends, i \in StreamId : /\ e = Head(opening[q]).end /\ i = Head(opening[q]).index
                                        /\ e \in EndsOf(q) /\ Owner(e) = q
  BY <1>1, OpeningHead
<1>3. OpenStream(q, e, i)
  BY <1>2 DEF CreateResumes
<1>4. Len(opened[e]) < MaxStreams
  <2>1. /\ Asked(e) <= next_stream_id[q] /\ Len(opened[e]) \in Nat
        /\ Count(cmds[q], Creates(e)) \in Nat /\ next_stream_id[q] \in 0 .. MaxStreams
    BY <1>1, <1>2, AskedType DEF IndType, CreatesOK
  <2>2. Opening(e) = 1
    BY <1>1, <1>2 DEF Opening
  <2>3. Asked(e) = Len(opened[e]) + 1 + Count(cmds[q], Creates(e))
    BY <1>2, <2>2 DEF Asked
  <2>. QED
    BY <2>1, <2>3, MaxStreamsAssumption
<1>5. \A p \in Peers : Queued(p)' \subseteq Queued(p)
  BY <1>1 DEF Queued, Elems
<1>6. KindsOK' /\ UNCHANGED <<connections, reliable, writing, conn, sent, accepted>>
  BY <1>1, <1>2, <1>3, <1>4, <1>5, OpenKinds
<1>7. ASSUME NEW f \in DialEnds PROVE DialerOK(f)'
  BY <1>1, <1>6, DialEndFacts, DialerRests DEF SendInv
<1>. QED
  BY <1>6, <1>7 DEF SendInv

\* The application has closed a stream: what it still sends on it may be lost.
LEMMA CloseStreamSends ==
    ASSUME TypeOK, TypeOK', NewsInv, SendInv, NEW q \in Peers, BackendCloseStream(q)
    PROVE  SendInv'
<1>1. /\ HandlesQuietly(q, "CloseStream") /\ cmds[q] # <<>> /\ Head(cmds[q]).type = "CloseStream"
      /\ UNCHANGED <<streamReg, connections, writing, conn, net, sent, accepted>>
  BY QuietType DEF BackendCloseStream, loopVars, historyVars
<1>2. PICK f \in Ends, s \in StreamId :
          /\ f = HeadEnd(q) /\ f \in EndsOf(q) /\ Owner(f) = q /\ s = Head(cmds[q]).stream
  BY <1>1, HeadParts
<1>3. PICK k \in Key : k = <<f, s>>
  BY KeyFacts
<1>4. reliable' = [reliable EXCEPT ![k] = NoStream] /\ Emit(q, <<StreamClosed(f, s)>>)
  BY <1>2, <1>3 DEF BackendCloseStream
<1>5. PICK y \in Events[q] : y = StreamClosed(f, s)
  BY <1>2, EventTypes
<1>6. y.type # "StreamCreated" /\ \A e \in Ends : y # SendFailed(e)
  BY <1>5 DEF StreamClosed, SendFailed
<1>7. /\ \A p \in Peers : Queued(p)' \subseteq Queued(p)
      /\ \A p \in Peers \ {q} : cmds'[p] = cmds[p] /\ events'[p] = events[p]
  BY <1>1, <1>4, TakenQueued DEF Emit, TypeOK, PeerTypeOK, EventsTypeOK
<1>8. KindsOK'
  BY <1>1, <1>7, KindsStep DEF SendInv
<1>9. ASSUME NEW e \in DialEnds, Owner(e) = q PROVE DialerOK(e)'
  <2>1. SendsQueued(e)' = SendsQueued(e)
    BY <1>1, <1>9, Takes
  <2>2. e = f /\ e \in Ends
    BY <1>2, <1>9, DialEndFacts
  <2>3. ~Standing(e)'
    <3>1. y \in Told(q)'
      BY <1>4, <1>5, <1>9, EventMore
    <3>2. HasClosed(e)'
      BY <1>5, <1>9, <2>2, <3>1, ClosedToldNext
    <3>. QED
      BY <3>2 DEF Standing
  <2>. QED
    BY <1>1, <1>4, <1>5, <1>6, <1>7, <1>9, <2>1, <2>2, <2>3, DialerHears DEF SendInv
<1>10. ASSUME NEW e \in DialEnds, Owner(e) # q, NEW t \in StreamId
       PROVE  reliable'[<<e, t>>] = reliable[<<e, t>>]
  <2>1. e \in Ends /\ <<e, t>> \in Key /\ <<e, t>>[1] = e /\ k[1] = f
    BY <1>3, DialEndFacts, KeyFacts
  <2>. QED
    BY <1>2, <1>4, <1>10, <2>1 DEF TypeOK, MapTypeOK
<1>. QED
  BY <1>1, <1>7, <1>8, <1>9, <1>10, OthersRest

LEMMA RegisterStreamSends ==
    ASSUME TypeOK, TypeOK', NewsInv, SendInv, NEW q \in Peers, RegisterStream(q)
    PROVE  SendInv'
<1>1. streamReg[q] # <<>> /\ streamReg' = [streamReg EXCEPT ![q] = Tail(@)]
      /\ UNCHANGED <<cmds, connections, writing, conn, net, sent, accepted>>
  BY DEF RegisterStream, loopVars, historyVars
<1>2. PICK r \in Registration(q) :
          /\ r = Head(streamReg[q]) /\ r.end \in EndsOf(q) /\ r.end \in Ends
          /\ Owner(r.end) = q /\ r.stream \in StreamId
  BY <1>1, RegistrationHead
<1>3. DOMAIN streamReg = Peers /\ streamReg[q] \in Seq(Registration(q))
  BY DEF TypeOK, MapTypeOK
<1>4. r \in Elems(streamReg[q]) /\ Elems(Tail(streamReg[q])) \subseteq Elems(streamReg[q])
  BY <1>1, <1>2, <1>3, ElemsTail
<1>5. IsReliable(r.stream) => r.quic # NoStream
  BY <1>4 DEF SendInv, KindsOK, RegisteredOK
<1>6. PICK k \in Key : k = <<r.end, r.stream>>
  BY <1>2, KeyFacts
<1>7. IF r.quic # NoStream THEN reliable' = [reliable EXCEPT ![k] = r.quic] ELSE UNCHANGED reliable
  BY <1>2, <1>6 DEF RegisterStream
<1>8. KindsOK'
  <2>1. \A p \in Peers : streamReg'[p] = IF p = q THEN Tail(streamReg[q]) ELSE streamReg[p]
    BY <1>1, <1>3
  <2>2. \A p \in Peers : \A x \in Elems(streamReg'[p]) : x \in Elems(streamReg[p])
    BY <1>4, <2>1
  <2>3. \A p \in Peers : Queued(p)' \subseteq Queued(p)
    BY <1>1 DEF Queued, Elems
  <2>. QED
    BY <1>1, <2>2, <2>3, KindsStep DEF SendInv
<1>9. \A u \in Key : u[1] # r.end => reliable'[u] = reliable[u]
  <2>1. k[1] = r.end
    BY <1>6
  <2>. QED
    BY <1>7, <2>1 DEF TypeOK, MapTypeOK
<1>10. ASSUME NEW e \in DialEnds, Owner(e) # q, NEW t \in StreamId
       PROVE  reliable'[<<e, t>>] = reliable[<<e, t>>]
  <2>1. <<e, t>> \in Key /\ <<e, t>>[1] = e
    BY DialEndFacts, KeyFacts
  <2>. QED
    BY <1>2, <1>9, <1>10, <2>1
<1>11. PICK y \in Events[q] : y = StreamCreated(r.end, r.stream)
  BY <1>2, EventTypes
<1>12. Emit(q, <<>>) \/ Emit(q, <<y>>)
  BY <1>2, <1>11 DEF RegisterStream
<1>13. \A p \in Peers \ {q} : events'[p] = events[p]
  BY <1>12 DEF Emit, TypeOK, PeerTypeOK, EventsTypeOK
<1>14. ASSUME NEW e \in DialEnds, Owner(e) = q PROVE DialerOK(e)'
  <2>1. e = r.end /\ e \in Ends
    BY <1>2, <1>14, DialEndFacts
  <2>2. \A s \in StreamId : reliable[<<e, s>>] # NoStream => reliable'[<<e, s>>] # NoStream
    <3>1. \A s \in StreamId : <<e, s>> \in Key
      BY <2>1, KeyFacts
    <3>. QED
      BY <1>7, <3>1 DEF TypeOK, MapTypeOK
  <2>3. IsReliable(r.stream) => reliable'[<<e, r.stream>>] # NoStream
    BY <1>5, <1>6, <1>7, <2>1 DEF TypeOK, MapTypeOK
  <2>4. /\ Told(q) \subseteq Told(q)' /\ Told(q)' \subseteq Told(q) \cup {y}
        /\ SendsFailed(e)' = SendsFailed(e)
    <3>1. CASE Emit(q, <<>>)
      <4>1. events'[q] = events[q]
        BY <3>1, QueueTypes, EmitNone
      <4>. QED
        BY <1>14, <4>1, CountsKept
    <3>2. CASE Emit(q, <<y>>)
      <4>1. y # SendFailed(e)
        BY <1>11 DEF StreamCreated, SendFailed
      <4>2. Told(q)' = Told(q) \cup {y} /\ SendsFailed(e)' = SendsFailed(e) + 0
        BY <1>14, <3>2, <4>1, EventMore
      <4>3. SendsFailed(e) \in Nat
        BY <2>1, FailedCount
      <4>. QED
        BY <4>2, <4>3
    <3>. QED
      BY <1>12, <3>1, <3>2
  <2>5. \A s \in StreamId :
            /\ reliable[<<e, s>>] # NoStream => reliable'[<<e, s>>] # NoStream
            /\ Announces(e, Told(q)', s) /\ IsReliable(s) =>
                   Announces(e, Told(q), s) \/ reliable'[<<e, s>>] # NoStream
    <3>1. ASSUME NEW s \in StreamId, Announces(e, Told(q)', s), ~Announces(e, Told(q), s)
          PROVE  s = r.stream
      <4>1. StreamCreated(e, s) = StreamCreated(r.end, r.stream)
        BY <1>11, <2>4, <3>1 DEF Announces
      <4>. QED
        BY <4>1 DEF StreamCreated
    <3>. QED
      BY <2>2, <2>3, <3>1
  <2>6. /\ Queued(q)' = Queued(q) /\ SendsQueued(e)' = SendsQueued(e)
        /\ SendsWaiting(e)' = SendsWaiting(e) /\ SendsAccepted(e)' = SendsAccepted(e)
        /\ AcceptedIn(accepted', e) = AcceptedIn(accepted, e)
    BY <1>1, <1>14, CountsKept
  <2>7. Spent(e)' = Spent(e) /\ IsFiniteSet(AcceptedIn(accepted', e))
    BY <2>4, <2>6 DEF Spent, SendInv, DialerOK, BalanceOK
  <2>. QED
    BY <1>1, <1>14, <2>4, <2>5, <2>6, <2>7, DialerStep DEF SendInv
<1>. QED
  BY <1>1, <1>8, <1>10, <1>13, <1>14, OthersRest

LEMMA RegisterConnectionSends ==
    ASSUME TypeOK, TypeOK', SendInv, RegisterConnection
    PROVE  SendInv'
<1>1. /\ connections \subseteq connections'
      /\ UNCHANGED <<cmds, events, streamReg, reliable, writing, conn, net, sent, accepted>>
  BY DEF RegisterConnection, peerVars, loopVars, quinnVars, historyVars
<1>2. KindsOK'
  BY <1>1, KindsStep DEF SendInv, Queued, Elems
<1>3. ASSUME NEW e \in DialEnds PROVE DialerOK(e)'
  BY <1>1, DialEndFacts, DialerRests DEF SendInv
<1>. QED
  BY <1>2, <1>3 DEF SendInv

-------------------------------------------------------------------------------
(* The sends add up: connections come and go                               *)

LEMMA StopSends ==
    ASSUME TypeOK, TypeOK', NewsInv, SendInv, NEW q \in Peers, Stop(q)
    PROVE  SendInv'
<1>1. /\ cmds' = [cmds EXCEPT ![q] = <<>>] /\ writing' = [writing EXCEPT ![q] = <<>>]
      /\ streamReg' = [streamReg EXCEPT ![q] = <<>>]
      /\ connections' = connections \ EndsOf(q)
      /\ reliable' = [k \in Key |-> IF Owner(k[1]) = q THEN NoStream ELSE reliable[k]]
      /\ conn' = [e \in Ends |-> IF Owner(e) = q /\ conn[e] # "none" THEN "closed" ELSE conn[e]]
      /\ UNCHANGED <<events, net, sent, accepted>>
  BY DEF Stop, ThreadExits, historyVars
<1>2. /\ cmds'[q] = <<>> /\ writing'[q] = <<>>
      /\ \A p \in Peers \ {q} : cmds'[p] = cmds[p] /\ writing'[p] = writing[p]
      /\ \A p \in Peers : streamReg'[p] = <<>> \/ streamReg'[p] = streamReg[p]
  BY <1>1 DEF TypeOK, PeerTypeOK, CommandsTypeOK, LoopTypeOK, MapTypeOK
<1>3. \A p \in Peers : Queued(p)' \subseteq Queued(p)
  BY <1>2 DEF Queued, Elems
<1>4. KindsOK'
  <2>1. \A p \in Peers : \A r \in Elems(streamReg'[p]) : r \in Elems(streamReg[p])
    BY <1>2 DEF Elems
  <2>. QED
    BY <1>1, <1>3, <2>1, KindsStep DEF SendInv
<1>5. ASSUME NEW e \in DialEnds, Owner(e) = q PROVE DialerOK(e)'
  <2>1. e \in Ends /\ DialerOK(e)
    BY DialEndFacts DEF SendInv
  <2>2. conn'[e] = IF None(e) THEN "none" ELSE "closed"
    BY <1>1, <1>5, <2>1 DEF None
  <2>3. /\ Told(q)' = Told(q) /\ SendsFailed(e)' = SendsFailed(e)
        /\ AcceptedIn(accepted', e) = AcceptedIn(accepted, e)
        /\ SendsAccepted(e)' = SendsAccepted(e) /\ (Standing(e)' /\ conn'[e] = conn[e] => Standing(e))
    BY <1>1, <1>5, CountsKept
  <2>4. Standing(e)' => None(e) /\ Standing(e)
    BY <2>2, <2>3 DEF Standing, None
  <2>5. ListedOK(e)' /\ SendsOK(e)'
    <3>1. Queued(q)' = {}
      BY <1>2 DEF Queued, Elems
    <3>. QED
      BY <1>5, <2>2, <3>1 DEF ListedOK, SendsOK
  <2>6. StreamsOK(e)'
    <3>1. ASSUME NEW s \in StreamId, Announces(e, Told(q)', s), Standing(e)' PROVE FALSE
      <4>1. StreamCreated(e, s) \in Told(q)
        BY <2>3, <3>1 DEF Announces
      <4>2. Heard(e)
        BY <1>5, <2>1, <4>1, LaterEvents DEF Heard
      <4>. QED
        BY <2>1, <2>4, <3>1, <4>2 DEF NewsInv, HeardOK
    <3>2. ASSUME NEW s \in StreamId, Announces(e, Told(Owner(e))', s), Standing(e)'
          PROVE  FALSE
      BY <1>5, <3>1, <3>2
    <3>. QED
      BY <3>2 DEF StreamsOK, Announces, StreamCreated, NoStream, IsReliable
  <2>7. BalanceOK(e)'
    <3>1. IsFiniteSet(AcceptedIn(accepted, e)')
      BY <2>1, <2>3 DEF DialerOK, BalanceOK, AcceptedIn
    <3>2. None(e)' => sent'[e] = 0
      BY <1>1, <2>1, <2>2 DEF None, DialerOK, BalanceOK
    <3>3. ASSUME Standing(e)' PROVE sent'[e] = Spent(e)'
      <4>1. sent[e] = 0 /\ sent[e] = Spent(e)
        BY <2>1, <2>4, <3>3 DEF DialerOK, BalanceOK
      <4>2. SendsAccepted(e) = 0 /\ SendsFailed(e) = 0
        BY <2>1, <4>1, SpentType DEF Spent, DialerOK, BalanceOK
      <4>3. SendsWaiting(e)' = 0
        BY <1>2, <1>5 DEF SendsWaiting
      <4>4. SendsQueued(e)' = 0
        <5>1. PICK none : none = cmds'[q] /\ Count(none, Sends(e)) = 0
          BY <1>2, CountEmpty
        <5>. QED
          BY <1>5, <2>1, <5>1, QueuedCountNext
      <4>. QED
        BY <1>1, <2>3, <4>1, <4>2, <4>3, <4>4 DEF Spent
    <3>. QED
      BY <3>1, <3>2, <3>3 DEF BalanceOK
  <2>. QED
    BY <2>5, <2>6, <2>7 DEF DialerOK
<1>6. ASSUME NEW e \in DialEnds, Owner(e) # q
      PROVE  /\ conn'[e] = conn[e] /\ (e \in connections => e \in connections')
             /\ \A s \in StreamId : reliable'[<<e, s>>] = reliable[<<e, s>>]
  <2>1. e \in Ends /\ e \notin EndsOf(q)
    BY <1>6, DialEndFacts DEF EndsOf
  <2>2. \A s \in StreamId : <<e, s>> \in Key /\ <<e, s>>[1] = e
    BY <2>1, KeyFacts
  <2>. QED
    BY <1>1, <1>6, <2>1, <2>2
<1>. QED
  BY <1>1, <1>2, <1>4, <1>5, <1>6, OthersRest

LEMMA HandshakeFailsSends ==
    ASSUME TypeOK, TypeOK', NewsInv, SendInv, HandshakeFails
    PROVE  SendInv'
<1>1. CASE Stop(Server)
  BY <1>1, ServerIsPeer, StopSends
<1>2. CASE UNCHANGED <<peerVars, mapVars, loopVars, quinnVars, net, historyVars>>
  BY <1>2, SendsRest DEF peerVars, mapVars, loopVars, quinnVars, historyVars
<1>. QED
  BY <1>1, <1>2 DEF HandshakeFails

LEMMA ConnectSends ==
    ASSUME TypeOK, TypeOK', NewsInv, SendInv, NewsInv', NEW c \in Clients, Connect(c)
    PROVE  SendInv'
<1>1. PICK e \in DialEnds : e = <<c, "dial">> /\ e \in Ends /\ Owner(e) = c /\ c \in Peers
  BY ClientEnds
<1>2. /\ HandlesQuietly(c, "Connect") /\ conn' = [conn EXCEPT ![e] = "up"]
      /\ connections' = connections \cup {e} /\ Emit(c, <<Connected(e)>>)
      /\ UNCHANGED <<streamReg, reliable, writing, net, sent, accepted>>
  BY <1>1 DEF Connect, loopVars, historyVars
<1>3. /\ \A p \in Peers : Queued(p)' \subseteq Queued(p)
      /\ \A p \in Peers \ {c} : cmds'[p] = cmds[p] /\ events'[p] = events[p]
  BY <1>1, <1>2, TakenQueued DEF Emit, TypeOK, PeerTypeOK, EventsTypeOK
<1>4. KindsOK'
  BY <1>2, <1>3, KindsStep DEF SendInv
<1>5. \A f \in Ends : conn'[f] = IF f = e THEN "up" ELSE conn[f]
  BY <1>1, <1>2 DEF TypeOK, QuinnTypeOK
<1>6. None(e)
  <2>1. cmds[c] # <<>> /\ Head(cmds[c]).type = "Connect" /\ cmds[c] \in Seq(Commands[c])
        /\ Head(cmds[c]) \in Command(EndsOf(c), Packet) /\ Head(cmds[c]) \in Queued(c)
    BY <1>1, <1>2, QueueTypes, QuietType
  <2>2. Head(cmds[c]) = ConnectCmd
    BY <2>1 DEF Command, BindCmd, ConnectCmd, ShutdownCmd, SendCmd, CreateStreamCmd, CloseStreamCmd
  <2>3. /\ Count(cmds[c], {ConnectCmd}) = Count(Tail(cmds[c]), {ConnectCmd})
                                            + (IF Head(cmds[c]) \in {ConnectCmd} THEN 1 ELSE 0)
        /\ Count(Tail(cmds[c]), {ConnectCmd}) \in Nat
    <3>1. Tail(cmds[c]) \in Seq(Commands[c])
      BY <2>1, HeadTailProperties
    <3>. QED
      BY <2>1, <3>1, CountTail, CountType
  <2>4. Dials(c) <= IF None(<<c, "dial">>) THEN 1 ELSE 0
    BY DEF NewsInv, DialsOK
  <2>. QED
    BY <1>1, <2>2, <2>3, <2>4 DEF Dials
<1>7. DialerOK(e)'
  <2>1. SendsQueued(e)' = SendsQueued(e)
    BY <1>1, <1>2, Takes
  <2>2. PICK y \in Events[c] : y = Connected(e)
    BY <1>1, EventTypes, EndFacts
  <2>3. Told(c)' = Told(c) \cup {y} /\ SendsFailed(e)' = SendsFailed(e)
    <3>1. y # SendFailed(e)
      BY <2>2 DEF Connected, SendFailed
    <3>2. Told(c)' = Told(c) \cup {y} /\ SendsFailed(e)' = SendsFailed(e) + 0
      BY <1>1, <1>2, <2>2, <3>1, EventMore
    <3>3. SendsFailed(e) \in Nat
      BY <1>1, FailedCount
    <3>. QED
      BY <3>2, <3>3
  <2>4. \A s \in StreamId : Announces(e, Told(c)', s) => Announces(e, Told(c), s)
    BY <2>2, <2>3 DEF Announces, StreamCreated, Connected
  <2>5. /\ SendsWaiting(e)' = SendsWaiting(e) /\ SendsAccepted(e)' = SendsAccepted(e)
        /\ AcceptedIn(accepted', e) = AcceptedIn(accepted, e)
    BY <1>1, <1>2, CountsKept
  <2>6. Spent(e)' = Spent(e) /\ IsFiniteSet(AcceptedIn(accepted', e))
    BY <2>1, <2>3, <2>5 DEF Spent, SendInv, DialerOK, BalanceOK
  <2>7. conn'[e] = "up" /\ e \in connections'
    BY <1>1, <1>2, <1>5
  <2>. QED
    BY <1>1, <1>2, <1>3, <1>6, <2>3, <2>4, <2>6, <2>7, DialerStep DEF SendInv
<1>8. ASSUME NEW f \in DialEnds, Owner(f) = c PROVE f = e
  BY <1>1, <1>8, DialEndFacts
<1>9. ASSUME NEW f \in DialEnds, Owner(f) # c
      PROVE  conn'[f] = conn[f] /\ (f \in connections => f \in connections')
  BY <1>1, <1>2, <1>5, <1>9, DialEndFacts
<1>. QED
  BY <1>1, <1>2, <1>3, <1>4, <1>7, <1>8, <1>9, OthersRest

LEMMA AcceptSends ==
    ASSUME TypeOK, TypeOK', SendInv, Accept
    PROVE  SendInv'
<1>1. PICK a \in AcceptEnds : a = Head(backlog)
  BY HeadTailProperties DEF TypeOK, AcceptTypeOK, Accept
<1>2. /\ conn' = [conn EXCEPT ![a] = "up"] /\ Emit(Server, <<Connected(a)>>)
      /\ UNCHANGED <<cmds, streamReg, connections, reliable, writing, net, sent, accepted>>
  BY <1>1 DEF Accept, mapVars, loopVars, historyVars
<1>3. \A p \in Peers \ {Server} : events'[p] = events[p]
  BY <1>2 DEF Emit, TypeOK, PeerTypeOK, EventsTypeOK
<1>4. KindsOK'
  BY <1>2, KindsStep DEF SendInv, Queued, Elems
<1>5. \A e \in DialEnds : Owner(e) # Server /\ conn'[e] = conn[e]
  <2>1. \A e \in DialEnds : e # a /\ e \in Ends /\ Owner(e) # Server
    BY <1>1, DialEndFacts
  <2>. QED
    BY <1>2, <2>1 DEF TypeOK, QuinnTypeOK
<1>. QED
  BY <1>2, <1>3, <1>4, <1>5, ServerIsPeer, OthersRest

LEMMA LoseSends ==
    ASSUME TypeOK, TypeOK', SendInv, NEW f \in Ends, Lose(f)
    PROVE  SendInv'
<1>1. /\ conn[f] = "up" /\ conn' = [conn EXCEPT ![f] = "lost"]
      /\ UNCHANGED <<cmds, events, streamReg, connections, reliable, writing, net, sent, accepted>>
  BY DEF Lose, peerVars, mapVars, loopVars, historyVars
<1>2. KindsOK'
  BY <1>1, KindsStep DEF SendInv, Queued, Elems
<1>3. ASSUME NEW e \in DialEnds PROVE DialerOK(e)'
  <2>1. conn'[e] = conn[e] \/ (conn[e] = "up" /\ conn'[e] = "lost")
    BY <1>1, DialEndFacts DEF TypeOK, QuinnTypeOK
  <2>. QED
    BY <1>1, <2>1, DialEndFacts, DialerRests DEF SendInv
<1>. QED
  BY <1>2, <1>3 DEF SendInv

-------------------------------------------------------------------------------
(* The sends add up: the readers                                           *)

LEMMA MessageSends ==
    ASSUME TypeOK, TypeOK', SendInv, NEW f \in Ends, NEW m \in Packet, KindsOK',
           Emit(Owner(f), <<Message(f, m)>>),
           UNCHANGED <<cmds, connections, reliable, writing, conn, sent, accepted>>
    PROVE  SendInv'
<1>1. Owner(f) \in Peers /\ f \in EndsOf(Owner(f))
  BY EndFacts
<1>2. PICK y \in Events[Owner(f)] : y = Message(f, m)
  BY <1>1, EventTypes
<1>3. y.type # "StreamCreated" /\ \A e \in Ends : y # SendFailed(e)
  BY <1>2 DEF Message, SendFailed
<1>4. \A p \in Peers \ {Owner(f)} : events'[p] = events[p]
  BY DEF Emit, TypeOK, PeerTypeOK, EventsTypeOK
<1>5. ASSUME NEW e \in DialEnds, Owner(e) = Owner(f) PROVE DialerOK(e)'
  <2>1. Queued(Owner(e))' = Queued(Owner(e)) /\ SendsQueued(e)' = SendsQueued(e)
    BY <1>5, CountsKept
  <2>2. e \in Ends /\ y # SendFailed(e)
    BY <1>3, DialEndFacts
  <2>. QED
    BY <1>2, <1>3, <1>5, <2>1, <2>2, DialerHears DEF SendInv
<1>. QED
  BY <1>1, <1>4, <1>5, OthersRest

LEMMA ReadDatagramSends ==
    ASSUME TypeOK, TypeOK', SendInv, NEW f \in Ends, NEW m \in Packet, ReadDatagram(f, m)
    PROVE  SendInv'
<1>1. /\ <<f, m>> \in net /\ net' \subseteq net /\ Emit(Owner(f), <<Message(f, m)>>)
      /\ UNCHANGED <<cmds, connections, reliable, writing, conn, sent, accepted>>
  BY DEF ReadDatagram, loopVars, quinnVars, historyVars
<1>2. \A p \in Peers : Queued(p)' \subseteq Queued(p)
  BY <1>1 DEF Queued, Elems
<1>3. KindsOK'
  <2>1. PICK r \in Registration(Owner(f)) :
            r = [end |-> f, stream |-> m.stream, quic |-> NoStream]
    BY EndFacts, RegistrationMembers DEF Packet
  <2>2. UNCHANGED streamReg \/ streamReg' = [streamReg EXCEPT ![Owner(f)] = Append(@, r)]
    BY <2>1 DEF ReadDatagram
  <2>3. ~IsReliable(r.stream)
    <3>1. <<f, m>>[2] = m
      OBVIOUS
    <3>2. ~IsReliable(m.stream)
      BY <1>1, <3>1 DEF SendInv, KindsOK, DatagramsOK
    <3>. QED
      BY <2>1, <3>2
  <2>4. CASE UNCHANGED streamReg
    BY <1>1, <1>2, <2>4, KindsStep DEF SendInv
  <2>5. CASE streamReg' = [streamReg EXCEPT ![Owner(f)] = Append(@, r)]
    BY <1>1, <1>2, <2>3, <2>5, EndFacts, RegistersKinds
  <2>. QED
    BY <2>2, <2>4, <2>5
<1>. QED
  BY <1>1, <1>3, MessageSends

LEMMA AcceptStreamSends ==
    ASSUME TypeOK, TypeOK', SendInv, NEW f \in Ends, AcceptStream(f)
    PROVE  SendInv'
<1>1. taken[f] < Len(opened[Other(f)])
      /\ UNCHANGED <<cmds, events, connections, reliable, writing, conn, net, sent, accepted>>
  BY DEF AcceptStream, peerVars, loopVars, historyVars
<1>2. PICK q \in StreamsOf(f) : /\ q = <<Other(f), taken[f] + 1>>
                                /\ opened[Other(f)][q[2]] \in StreamId
  BY <1>1, NextTaken
<1>3. PICK s \in StreamId : s = NewStream(opened[Other(f)][q[2]], "Reliable")
  BY <1>2, NewHandle DEF Reliability
<1>4. PICK r \in Registration(Owner(f)) : r = [end |-> f, stream |-> s, quic |-> q]
  BY EndFacts, RegistrationMembers
<1>5. streamReg' = [streamReg EXCEPT ![Owner(f)] = Append(@, r)]
  BY <1>2, <1>3, <1>4 DEF AcceptStream
<1>6. r.quic # NoStream
  BY <1>4, StreamHalves
<1>7. \A p \in Peers : Queued(p)' \subseteq Queued(p)
  BY <1>1 DEF Queued, Elems
<1>8. KindsOK'
  BY <1>1, <1>5, <1>6, <1>7, EndFacts, RegistersKinds
<1>9. ASSUME NEW e \in DialEnds PROVE DialerOK(e)'
  BY <1>1, DialEndFacts, DialerRests DEF SendInv
<1>. QED
  BY <1>8, <1>9 DEF SendInv

LEMMA ReadHalfSends ==
    ASSUME TypeOK, TypeOK', SendInv, NEW h \in Halves, ReadHalf(h)
    PROVE  SendInv'
<1>1. CASE ReadFrame(h)
  <2>1. /\ pipe[h] # <<>> /\ reading[h] = "running"
        /\ UNCHANGED <<cmds, streamReg, connections, reliable, writing, conn, net, sent, accepted>>
    BY <1>1 DEF ReadFrame, mapVars, loopVars
  <2>2. PICK e \in Ends, m \in Packet : e = Reader(h) /\ Emit(Owner(e), <<Message(e, m)>>)
    BY <1>1, FrameParts
  <2>3. KindsOK'
    BY <2>1, KindsStep DEF SendInv, Queued, Elems
  <2>. QED
    BY <2>1, <2>2, <2>3, MessageSends
<1>2. CASE ReadEnd(h)
  BY <1>2, SendsRest DEF ReadEnd, peerVars, mapVars, loopVars, historyVars
<1>. QED
  BY <1>1, <1>2 DEF ReadHalf

-------------------------------------------------------------------------------
LEMMA SendInit == Init => SendInv
<1> SUFFICES ASSUME Init PROVE SendInv
  OBVIOUS
<1>1. /\ \A p \in Peers : cmds[p] = <<>> /\ events[p] = <<>> /\ streamReg[p] = <<>>
                          /\ writing[p] = <<>>
      /\ \A e \in Ends : conn[e] = "none" /\ sent[e] = 0
      /\ \A k \in Key : accepted[k] = <<>>
      /\ net = {}
  BY DEF Init, PeerInit
<1>2. \A p \in Peers : Queued(p) = {} /\ Told(p) = {} /\ Elems(streamReg[p]) = {}
  BY <1>1 DEF Queued, Told, Elems
<1>3. KindsOK
  BY <1>1, <1>2 DEF KindsOK, CreatesOfKind, DatagramsOK, RegisteredOK
<1>4. ASSUME NEW e \in DialEnds PROVE DialerOK(e)
  <2>1. e \in Ends /\ Owner(e) \in Peers
    BY DialEndFacts
  <2>2. AcceptedIn(accepted, e) = {}
    <3>1. ASSUME NEW s \in StreamId PROVE DOMAIN accepted[<<e, s>>] = {}
      BY <1>1, <2>1, KeyFacts
    <3>. QED
      BY <3>1 DEF AcceptedIn
  <2>3. SendsAccepted(e) = 0 /\ IsFiniteSet(AcceptedIn(accepted, e))
    BY <2>1, <2>2, AcceptedCount, FS_EmptySet
  <2>4. SendsWaiting(e) = 0
    BY <1>1, <2>1 DEF SendsWaiting
  <2>5. SendsQueued(e) = 0 /\ SendsFailed(e) = 0
    <3>1. /\ {i \in DOMAIN cmds[Owner(e)] :
                 cmds[Owner(e)][i].type = "Send" /\ cmds[Owner(e)][i].conn = e} = {}
          /\ {i \in DOMAIN events[Owner(e)] : events[Owner(e)][i] = SendFailed(e)} = {}
      BY <1>1, <2>1
    <3>. QED
      BY <3>1, FS_EmptySet DEF SendsQueued, SendsFailed
  <2>6. BalanceOK(e)
    BY <1>1, <2>1, <2>3, <2>4, <2>5 DEF BalanceOK, Spent
  <2>. QED
    BY <1>1, <1>2, <2>1, <2>6 DEF DialerOK, ListedOK, StreamsOK, SendsOK, Announces
<1>. QED
  BY <1>3, <1>4 DEF SendInv

LEMMA SendNext ==
    ASSUME "Ordered" \notin Kinds, IndType, NewsInv, SendInv, [Next]_vars
    PROVE  SendInv'
<1>1. TypeOK /\ TypeOK' /\ NewsInv'
  BY NextType, NewsNext DEF IndType
<1>2. ASSUME NEW p \in Peers, HandleCommand(p) PROVE SendInv'
  <2>1. CASE BindFails \/ ConnectFails(p) \/ CreatePanics(p) \/ BackendShutdown(p)
    <3>1. Panic(Server) \/ Panic(p) \/ BackendShutdown(p)
      BY <2>1 DEF BindFails, ConnectFails, CreatePanics
    <3>2. Stop(Server) \/ Stop(p)
      BY <3>1 DEF Panic, BackendShutdown
    <3>. QED
      BY <1>1, <3>2, ServerIsPeer, StopSends
  <2>2. CASE Bind \/ (p \in Clients /\ Connect(p))
    BY <1>1, <2>2, BindSends, ConnectSends
  <2>3. CASE SendStep(p)
    BY <1>1, <2>3, SendDroppedSends, SendAcceptedSends, SendWaitsSends, SendFailsSends DEF SendStep
  <2>4. CASE CreateReliable(p) \/ CreateWaits(p) \/ CreateDropped(p) \/ CreateUnreliable(p)
    BY <1>1, <2>4, CreateSends
  <2>5. CASE BackendCloseStream(p)
    BY <1>1, <2>5, CloseStreamSends
  <2>. QED
    BY <1>2, <2>1, <2>2, <2>3, <2>4, <2>5 DEF HandleCommand, CreateStep
<1>3. ASSUME NEW p \in Peers, Resume(p) PROVE SendInv'
  <2>1. CASE OpeningPanics(p)
    BY <1>1, <2>1, StopSends DEF OpeningPanics, Panic
  <2>. QED
    BY <1>1, <1>3, <2>1, WriteSends, CreateResumesSends DEF Resume
<1>4. ASSUME NEW d \in net, ReadDatagram(d[1], d[2]) PROVE SendInv'
  <2>1. d[1] \in Ends /\ d[2] \in Packet
    BY <1>1 DEF TypeOK, HistoryTypeOK
  <2>. QED
    BY <1>1, <1>4, <2>1, ReadDatagramSends
<1>5. ASSUME NEW e \in Ends, AcceptStream(e) \/ Break(e) \/ Notice(e) PROVE SendInv'
  BY <1>1, <1>5, AcceptStreamSends, LoseSends DEF Break, Notice
<1>6. CASE UNCHANGED vars
  BY <1>1, <1>6, SendsRest DEF vars, quicVars, peerVars, mapVars, loopVars, quinnVars, historyVars
<1>. QED
  BY <1>1, <1>2, <1>3, <1>4, <1>5, <1>6, AppSends, RegisterStreamSends, RegisterConnectionSends,
     AcceptSends, HandshakeFailsSends, ReadHalfSends DEF Next

(***************************************************************************)
(* The dialing side loses none of its sends in silence, through full       *)
(* windows, lost connections and failures of every kind, as long as no     *)
(* application creates Ordered streams: those the loop takes for reliable  *)
(* streams without a stream of QUIC, and drops what is sent on them.       *)
(***************************************************************************)
THEOREM DialerTheorem ==
    ASSUME "Ordered" \notin Kinds
    PROVE  Spec => []DialerSendsAccounted
<1>1. SendInv => DialerSendsAccounted
  BY DEF SendInv, DialerOK, BalanceOK, Standing, Spent, DialerSendsAccounted, SendsAccounted
<1>2. IndType /\ NewsInv /\ SendInv /\ [Next]_vars => SendInv'
  BY SendNext
<1>. QED
  BY <1>1, <1>2, InitType, NextType, NewsInit, NewsNext, SendInit, PTL DEF Spec

-------------------------------------------------------------------------------
(* Part four: a stream is announced once.  What is counted with the events *)
(* is what is still to become one: a registration that waits for the loop, *)
(* an open_bi() that the loop awaits, a command that asks for the stream.  *)
(* All of these come from one call of create_stream on one side of the     *)
(* connection, or from a stream of QUIC that the other side opened, which  *)
(* comes from a call there.                                                *)

\* The commands that create the stream of the handle s on e.
CallsFor(e, s) ==
    {x \in Commands[Owner(e)] : /\ x.type = "CreateStream" /\ x.conn = e
                                /\ NewStream(x.index, x.reliability) = s}

Called(e, s) == Count(cmds[Owner(e)], CallsFor(e, s))

Awaited(e, s) ==
    IF /\ opening[Owner(e)] # <<>> /\ Head(opening[Owner(e)]).end = e
       /\ NewStream(Head(opening[Owner(e)]).index, "Reliable") = s
    THEN 1 ELSE 0

RegistrationsOf(e, s) == {r \in Registration(Owner(e)) : r.end = e /\ r.stream = s}

Registered(e, s) == Count(streamReg[Owner(e)], RegistrationsOf(e, s))

Announcements(e, s) == Count(events[Owner(e)], {StreamCreated(e, s)})

Closes(e, s) == Count(events[Owner(e)], {StreamClosed(e, s)})

Closing(e, s) == Count(cmds[Owner(e)], {CloseStreamCmd(e, s)})

\* The streams of QUIC with the handle s that e has opened, and has accepted.
Indices(s) == {i \in StreamId : NewStream(i, "Reliable") = s}

Made(e, s) == Count(opened[e], Indices(s))

TakenAt(e, s) == {i \in 1 .. taken[e] : opened[Other(e)][i] \in Indices(s)}

Taken(e, s) == Cardinality(TakenAt(e, s))

\* Whether create_stream was called for the handle s on a side that creates.
ByCall(e, s) == IF e \in Creators /\ Created(Owner(e), s) THEN 1 ELSE 0

Listed(e, s) == IF thread[Owner(e)] = "exited" \/ <<e, s>> \in unreliable THEN 1 ELSE 0

OnceOK(e, s) ==
    /\ IsReliable(s) => Announcements(e, s) + Registered(e, s) + Called(e, s) + Awaited(e, s)
                            <= ByCall(e, s) + Taken(e, s)
    /\ Made(e, s) + Called(e, s) + Awaited(e, s) <= ByCall(e, s)
    /\ ~IsReliable(s) => Announcements(e, s) <= Closes(e, s) + Listed(e, s)
    /\ Closes(e, s) + Closing(e, s) <= 1

\* Only reliable streams have a stream of QUIC.
HandlesOK ==
    \A p \in Peers : \A r \in Elems(streamReg[p]) : r.quic # NoStream => IsReliable(r.stream)

OnceInv == DatagramsOK /\ HandlesOK /\ \A e \in Ends, s \in StreamId : OnceOK(e, s)

CountsOK(e, s) ==
    /\ Announcements(e, s) \in Nat /\ Closes(e, s) \in Nat /\ Registered(e, s) \in Nat
    /\ Called(e, s) \in Nat /\ Closing(e, s) \in Nat /\ Made(e, s) \in Nat /\ Taken(e, s) \in Nat
    /\ Awaited(e, s) \in {0, 1} /\ ByCall(e, s) \in {0, 1} /\ Listed(e, s) \in {0, 1}

Counted == TypeOK /\ \A e \in Ends, s \in StreamId : CountsOK(e, s)

LEMMA TakenFinite ==
    ASSUME TypeOK, NEW e \in Ends, NEW s
    PROVE  IsFiniteSet(TakenAt(e, s)) /\ Taken(e, s) \in Nat
<1>1. taken[e] \in Nat /\ IsFiniteSet(1 .. taken[e])
  BY FS_Interval DEF TypeOK, QuinnTypeOK
<1>2. TakenAt(e, s) \subseteq 1 .. taken[e]
  BY DEF TakenAt
<1>. QED
  BY <1>1, <1>2, FS_Subset, FS_CardinalityType DEF Taken

LEMMA CountedType == TypeOK => Counted
<1> SUFFICES ASSUME TypeOK, NEW e \in Ends, NEW s \in StreamId PROVE CountsOK(e, s)
  BY DEF Counted
<1>1. /\ Owner(e) \in Peers /\ cmds[Owner(e)] \in Seq(Commands[Owner(e)])
      /\ events[Owner(e)] \in Seq(Events[Owner(e)])
      /\ streamReg[Owner(e)] \in Seq(Registration(Owner(e))) /\ opened[e] \in Seq(StreamId)
  BY EndFacts, QueueTypes DEF TypeOK, MapTypeOK, QuinnTypeOK
<1>2. /\ Announcements(e, s) \in Nat /\ Closes(e, s) \in Nat
      /\ Called(e, s) \in Nat /\ Closing(e, s) \in Nat
  BY <1>1, CountType DEF Announcements, Closes, Called, Closing
<1>3. Registered(e, s) \in Nat /\ Made(e, s) \in Nat
  BY <1>1, CountType DEF Registered, Made
<1>. QED
  BY <1>2, <1>3, TakenFinite DEF CountsOK, Awaited, ByCall, Listed

\* What a step does not touch counts as before.
LEMMA OnceKept ==
    ASSUME NEW e \in Ends, NEW s, NEW p, p = Owner(e)
    PROVE  /\ events'[p] = events[p] =>
                  Announcements(e, s)' = Announcements(e, s) /\ Closes(e, s)' = Closes(e, s)
           /\ cmds'[p] = cmds[p] => Called(e, s)' = Called(e, s) /\ Closing(e, s)' = Closing(e, s)
           /\ streamReg'[p] = streamReg[p] => Registered(e, s)' = Registered(e, s)
           /\ opening'[p] = opening[p] => Awaited(e, s)' = Awaited(e, s)
           /\ next_stream_id'[p] = next_stream_id[p] => ByCall(e, s)' = ByCall(e, s)
           /\ (thread'[p] = thread[p] /\ (<<e, s>> \in unreliable' <=> <<e, s>> \in unreliable)) =>
                  Listed(e, s)' = Listed(e, s)
           /\ opened'[e] = opened[e] => Made(e, s)' = Made(e, s)
<1>1. events'[p] = events[p] =>
          Announcements(e, s)' = Announcements(e, s) /\ Closes(e, s)' = Closes(e, s)
  BY DEF Announcements, Closes, StreamCreated, StreamClosed
<1>2. cmds'[p] = cmds[p] => Called(e, s)' = Called(e, s) /\ Closing(e, s)' = Closing(e, s)
  BY DEF Called, CallsFor, Closing, CloseStreamCmd
<1>3. streamReg'[p] = streamReg[p] => Registered(e, s)' = Registered(e, s)
  BY DEF Registered, RegistrationsOf
<1>4. opening'[p] = opening[p] => Awaited(e, s)' = Awaited(e, s)
  BY DEF Awaited
<1>5. next_stream_id'[p] = next_stream_id[p] => ByCall(e, s)' = ByCall(e, s)
  BY DEF ByCall, Created
<1>6. (thread'[p] = thread[p] /\ (<<e, s>> \in unreliable' <=> <<e, s>> \in unreliable)) =>
          Listed(e, s)' = Listed(e, s)
  BY DEF Listed
<1>7. opened'[e] = opened[e] => Made(e, s)' = Made(e, s)
  BY DEF Made, Indices
<1>. QED
  BY <1>1, <1>2, <1>3, <1>4, <1>5, <1>6, <1>7

LEMMA TakenKept ==
    ASSUME NEW e \in Ends, NEW s, taken'[e] = taken[e],
           \A i \in 1 .. taken[e] : opened'[Other(e)][i] = opened[Other(e)][i]
    PROVE  Taken(e, s)' = Taken(e, s)
<1>1. TakenAt(e, s)' = TakenAt(e, s)
  BY DEF TakenAt, Indices
<1>. QED
  BY <1>1 DEF Taken

\* An event more.
LEMMA EmitOnce ==
    ASSUME TypeOK, NEW p \in Peers, NEW y \in Events[p], Emit(p, <<y>>), NEW e \in EndsOf(p), NEW s
    PROVE  /\ Announcements(e, s)' =
                  Announcements(e, s) + (IF y = StreamCreated(e, s) THEN 1 ELSE 0)
           /\ Closes(e, s)' = Closes(e, s) + (IF y = StreamClosed(e, s) THEN 1 ELSE 0)
<1>1. Owner(e) = p /\ events[p] \in Seq(Events[p]) /\ DOMAIN events = Peers
  BY EndsOfFacts, QueueTypes DEF EventsTypeOK
<1>2. events'[p] = Append(events[p], y)
  BY <1>1, AppendIsConcat DEF Emit
<1>3. \A X : Count(Append(events[p], y), X) = Count(events[p], X) + (IF y \in X THEN 1 ELSE 0)
  BY <1>1, CountAppend
<1>4. /\ Announcements(e, s) = Count(events[p], {StreamCreated(e, s)})
      /\ Closes(e, s) = Count(events[p], {StreamClosed(e, s)})
      /\ Announcements(e, s)' = Count(Append(events[p], y), {StreamCreated(e, s)})
      /\ Closes(e, s)' = Count(Append(events[p], y), {StreamClosed(e, s)})
  BY <1>1, <1>2 DEF Announcements, Closes, StreamCreated, StreamClosed
<1>. QED
  BY <1>3, <1>4

\* An event that says nothing of a stream.
LEMMA EmitOther ==
    ASSUME TypeOK, NEW p \in Peers, NEW e \in EndsOf(p), NEW s, e \in Ends, s \in StreamId,
           \/ events' = events
           \/ \E y \in Events[p] : /\ Emit(p, <<y>>)
                                   /\ y.type \notin {"StreamCreated", "StreamClosed"}
    PROVE  Announcements(e, s)' = Announcements(e, s) /\ Closes(e, s)' = Closes(e, s)
<1>1. CASE events' = events
  BY <1>1, OnceKept
<1>2. ASSUME NEW y \in Events[p], Emit(p, <<y>>), y.type \notin {"StreamCreated", "StreamClosed"}
      PROVE  Announcements(e, s)' = Announcements(e, s) /\ Closes(e, s)' = Closes(e, s)
  <2>1. y # StreamCreated(e, s) /\ y # StreamClosed(e, s)
    BY <1>2 DEF StreamCreated, StreamClosed
  <2>2. Announcements(e, s) \in Nat /\ Closes(e, s) \in Nat
    BY CountedType DEF Counted, CountsOK
  <2>. QED
    BY <1>2, <2>1, <2>2, EmitOnce
<1>. QED
  BY <1>1, <1>2

\* A command less.
LEMMA TakeOnce ==
    ASSUME TypeOK, TypeOK', NEW p \in Peers, cmds[p] # <<>>, TakeCommand(p), NEW e \in EndsOf(p),
           NEW s
    PROVE  /\ Called(e, s) = Called(e, s)' + (IF Head(cmds[p]) \in CallsFor(e, s) THEN 1 ELSE 0)
           /\ Closing(e, s) =
                  Closing(e, s)' + (IF Head(cmds[p]) = CloseStreamCmd(e, s) THEN 1 ELSE 0)
<1>1. Owner(e) = p /\ cmds[p] \in Seq(Commands[p]) /\ DOMAIN cmds = Peers
  BY EndsOfFacts, QueueTypes DEF CommandsTypeOK
<1>2. cmds'[p] = Tail(cmds[p])
  BY <1>1 DEF TakeCommand
<1>3. \A X : Count(cmds[p], X) = Count(Tail(cmds[p]), X) + (IF Head(cmds[p]) \in X THEN 1 ELSE 0)
  BY <1>1, CountTail
<1>4. /\ Called(e, s) = Count(cmds[p], CallsFor(e, s))
      /\ Closing(e, s) = Count(cmds[p], {CloseStreamCmd(e, s)})
      /\ Called(e, s)' = Count(Tail(cmds[p]), CallsFor(e, s))
      /\ Closing(e, s)' = Count(Tail(cmds[p]), {CloseStreamCmd(e, s)})
  BY <1>1, <1>2 DEF Called, Closing, CallsFor, CloseStreamCmd
<1>. QED
  BY <1>3, <1>4

\* A command more.
LEMMA SendOnce ==
    ASSUME TypeOK, NEW p \in Peers, NEW cmd \in Commands[p], SendCommand(p, cmd),
           NEW e \in EndsOf(p), NEW s
    PROVE  /\ Called(e, s)' = Called(e, s) + (IF cmd \in CallsFor(e, s) THEN 1 ELSE 0)
           /\ Closing(e, s)' = Closing(e, s) + (IF cmd = CloseStreamCmd(e, s) THEN 1 ELSE 0)
<1>1. Owner(e) = p /\ cmds[p] \in Seq(Commands[p]) /\ DOMAIN cmds = Peers
  BY EndsOfFacts, QueueTypes DEF CommandsTypeOK
<1>2. cmds'[p] = Append(cmds[p], cmd)
  BY <1>1 DEF SendCommand
<1>3. \A X : Count(Append(cmds[p], cmd), X) = Count(cmds[p], X) + (IF cmd \in X THEN 1 ELSE 0)
  BY <1>1, CountAppend
<1>4. /\ Called(e, s) = Count(cmds[p], CallsFor(e, s))
      /\ Closing(e, s) = Count(cmds[p], {CloseStreamCmd(e, s)})
      /\ Called(e, s)' = Count(Append(cmds[p], cmd), CallsFor(e, s))
      /\ Closing(e, s)' = Count(Append(cmds[p], cmd), {CloseStreamCmd(e, s)})
  BY <1>1, <1>2 DEF Called, Closing, CallsFor, CloseStreamCmd
<1>. QED
  BY <1>3, <1>4

\* A registration more, and less.
LEMMA RegistersOnce ==
    ASSUME TypeOK, NEW p \in Peers, NEW r \in Registration(p),
           streamReg' = [streamReg EXCEPT ![p] = Append(@, r)], NEW e \in EndsOf(p), NEW s
    PROVE  Registered(e, s)' =
               Registered(e, s) + (IF r.end = e /\ r.stream = s THEN 1 ELSE 0)
<1>1. Owner(e) = p /\ streamReg[p] \in Seq(Registration(p)) /\ DOMAIN streamReg = Peers
  BY EndsOfFacts DEF TypeOK, MapTypeOK
<1>2. streamReg'[p] = Append(streamReg[p], r)
  BY <1>1
<1>3. r \in RegistrationsOf(e, s) <=> r.end = e /\ r.stream = s
  BY <1>1 DEF RegistrationsOf
<1>4. Registered(e, s)' = Count(Append(streamReg[p], r), RegistrationsOf(e, s))
  BY <1>1, <1>2 DEF Registered, RegistrationsOf
<1>5. Registered(e, s) = Count(streamReg[p], RegistrationsOf(e, s))
  BY <1>1 DEF Registered
<1>. QED
  BY <1>1, <1>3, <1>4, <1>5, CountAppend

LEMMA RegisteredOnce ==
    ASSUME TypeOK, NEW p \in Peers, streamReg[p] # <<>>,
           streamReg' = [streamReg EXCEPT ![p] = Tail(@)], NEW e \in EndsOf(p), NEW s
    PROVE  Registered(e, s) = Registered(e, s)' + (IF /\ Head(streamReg[p]).end = e
                                                      /\ Head(streamReg[p]).stream = s THEN 1 ELSE 0)
<1>1. /\ Owner(e) = p /\ streamReg[p] \in Seq(Registration(p)) /\ DOMAIN streamReg = Peers
      /\ Head(streamReg[p]) \in Registration(p)
  BY EndsOfFacts, HeadTailProperties DEF TypeOK, MapTypeOK
<1>2. streamReg'[p] = Tail(streamReg[p])
  BY <1>1
<1>3. Head(streamReg[p]) \in RegistrationsOf(e, s) <=>
          Head(streamReg[p]).end = e /\ Head(streamReg[p]).stream = s
  BY <1>1 DEF RegistrationsOf
<1>4. Registered(e, s)' = Count(Tail(streamReg[p]), RegistrationsOf(e, s))
  BY <1>1, <1>2 DEF Registered, RegistrationsOf
<1>5. Registered(e, s) = Count(streamReg[p], RegistrationsOf(e, s))
  BY <1>1 DEF Registered
<1>. QED
  BY <1>1, <1>3, <1>4, <1>5, CountTail

\* A step of p, which leaves what the others have.
LEMMA OnceFrame ==
    ASSUME OnceInv, NEW p \in Peers,
           \A q \in Peers \ {p} :
               /\ cmds'[q] = cmds[q] /\ events'[q] = events[q] /\ streamReg'[q] = streamReg[q]
               /\ opening'[q] = opening[q] /\ next_stream_id'[q] = next_stream_id[q]
               /\ thread'[q] = thread[q],
           \A e \in Ends : Owner(e) # p =>
               /\ opened'[e] = opened[e]
               /\ \A s \in StreamId : /\ <<e, s>> \in unreliable' <=> <<e, s>> \in unreliable
                                      /\ Taken(e, s)' = Taken(e, s),
           \A e \in Ends, s \in StreamId : Owner(e) = p => OnceOK(e, s)',
           DatagramsOK', HandlesOK'
    PROVE  OnceInv'
<1>1. ASSUME NEW e \in Ends, NEW s \in StreamId, Owner(e) # p PROVE OnceOK(e, s)'
  <2>1. Owner(e) \in Peers \ {p} /\ OnceOK(e, s)
    BY <1>1, EndFacts DEF OnceInv
  <2>2. /\ Announcements(e, s)' = Announcements(e, s) /\ Closes(e, s)' = Closes(e, s)
        /\ Called(e, s)' = Called(e, s) /\ Closing(e, s)' = Closing(e, s)
        /\ Registered(e, s)' = Registered(e, s) /\ Awaited(e, s)' = Awaited(e, s)
        /\ ByCall(e, s)' = ByCall(e, s) /\ Listed(e, s)' = Listed(e, s)
        /\ Made(e, s)' = Made(e, s) /\ Taken(e, s)' = Taken(e, s)
    BY <1>1, <2>1, OnceKept
  <2>. QED
    BY <2>1, <2>2 DEF OnceOK, IsReliable
<1>. QED
  BY <1>1 DEF OnceInv

\* Fewer datagrams, and no registration of a new kind.
LEMMA KindsKept ==
    ASSUME OnceInv,
           \A d \in net' : d \in net \/ ~IsReliable(d[2].stream),
           \A p \in Peers : \A r \in Elems(streamReg'[p]) :
               r \in Elems(streamReg[p]) \/ r.quic = NoStream \/ IsReliable(r.stream)
    PROVE  DatagramsOK' /\ HandlesOK'
<1>1. DatagramsOK'
  BY DEF OnceInv, DatagramsOK, IsReliable
<1>2. HandlesOK'
  BY DEF OnceInv, HandlesOK, Elems, NoStream, IsReliable
<1>. QED
  BY <1>1, <1>2

LEMMA OneRegistered ==
    ASSUME TypeOK, NEW p \in Peers, NEW r \in Registration(p),
           streamReg' = [streamReg EXCEPT ![p] = Append(@, r)]
    PROVE  /\ \A q \in Peers \ {p} : streamReg'[q] = streamReg[q]
           /\ \A q \in Peers : \A x \in Elems(streamReg'[q]) : x \in Elems(streamReg[q]) \/ x = r
<1>1. DOMAIN streamReg = Peers /\ streamReg[p] \in Seq(Registration(p))
  BY DEF TypeOK, MapTypeOK
<1>2. Elems(Append(streamReg[p], r)) = Elems(streamReg[p]) \cup {r}
  BY <1>1, ElemsAppend
<1>3. \A q \in Peers : streamReg'[q] = IF q = p THEN Append(streamReg[p], r) ELSE streamReg[q]
  BY <1>1
<1>. QED
  BY <1>2, <1>3

\* A step of p that changes no more than its queues, by an event about no
\* stream and a command less, or by a call about no stream.
LEMMA QuietOnce ==
    ASSUME Counted, Counted', OnceInv, NEW p \in Peers,
           \/ cmds' = cmds
           \/ cmds[p] # <<>> /\ TakeCommand(p)
           \/ \E cmd \in Commands[p] : /\ SendCommand(p, cmd)
                                       /\ cmd.type \notin {"CreateStream", "CloseStream"},
           \/ events' = events
           \/ \E y \in Events[p] : /\ Emit(p, <<y>>)
                                   /\ y.type \notin {"StreamCreated", "StreamClosed"},
           UNCHANGED <<streamReg, opening, next_stream_id, thread, unreliable, opened, taken>>,
           \A d \in net' : d \in net \/ ~IsReliable(d[2].stream)
    PROVE  OnceInv'
<1>1. TypeOK /\ TypeOK' /\ DOMAIN cmds = Peers /\ DOMAIN events = Peers
  BY DEF Counted, TypeOK, PeerTypeOK, CommandsTypeOK, EventsTypeOK
<1>2. \A q \in Peers \ {p} : cmds'[q] = cmds[q] /\ events'[q] = events[q]
  BY <1>1 DEF TakeCommand, SendCommand, Emit
<1>3. DatagramsOK' /\ HandlesOK'
  BY KindsKept DEF Elems
<1>4. ASSUME NEW e \in Ends, NEW s \in StreamId
      PROVE  Taken(e, s)' = Taken(e, s)
  BY <1>4, TakenKept
<1>5. ASSUME NEW e \in Ends, NEW s \in StreamId, Owner(e) = p PROVE OnceOK(e, s)'
  <2>1. e \in EndsOf(p) /\ CountsOK(e, s) /\ CountsOK(e, s)' /\ OnceOK(e, s)
    BY <1>5, EndFacts DEF Counted, OnceInv
  <2>2. Announcements(e, s)' = Announcements(e, s) /\ Closes(e, s)' = Closes(e, s)
    BY <1>1, <2>1, EmitOther
  <2>3. Called(e, s)' <= Called(e, s) /\ Closing(e, s)' <= Closing(e, s)
    <3>1. CASE cmds' = cmds
      BY <1>5, <2>1, <3>1, OnceKept DEF CountsOK
    <3>2. CASE cmds[p] # <<>> /\ TakeCommand(p)
      BY <1>1, <2>1, <3>2, TakeOnce DEF CountsOK
    <3>3. ASSUME NEW cmd \in Commands[p], SendCommand(p, cmd),
                 cmd.type \notin {"CreateStream", "CloseStream"}
          PROVE  Called(e, s)' <= Called(e, s) /\ Closing(e, s)' <= Closing(e, s)
      <4>1. cmd \notin CallsFor(e, s) /\ cmd # CloseStreamCmd(e, s)
        BY <3>3 DEF CallsFor, CloseStreamCmd
      <4>. QED
        BY <1>1, <2>1, <3>3, <4>1, SendOnce DEF CountsOK
    <3>. QED
      BY <3>1, <3>2, <3>3
  <2>4. /\ Registered(e, s)' = Registered(e, s) /\ Awaited(e, s)' = Awaited(e, s)
        /\ ByCall(e, s)' = ByCall(e, s) /\ Listed(e, s)' = Listed(e, s)
        /\ Made(e, s)' = Made(e, s) /\ Taken(e, s)' = Taken(e, s)
    BY <1>4, OnceKept
  <2>5. IsReliable(s)' <=> IsReliable(s)
    BY DEF IsReliable
  <2>. QED
    BY <2>1, <2>2, <2>3, <2>4, <2>5 DEF OnceOK, CountsOK
<1>. QED
  BY <1>2, <1>3, <1>4, <1>5, OnceFrame

-------------------------------------------------------------------------------
(* A stream is announced once: the applications                            *)

\* A call of create_stream takes an index that no call took before.
LEMMA CreateOnce ==
    ASSUME MaxStreams <= Slots, Counted, Counted', OnceInv, NEW e \in Ends, NEW r \in Kinds,
           AppCreateStream(e, r)
    PROVE  OnceInv'
<1>0. PICK p \in Peers : p = Owner(e) /\ e \in EndsOf(p)
  BY EndFacts
<1>1. TypeOK /\ TypeOK' /\ r \in Reliability /\ CreateStream(p, e, r) /\ e \in Creators
      /\ UNCHANGED <<quicVars, events, thread>>
  BY <1>0, QuicAssumption DEF Counted, AppCreateStream, CreateStream
<1>2. PICK n \in StreamId : /\ n = next_stream_id[p] + 1
                            /\ SendCommand(p, CreateStreamCmd(e, n, r)) \/ UNCHANGED cmds
                            /\ next_stream_id' = [next_stream_id EXCEPT ![p] = @ + 1]
  BY <1>0, <1>1, CreateStreamType
<1>3. PICK cmd \in Commands[p] : /\ cmd = CreateStreamCmd(e, n, r)
                                 /\ SendCommand(p, cmd) \/ UNCHANGED cmds
  BY <1>0, <1>1, <1>2, CommandMembers DEF Commands
<1>4. /\ next_stream_id[p] \in 0 .. MaxStreams /\ next_stream_id[p] < MaxStreams
      /\ next_stream_id'[p] = n /\ DOMAIN cmds = Peers
      /\ \A q \in Peers \ {p} : next_stream_id'[q] = next_stream_id[q] /\ cmds'[q] = cmds[q]
  BY <1>1, <1>2, <1>3
  DEF CreateStream, SendCommand, TypeOK, PeerTypeOK, ThreadsTypeOK, CommandsTypeOK
<1>5. n \in 1 .. MaxStreams
  BY <1>2, <1>4, MaxStreamsAssumption
<1>6. PICK h \in StreamId : h = NewStream(n, r)
  BY <1>1, NewHandle
<1>7. ~Created(p, h) /\ Created(p, h)'
  <2>1. ASSUME NEW i \in 1 .. next_stream_id[p], NEW q \in Reliability, h = NewStream(i, q)
        PROVE  FALSE
    <3>1. i \in 1 .. MaxStreams /\ i # n
      BY <1>2, <1>4, MaxStreamsAssumption
    <3>. QED
      BY <1>1, <1>5, <1>6, <2>1, <3>1, HandlesDiffer
  <2>. QED
    BY <1>1, <1>4, <1>5, <1>6, <2>1 DEF Created
<1>8. \A s : Created(p, s) => Created(p, s)'
  BY <1>2, <1>4 DEF Created
<1>9. UNCHANGED <<streamReg, opening, unreliable, opened, taken, net>>
  BY <1>1 DEF quicVars, mapVars, loopVars, quinnVars
<1>10. DatagramsOK' /\ HandlesOK'
  BY <1>9, KindsKept DEF Elems
<1>11. ASSUME NEW f \in Ends, NEW s \in StreamId PROVE Taken(f, s)' = Taken(f, s)
  BY <1>9, <1>11, TakenKept
<1>12. ASSUME NEW f \in Ends, NEW s \in StreamId, Owner(f) = p PROVE OnceOK(f, s)'
  <2>1. f \in EndsOf(p) /\ CountsOK(f, s) /\ CountsOK(f, s)' /\ OnceOK(f, s)
    BY <1>12, EndFacts DEF Counted, OnceInv
  <2>2. \/ /\ Called(f, s)' = Called(f, s) + (IF cmd \in CallsFor(f, s) THEN 1 ELSE 0)
           /\ Closing(f, s)' = Closing(f, s) + (IF cmd = CloseStreamCmd(f, s) THEN 1 ELSE 0)
        \/ Called(f, s)' = Called(f, s) /\ Closing(f, s)' = Closing(f, s)
    <3>1. CASE SendCommand(p, cmd)
      BY <1>1, <2>1, <3>1, SendOnce
    <3>2. CASE UNCHANGED cmds
      <4>1. cmds'[p] = cmds[p]
        BY <3>2
      <4>. QED
        BY <1>12, <4>1, OnceKept
    <3>. QED
      BY <1>3, <3>1, <3>2
  <2>3. cmd # CloseStreamCmd(f, s) /\ (cmd \in CallsFor(f, s) => f = e /\ s = h)
    BY <1>3, <1>6 DEF CloseStreamCmd, CreateStreamCmd, CallsFor
  <2>4. /\ Announcements(f, s)' = Announcements(f, s) /\ Closes(f, s)' = Closes(f, s)
        /\ Registered(f, s)' = Registered(f, s) /\ Awaited(f, s)' = Awaited(f, s)
        /\ Listed(f, s)' = Listed(f, s) /\ Made(f, s)' = Made(f, s) /\ Taken(f, s)' = Taken(f, s)
    BY <1>1, <1>9, <1>11, OnceKept
  <2>5. CASE f = e /\ s = h
    <3>1. ByCall(f, s) = 0 /\ ByCall(f, s)' = 1
      BY <1>0, <1>1, <1>7, <2>5 DEF ByCall
    <3>. QED
      BY <2>1, <2>2, <2>3, <2>4, <3>1 DEF OnceOK, CountsOK, IsReliable
  <2>6. CASE ~(f = e /\ s = h)
    <3>1. ByCall(f, s)' >= ByCall(f, s)
      BY <1>8, <1>12, <2>1 DEF ByCall
    <3>. QED
      BY <2>1, <2>2, <2>3, <2>4, <2>6, <3>1 DEF OnceOK, CountsOK, IsReliable
  <2>. QED
    BY <2>5, <2>6
<1>. QED
  BY <1>1, <1>4, <1>9, <1>10, <1>11, <1>12, OnceFrame

\* An application closes a stream once.
LEMMA CloseOnce ==
    ASSUME Counted, Counted', OnceInv, NEW e \in Ends, NEW stream \in StreamId,
           AppCloseStream(e, stream)
    PROVE  OnceInv'
<1>0. PICK p \in Peers : p = Owner(e) /\ e \in EndsOf(p)
  BY EndFacts
<1>1. TypeOK /\ TypeOK' /\ CloseStream(p, e, stream)
      /\ UNCHANGED <<quicVars, events, thread, next_stream_id>>
  BY <1>0 DEF Counted, AppCloseStream, CloseStream
<1>2. PICK cmd \in Commands[p] : cmd = CloseStreamCmd(e, stream) /\ SendCommand(p, cmd)
  BY <1>0, <1>1, CommandMembers DEF Commands, CloseStream
<1>3. DOMAIN cmds = Peers /\ \A q \in Peers \ {p} : cmds'[q] = cmds[q]
  BY <1>1, <1>2 DEF SendCommand, TypeOK, PeerTypeOK, CommandsTypeOK
<1>4. UNCHANGED <<streamReg, opening, unreliable, opened, taken, net>>
  BY <1>1 DEF quicVars, mapVars, loopVars, quinnVars
<1>5. DatagramsOK' /\ HandlesOK'
  BY <1>4, KindsKept DEF Elems
<1>6. ASSUME NEW f \in Ends, NEW s \in StreamId PROVE Taken(f, s)' = Taken(f, s)
  BY <1>4, <1>6, TakenKept
<1>7. Closes(e, stream) = 0 /\ Closing(e, stream) = 0
  <2>1. /\ \A i \in DOMAIN events[p] : events[p][i] \notin {StreamClosed(e, stream)}
        /\ \A i \in DOMAIN cmds[p] : cmds[p][i] \notin {CloseStreamCmd(e, stream)}
    BY <1>1 DEF CloseStream
  <2>. QED
    BY <1>0, <1>1, <2>1, QueueTypes, CountNone DEF Closes, Closing
<1>8. ASSUME NEW f \in Ends, NEW s \in StreamId, Owner(f) = p PROVE OnceOK(f, s)'
  <2>1. f \in EndsOf(p) /\ CountsOK(f, s) /\ CountsOK(f, s)' /\ OnceOK(f, s)
    BY <1>8, EndFacts DEF Counted, OnceInv
  <2>2. /\ Called(f, s)' = Called(f, s) + (IF cmd \in CallsFor(f, s) THEN 1 ELSE 0)
        /\ Closing(f, s)' = Closing(f, s) + (IF cmd = CloseStreamCmd(f, s) THEN 1 ELSE 0)
    BY <1>1, <1>2, <2>1, SendOnce
  <2>3. cmd \notin CallsFor(f, s) /\ (cmd = CloseStreamCmd(f, s) => f = e /\ s = stream)
    BY <1>2 DEF CloseStreamCmd, CallsFor
  <2>4. /\ Announcements(f, s)' = Announcements(f, s) /\ Closes(f, s)' = Closes(f, s)
        /\ Registered(f, s)' = Registered(f, s) /\ Awaited(f, s)' = Awaited(f, s)
        /\ Listed(f, s)' = Listed(f, s) /\ Made(f, s)' = Made(f, s) /\ Taken(f, s)' = Taken(f, s)
        /\ ByCall(f, s)' = ByCall(f, s)
    BY <1>1, <1>4, <1>6, OnceKept
  <2>5. Closes(f, s)' + Closing(f, s)' <= 1
    BY <1>7, <2>1, <2>2, <2>3, <2>4 DEF OnceOK, CountsOK
  <2>. QED
    BY <2>1, <2>2, <2>3, <2>4, <2>5 DEF OnceOK, CountsOK, IsReliable
<1>. QED
  BY <1>1, <1>3, <1>4, <1>5, <1>6, <1>8, OnceFrame

LEMMA AppOnce ==
    ASSUME MaxStreams <= Slots, Counted, Counted', OnceInv, AppAction
    PROVE  OnceInv'
<1>1. TypeOK /\ TypeOK'
  BY DEF Counted
<1>2. ASSUME NEW p \in Peers, NEW cmd, OtherCall(p, cmd), cmd.type # "CloseStream",
             UNCHANGED <<streamReg, opening, unreliable, opened, taken, net>>
      PROVE  OnceInv'
  BY <1>2, QuietOnce DEF OtherCall
<1>3. CASE AppListen
  BY <1>1, <1>2, <1>3, PlainCalls, ServerIsPeer
  DEF BindCmd, quicVars, mapVars, loopVars, quinnVars
<1>4. ASSUME NEW c \in Clients, AppDial(c) PROVE OnceInv'
  BY <1>1, <1>2, <1>4, PlainCalls, ClientEnds
  DEF ConnectCmd, quicVars, mapVars, loopVars, quinnVars
<1>5. ASSUME NEW p \in Peers, AppShutdown(p) PROVE OnceInv'
  BY <1>1, <1>2, <1>5, PlainCalls DEF ShutdownCmd, quicVars, mapVars, loopVars, quinnVars
<1>6. ASSUME NEW e \in Ends, NEW stream \in StreamId, AppSend(e, stream) PROVE OnceInv'
  <2>1. PICK m \in Packet :
            /\ SendCmd(e, m) \in Commands[Owner(e)] /\ SendCommand(Owner(e), SendCmd(e, m))
            /\ UNCHANGED <<events, next_stream_id, thread, mapVars, loopVars, quinnVars, net>>
    BY <1>1, <1>6, AppSendParts
  <2>2. SendCmd(e, m).type \notin {"CreateStream", "CloseStream"} /\ Owner(e) \in Peers
    BY EndFacts DEF SendCmd
  <2>. QED
    BY <2>1, <2>2, QuietOnce DEF mapVars, loopVars, quinnVars
<1>7. ASSUME NEW p \in Peers, AppPoll(p) \/ AppJoin(p) PROVE OnceInv'
  BY <1>7, QuietOnce
  DEF AppPoll, AppJoin, Poll, Join, quicVars, mapVars, loopVars, quinnVars
<1>. QED
  BY <1>3, <1>4, <1>5, <1>6, <1>7, CreateOnce, CloseOnce DEF AppAction

-------------------------------------------------------------------------------
(* A stream is announced once: streams are created                         *)

\* The kinds of the commands to create a stream.
LEMMA CreateHeads ==
    ASSUME TypeOK, TypeOK', NEW p \in Peers, HandlesQuietly(p, "CreateStream")
    PROVE  \E e \in EndsOf(p), i \in StreamId, r \in Reliability, h \in StreamId :
               /\ e \in Ends /\ h = NewStream(i, r)
               /\ e = Head(cmds[p]).conn /\ i = Head(cmds[p]).index
               /\ r = Head(cmds[p]).reliability
               /\ \A q \in Peers \ {p} : cmds'[q] = cmds[q]
               /\ UNCHANGED <<next_stream_id, thread>> /\ opening[p] = <<>>
               /\ \A f \in EndsOf(p), s \in StreamId :
                      /\ Called(f, s) = Called(f, s)' + (IF f = e /\ s = h THEN 1 ELSE 0)
                      /\ Closing(f, s) = Closing(f, s)' /\ Awaited(f, s) = 0
<1>1. /\ cmds[p] # <<>> /\ TakeCommand(p) /\ Head(cmds[p]) \in Commands[p]
      /\ Head(cmds[p]).type = "CreateStream"
      /\ \A q \in Peers \ {p} : cmds'[q] = cmds[q]
      /\ UNCHANGED <<next_stream_id, thread>> /\ opening[p] = <<>>
  BY QuietType
<1>2. PICK e \in EndsOf(p), i \in StreamId, r \in Reliability :
          /\ e \in Ends /\ e = Head(cmds[p]).conn /\ i = Head(cmds[p]).index
          /\ r = Head(cmds[p]).reliability
  BY <1>1, HeadParts DEF HeadEnd
<1>3. PICK h \in StreamId : h = NewStream(i, r)
  BY NewHandle
<1>4. ASSUME NEW f \in EndsOf(p), NEW s \in StreamId
      PROVE  /\ Called(f, s) = Called(f, s)' + (IF f = e /\ s = h THEN 1 ELSE 0)
             /\ Closing(f, s) = Closing(f, s)' /\ Awaited(f, s) = 0
  <2>1. f \in Ends /\ Owner(f) = p
    BY EndsOfFacts
  <2>2. Head(cmds[p]) \in CallsFor(f, s) <=> f = e /\ s = h
    BY <1>1, <1>2, <1>3, <2>1 DEF CallsFor
  <2>3. Head(cmds[p]) # CloseStreamCmd(f, s)
    BY <1>1 DEF CloseStreamCmd
  <2>4. Closing(f, s)' \in Nat /\ Awaited(f, s) = 0
    <3>1. cmds'[p] \in Seq(Commands[p])
      BY DEF TypeOK, PeerTypeOK, CommandsTypeOK
    <3>2. \A X : Count(cmds'[p], X) \in Nat
      BY <3>1, CountType
    <3>. QED
      BY <1>1, <2>1, <3>2 DEF Closing, CloseStreamCmd, Awaited
  <2>. QED
    BY <1>1, <2>2, <2>3, <2>4, TakeOnce
<1>. QED
  BY <1>1, <1>2, <1>3, <1>4

\* The stream that open_bi() returned is on its way to the maps.
LEMMA OpenRegisters ==
    ASSUME TypeOK, TypeOK', NEW p \in Peers, NEW e \in EndsOf(p), NEW i \in StreamId,
           NEW h \in StreamId, h = NewStream(i, "Reliable"), OpenStream(p, e, i)
    PROVE  \E r \in Registration(p) :
               /\ r = [end |-> e, stream |-> h, quic |-> <<e, Len(opened[e]) + 1>>]
               /\ streamReg' = [streamReg EXCEPT ![p] = Append(@, r)]
               /\ \A f \in EndsOf(p), s \in StreamId :
                      Registered(f, s)' = Registered(f, s) + (IF f = e /\ s = h THEN 1 ELSE 0)
<1>1. PICK r : r = [end |-> e, stream |-> h, quic |-> <<e, Len(opened[e]) + 1>>]
  OBVIOUS
<1>2. streamReg' = [streamReg EXCEPT ![p] = Append(@, r)]
  BY <1>1 DEF OpenStream
<1>3. r \in Registration(p)
  <2>1. streamReg[p] \in Seq(Registration(p)) /\ streamReg'[p] \in Seq(Registration(p))
        /\ DOMAIN streamReg = Peers
    BY DEF TypeOK, MapTypeOK
  <2>2. streamReg'[p] = Append(streamReg[p], r)
    BY <1>2, <2>1
  <2>. QED
    BY <2>1, <2>2, AppendedElement
<1>4. ASSUME NEW f \in EndsOf(p), NEW s \in StreamId
      PROVE  Registered(f, s)' = Registered(f, s) + (IF f = e /\ s = h THEN 1 ELSE 0)
  <2>1. Registered(f, s)' = Registered(f, s) + (IF r.end = f /\ r.stream = s THEN 1 ELSE 0)
    BY <1>2, <1>3, RegistersOnce
  <2>2. r.end = e /\ r.stream = h
    BY <1>1
  <2>. QED
    BY <2>1, <2>2
<1>. QED
  BY <1>1, <1>2, <1>3, <1>4

\* A stream of QUIC is opened in answer to a command or to one that waited.
LEMMA OpenOnce ==
    ASSUME Counted, Counted', OnceInv, NEW p \in Peers, NEW e \in EndsOf(p), NEW i \in StreamId,
           NEW h \in StreamId, h = NewStream(i, "Reliable"), OpenStream(p, e, i),
           \A q \in Peers \ {p} : cmds'[q] = cmds[q] /\ opening'[q] = opening[q],
           \A f \in EndsOf(p), s \in StreamId :
               /\ Closing(f, s)' <= Closing(f, s)
               /\ Called(f, s)' + Awaited(f, s)' + (IF f = e /\ s = h THEN 1 ELSE 0)
                      <= Called(f, s) + Awaited(f, s),
           UNCHANGED <<events, next_stream_id, thread>>
    PROVE  OnceInv'
<1>1. TypeOK /\ TypeOK' /\ e \in Ends /\ Owner(e) = p
  BY EndsOfFacts DEF Counted
<1>2. PICK r \in Registration(p) :
          /\ r = [end |-> e, stream |-> h, quic |-> <<e, Len(opened[e]) + 1>>]
          /\ streamReg' = [streamReg EXCEPT ![p] = Append(@, r)]
          /\ \A f \in EndsOf(p), s \in StreamId :
                 Registered(f, s)' = Registered(f, s) + (IF f = e /\ s = h THEN 1 ELSE 0)
  BY <1>1, OpenRegisters
<1>3. /\ opened' = [opened EXCEPT ![e] = Append(@, i)]
      /\ UNCHANGED <<unreliable, taken, net>>
  BY DEF OpenStream
<1>4. /\ \A q \in Peers \ {p} : streamReg'[q] = streamReg[q]
      /\ \A q \in Peers : \A x \in Elems(streamReg'[q]) : x \in Elems(streamReg[q]) \/ x = r
  BY <1>1, <1>2, OneRegistered
<1>5. IsReliable(h)
  BY HandleKinds DEF Reliability
<1>6. DatagramsOK' /\ HandlesOK'
  <2>1. IsReliable(r.stream) /\ net' = net
    BY <1>2, <1>3, <1>5
  <2>. QED
    BY <1>4, <2>1, KindsKept
<1>7. /\ \A f \in Ends : opened[f] \in Seq(StreamId) /\ taken[f] <= Len(opened[Other(f)])
      /\ DOMAIN opened = Ends /\ taken \in [Ends -> Nat]
  BY <1>1 DEF TypeOK, QuinnTypeOK
<1>8. ASSUME NEW f \in Ends, NEW s \in StreamId PROVE Taken(f, s)' = Taken(f, s)
  <2>1. Other(f) \in Ends /\ opened[Other(f)] \in Seq(StreamId) /\ taken[f] <= Len(opened[Other(f)])
        /\ taken[f] \in Nat /\ Len(opened[Other(f)]) \in Nat
    BY <1>7, EndFacts
  <2>2. ASSUME NEW k \in 1 .. taken[f] PROVE opened'[Other(f)][k] = opened[Other(f)][k]
    <3>1. k \in 1 .. Len(opened[Other(f)])
      BY <2>1
    <3>2. CASE Other(f) = e
      <4>1. opened'[e] = Append(opened[e], i) /\ opened[e] \in Seq(StreamId)
        BY <1>1, <1>3, <1>7
      <4>2. Append(opened[e], i)[k] = opened[e][k]
        BY <3>1, <3>2, <4>1, AppendProperties
      <4>. QED
        BY <3>2, <4>1, <4>2
    <3>3. CASE Other(f) # e
      BY <1>3, <1>7, <2>1, <3>3
    <3>. QED
      BY <3>2, <3>3
  <2>. QED
    BY <1>3, <2>2, TakenKept
<1>9. ASSUME NEW f \in Ends, NEW s \in StreamId
      PROVE  Made(f, s)' = Made(f, s) + (IF f = e /\ s = h THEN 1 ELSE 0)
  <2>1. Made(f, s) \in Nat
    BY DEF Counted, CountsOK
  <2>2. CASE f # e
    <3>1. opened'[f] = opened[f]
      BY <1>3, <1>7, <2>2
    <3>. QED
      BY <2>1, <2>2, <3>1 DEF Made, Indices
  <2>3. CASE f = e
    <3>1. opened'[f] = Append(opened[f], i) /\ opened[f] \in Seq(StreamId)
      BY <1>3, <1>7, <2>3
    <3>2. i \in Indices(s) <=> s = h
      BY DEF Indices
    <3>3. Made(f, s)' = Count(Append(opened[f], i), Indices(s))
      BY <3>1 DEF Made, Indices
    <3>4. Count(Append(opened[f], i), Indices(s)) =
              Count(opened[f], Indices(s)) + (IF i \in Indices(s) THEN 1 ELSE 0)
      BY <3>1, CountAppend
    <3>. QED
      BY <2>3, <3>2, <3>3, <3>4 DEF Made
  <2>. QED
    BY <2>2, <2>3
<1>10. ASSUME NEW f \in Ends, NEW s \in StreamId, Owner(f) = p PROVE OnceOK(f, s)'
  <2>1. f \in EndsOf(p) /\ CountsOK(f, s) /\ CountsOK(f, s)' /\ OnceOK(f, s)
    BY <1>10, EndFacts DEF Counted, OnceInv
  <2>2. /\ Announcements(f, s)' = Announcements(f, s) /\ Closes(f, s)' = Closes(f, s)
        /\ ByCall(f, s)' = ByCall(f, s) /\ Listed(f, s)' = Listed(f, s)
        /\ Taken(f, s)' = Taken(f, s)
    BY <1>3, <1>8, <1>10, OnceKept
  <2>3. Registered(f, s)' = Registered(f, s) + (IF f = e /\ s = h THEN 1 ELSE 0)
    BY <1>2, <2>1
  <2>4. IsReliable(s)' <=> IsReliable(s)
    BY DEF IsReliable
  <2>5. /\ Closing(f, s)' <= Closing(f, s)
        /\ Called(f, s)' + Awaited(f, s)' + (IF f = e /\ s = h THEN 1 ELSE 0)
               <= Called(f, s) + Awaited(f, s)
    BY <2>1
  <2>6. Made(f, s)' = Made(f, s) + (IF f = e /\ s = h THEN 1 ELSE 0)
    BY <1>9
  <2>7. CASE f = e /\ s = h
    BY <2>1, <2>2, <2>3, <2>4, <2>5, <2>6, <2>7 DEF OnceOK, CountsOK
  <2>8. CASE ~(f = e /\ s = h)
    BY <2>1, <2>2, <2>3, <2>4, <2>5, <2>6, <2>8 DEF OnceOK, CountsOK
  <2>. QED
    BY <2>7, <2>8
<1>11. \A f \in Ends : Owner(f) # p => opened'[f] = opened[f]
  BY <1>1, <1>3, <1>7
<1>. QED
  BY <1>3, <1>4, <1>6, <1>8, <1>10, <1>11, OnceFrame

LEMMA CreateReliableOnce ==
    ASSUME Counted, Counted', OnceInv, NEW p \in Peers, CreateReliable(p)
    PROVE  OnceInv'
<1>1. /\ TypeOK /\ TypeOK' /\ HandlesQuietly(p, "CreateStream") /\ UNCHANGED <<events, opening>>
      /\ Head(cmds[p]).reliability = "Reliable"
      /\ OpenStream(p, Head(cmds[p]).conn, Head(cmds[p]).index)
  BY DEF Counted, CreateReliable
<1>2. PICK e \in EndsOf(p), i \in StreamId, r \in Reliability, h \in StreamId :
          /\ e \in Ends /\ h = NewStream(i, r)
          /\ e = Head(cmds[p]).conn /\ i = Head(cmds[p]).index /\ r = Head(cmds[p]).reliability
          /\ \A q \in Peers \ {p} : cmds'[q] = cmds[q]
          /\ UNCHANGED <<next_stream_id, thread>> /\ opening[p] = <<>>
          /\ \A f \in EndsOf(p), s \in StreamId :
                 /\ Called(f, s) = Called(f, s)' + (IF f = e /\ s = h THEN 1 ELSE 0)
                 /\ Closing(f, s) = Closing(f, s)' /\ Awaited(f, s) = 0
  BY <1>1, CreateHeads
<1>3. h = NewStream(i, "Reliable") /\ OpenStream(p, e, i)
  BY <1>1, <1>2
<1>4. ASSUME NEW f \in EndsOf(p), NEW s \in StreamId
      PROVE  /\ Closing(f, s)' <= Closing(f, s)
             /\ Called(f, s)' + Awaited(f, s)' + (IF f = e /\ s = h THEN 1 ELSE 0)
                    <= Called(f, s) + Awaited(f, s)
  <2>1. f \in Ends /\ Owner(f) = p
    BY EndsOfFacts
  <2>2. Awaited(f, s)' = Awaited(f, s) /\ CountsOK(f, s) /\ CountsOK(f, s)'
    BY <1>1, <2>1, OnceKept DEF Counted
  <2>. QED
    BY <1>2, <2>2 DEF CountsOK
<1>. QED
  BY <1>1, <1>2, <1>3, <1>4, OpenOnce

LEMMA CreateResumesOnce ==
    ASSUME Counted, Counted', OnceInv, NEW p \in Peers, CreateResumes(p)
    PROVE  OnceInv'
<1>1. /\ TypeOK /\ opening[p] # <<>> /\ opening' = [opening EXCEPT ![p] = <<>>]
      /\ UNCHANGED <<cmds, events, next_stream_id, thread>>
      /\ OpenStream(p, Head(opening[p]).end, Head(opening[p]).index) /\ DOMAIN opening = Peers
  BY DEF Counted, CreateResumes, peerVars, TypeOK, LoopTypeOK
<1>2. PICK e \in EndsOf(p), i \in StreamId :
          e = Head(opening[p]).end /\ i = Head(opening[p]).index /\ OpenStream(p, e, i)
  BY <1>1, OpeningHead
<1>3. PICK h \in StreamId : h = NewStream(i, "Reliable")
  BY NewHandle DEF Reliability
<1>4. ASSUME NEW f \in EndsOf(p), NEW s \in StreamId
      PROVE  /\ Closing(f, s)' <= Closing(f, s)
             /\ Called(f, s)' + Awaited(f, s)' + (IF f = e /\ s = h THEN 1 ELSE 0)
                    <= Called(f, s) + Awaited(f, s)
  <2>1. f \in Ends /\ Owner(f) = p
    BY EndsOfFacts
  <2>2. /\ Called(f, s)' = Called(f, s) /\ Closing(f, s)' = Closing(f, s)
        /\ CountsOK(f, s) /\ CountsOK(f, s)'
    BY <1>1, <2>1, OnceKept DEF Counted
  <2>3. Awaited(f, s)' = 0
    BY <1>1, <2>1 DEF Awaited
  <2>4. Awaited(f, s) = IF f = e /\ s = h THEN 1 ELSE 0
    BY <1>1, <1>2, <1>3, <2>1 DEF Awaited
  <2>. QED
    BY <2>2, <2>3, <2>4 DEF CountsOK
<1>5. \A q \in Peers \ {p} : cmds'[q] = cmds[q] /\ opening'[q] = opening[q]
  BY <1>1
<1>. QED
  BY <1>1, <1>2, <1>3, <1>4, <1>5, OpenOnce

\* At the limit of open streams the command waits in the loop's hand.
LEMMA CreateWaitsOnce ==
    ASSUME Counted, Counted', OnceInv, NEW p \in Peers, CreateWaits(p)
    PROVE  OnceInv'
<1>1. /\ TypeOK /\ TypeOK' /\ HandlesQuietly(p, "CreateStream")
      /\ Head(cmds[p]).reliability = "Reliable" /\ DOMAIN opening = Peers
      /\ UNCHANGED <<events, streamReg, unreliable, opened, taken, net>>
  BY DEF Counted, CreateWaits, mapVars, quinnVars, TypeOK, LoopTypeOK
<1>2. PICK e \in EndsOf(p), i \in StreamId, r \in Reliability, h \in StreamId :
          /\ e \in Ends /\ h = NewStream(i, r)
          /\ e = Head(cmds[p]).conn /\ i = Head(cmds[p]).index /\ r = Head(cmds[p]).reliability
          /\ \A q \in Peers \ {p} : cmds'[q] = cmds[q]
          /\ UNCHANGED <<next_stream_id, thread>> /\ opening[p] = <<>>
          /\ \A f \in EndsOf(p), s \in StreamId :
                 /\ Called(f, s) = Called(f, s)' + (IF f = e /\ s = h THEN 1 ELSE 0)
                 /\ Closing(f, s) = Closing(f, s)' /\ Awaited(f, s) = 0
  BY <1>1, CreateHeads
<1>3. PICK w : w = [end |-> e, index |-> i]
  OBVIOUS
<1>4. opening' = [opening EXCEPT ![p] = <<w>>]
  BY <1>2, <1>3 DEF CreateWaits
<1>5. h = NewStream(i, "Reliable") /\ opening'[p] = <<w>> /\ Head(<<w>>) = w
      /\ \A q \in Peers \ {p} : opening'[q] = opening[q]
  BY <1>1, <1>2, <1>4
<1>6. DatagramsOK' /\ HandlesOK'
  BY <1>1, KindsKept DEF Elems
<1>7. ASSUME NEW f \in Ends, NEW s \in StreamId PROVE Taken(f, s)' = Taken(f, s)
  BY <1>1, <1>7, TakenKept
<1>8. ASSUME NEW f \in Ends, NEW s \in StreamId, Owner(f) = p PROVE OnceOK(f, s)'
  <2>1. f \in EndsOf(p) /\ CountsOK(f, s) /\ CountsOK(f, s)' /\ OnceOK(f, s)
    BY <1>8, EndFacts DEF Counted, OnceInv
  <2>2. /\ Announcements(f, s)' = Announcements(f, s) /\ Closes(f, s)' = Closes(f, s)
        /\ ByCall(f, s)' = ByCall(f, s) /\ Listed(f, s)' = Listed(f, s)
        /\ Registered(f, s)' = Registered(f, s) /\ Made(f, s)' = Made(f, s)
        /\ Taken(f, s)' = Taken(f, s)
    BY <1>1, <1>2, <1>7, <1>8, OnceKept
  <2>3. Awaited(f, s)' = IF f = e /\ s = h THEN 1 ELSE 0
    <3>1. Awaited(f, s)' = IF w.end = f /\ NewStream(w.index, "Reliable") = s THEN 1 ELSE 0
      BY <1>5, <1>8 DEF Awaited
    <3>. QED
      BY <1>3, <1>5, <3>1
  <2>4. IsReliable(s)' <=> IsReliable(s)
    BY DEF IsReliable
  <2>. QED
    BY <1>2, <2>1, <2>2, <2>3, <2>4 DEF OnceOK, CountsOK
<1>. QED
  BY <1>1, <1>2, <1>5, <1>6, <1>7, <1>8, OnceFrame

\* The other kinds are registered without a stream of QUIC.
LEMMA CreateUnreliableOnce ==
    ASSUME Counted, Counted', OnceInv, NEW p \in Peers, CreateUnreliable(p)
    PROVE  OnceInv'
<1>1. /\ TypeOK /\ TypeOK' /\ HandlesQuietly(p, "CreateStream")
      /\ UNCHANGED <<events, opening, unreliable, opened, taken, net>>
  BY DEF Counted, CreateUnreliable, loopVars, quinnVars
<1>2. PICK e \in EndsOf(p), i \in StreamId, r \in Reliability, h \in StreamId :
          /\ e \in Ends /\ h = NewStream(i, r)
          /\ e = Head(cmds[p]).conn /\ i = Head(cmds[p]).index /\ r = Head(cmds[p]).reliability
          /\ \A q \in Peers \ {p} : cmds'[q] = cmds[q]
          /\ UNCHANGED <<next_stream_id, thread>> /\ opening[p] = <<>>
          /\ \A f \in EndsOf(p), s \in StreamId :
                 /\ Called(f, s) = Called(f, s)' + (IF f = e /\ s = h THEN 1 ELSE 0)
                 /\ Closing(f, s) = Closing(f, s)' /\ Awaited(f, s) = 0
  BY <1>1, CreateHeads
<1>3. PICK g \in Registration(p) : g = [end |-> e, stream |-> h, quic |-> NoStream]
  BY <1>2, RegistrationMembers
<1>4. streamReg' = [streamReg EXCEPT ![p] = Append(@, g)]
  BY <1>2, <1>3 DEF CreateUnreliable
<1>5. /\ \A q \in Peers \ {p} : streamReg'[q] = streamReg[q]
      /\ \A q \in Peers : \A x \in Elems(streamReg'[q]) : x \in Elems(streamReg[q]) \/ x = g
  BY <1>1, <1>4, OneRegistered
<1>6. DatagramsOK' /\ HandlesOK'
  <2>1. g.quic = NoStream /\ net' = net
    BY <1>1, <1>3
  <2>. QED
    BY <1>5, <2>1, KindsKept
<1>7. ASSUME NEW f \in Ends, NEW s \in StreamId PROVE Taken(f, s)' = Taken(f, s)
  BY <1>1, <1>7, TakenKept
<1>8. ASSUME NEW f \in Ends, NEW s \in StreamId, Owner(f) = p PROVE OnceOK(f, s)'
  <2>1. f \in EndsOf(p) /\ CountsOK(f, s) /\ CountsOK(f, s)' /\ OnceOK(f, s)
    BY <1>8, EndFacts DEF Counted, OnceInv
  <2>2. /\ Announcements(f, s)' = Announcements(f, s) /\ Closes(f, s)' = Closes(f, s)
        /\ ByCall(f, s)' = ByCall(f, s) /\ Listed(f, s)' = Listed(f, s)
        /\ Awaited(f, s)' = Awaited(f, s) /\ Made(f, s)' = Made(f, s)
        /\ Taken(f, s)' = Taken(f, s)
    BY <1>1, <1>2, <1>7, <1>8, OnceKept
  <2>3. Registered(f, s)' = Registered(f, s) + (IF f = e /\ s = h THEN 1 ELSE 0)
    <3>1. Registered(f, s)' = Registered(f, s) + (IF g.end = f /\ g.stream = s THEN 1 ELSE 0)
      BY <1>1, <1>4, <2>1, RegistersOnce
    <3>2. g.end = e /\ g.stream = h
      BY <1>3
    <3>. QED
      BY <3>1, <3>2
  <2>4. IsReliable(s)' <=> IsReliable(s)
    BY DEF IsReliable
  <2>5. Registered(f, s)' + Called(f, s)' = Registered(f, s) + Called(f, s)
        /\ Called(f, s)' <= Called(f, s) /\ Closing(f, s)' = Closing(f, s)
    <3>1. /\ Called(f, s) = Called(f, s)' + (IF f = e /\ s = h THEN 1 ELSE 0)
          /\ Closing(f, s) = Closing(f, s)'
      BY <1>2, <2>1
    <3>2. Registered(f, s) \in Nat /\ Called(f, s)' \in Nat
      BY <2>1 DEF CountsOK
    <3>. QED
      BY <2>3, <3>1, <3>2
  <2>. QED
    BY <2>1, <2>2, <2>4, <2>5 DEF OnceOK, CountsOK
<1>. QED
  BY <1>1, <1>2, <1>5, <1>6, <1>7, <1>8, OnceFrame

-------------------------------------------------------------------------------
(* A stream is announced once: registrations and closes                    *)

\* The loop enters a registration into the maps and announces the stream,
\* unless it is in the list of the unreliable ones.
LEMMA RegisterStreamOnce ==
    ASSUME Counted, Counted', OnceInv, NEW p \in Peers, RegisterStream(p)
    PROVE  OnceInv'
<1>1. TypeOK /\ TypeOK' /\ streamReg[p] # <<>> /\ thread[p] = "running"
  BY DEF Counted, RegisterStream
<1>2. PICK r \in Registration(p) :
          /\ r = Head(streamReg[p]) /\ r.end \in EndsOf(p) /\ r.end \in Ends
          /\ Owner(r.end) = p /\ r.stream \in StreamId /\ <<r.end, r.stream>> \in Key
          /\ Tail(streamReg[p]) \in Seq(Registration(p))
  BY <1>1, RegistrationHead
<1>3. PICK e \in Ends, h \in StreamId : e = r.end /\ h = r.stream /\ e \in EndsOf(p)
  BY <1>2
<1>4. PICK tells \in BOOLEAN : tells <=> ~(r.quic = NoStream /\ <<e, h>> \in unreliable)
  OBVIOUS
<1>5. /\ streamReg' = [streamReg EXCEPT ![p] = Tail(@)]
      /\ IF r.quic # NoStream THEN UNCHANGED unreliable
                              ELSE unreliable' = unreliable \cup {<<e, h>>}
      /\ IF tells THEN Emit(p, <<StreamCreated(e, h)>>) ELSE Emit(p, <<>>)
      /\ UNCHANGED <<cmds, next_stream_id, thread, opening, opened, taken, net>>
  BY <1>2, <1>3, <1>4 DEF RegisterStream, loopVars
<1>6. /\ r \in Elems(streamReg[p]) /\ DOMAIN streamReg = Peers
      /\ \A q \in Peers : \A x \in Elems(streamReg'[q]) : x \in Elems(streamReg[q])
      /\ \A q \in Peers \ {p} : streamReg'[q] = streamReg[q]
  <2>1. streamReg[p] \in Seq(Registration(p)) /\ DOMAIN streamReg = Peers
    BY <1>1 DEF TypeOK, MapTypeOK
  <2>2. Elems(Tail(streamReg[p])) \subseteq Elems(streamReg[p]) /\ r \in Elems(streamReg[p])
    BY <1>1, <1>2, <2>1, ElemsTail
  <2>3. \A q \in Peers : streamReg'[q] = IF q = p THEN Tail(streamReg[p]) ELSE streamReg[q]
    BY <1>5, <2>1
  <2>. QED
    BY <2>1, <2>2, <2>3
<1>7. DatagramsOK' /\ HandlesOK'
  BY <1>5, <1>6, KindsKept
<1>8. PICK y \in Events[p] : y = StreamCreated(e, h)
  BY <1>3, EventTypes
<1>9. \A q \in Peers \ {p} : events'[q] = events[q]
  BY <1>1, <1>5 DEF Emit, TypeOK, PeerTypeOK, EventsTypeOK
<1>10. ASSUME NEW f \in Ends, NEW s \in StreamId PROVE Taken(f, s)' = Taken(f, s)
  BY <1>5, <1>10, TakenKept
<1>11. ASSUME NEW f \in Ends, NEW s \in StreamId, Owner(f) = p
       PROVE  /\ Closes(f, s)' = Closes(f, s)
              /\ Announcements(f, s)' =
                     Announcements(f, s) + (IF tells /\ f = e /\ s = h THEN 1 ELSE 0)
  <2>1. f \in EndsOf(p) /\ CountsOK(f, s)
    BY <1>11, EndFacts DEF Counted
  <2>2. CASE tells
    <3>1. /\ y = StreamCreated(f, s) <=> f = e /\ s = h
          /\ y # StreamClosed(f, s) /\ Emit(p, <<y>>)
      BY <1>5, <1>8, <2>2 DEF StreamCreated, StreamClosed
    <3>. QED
      BY <1>1, <2>1, <2>2, <3>1, EmitOnce DEF CountsOK
  <2>3. CASE ~tells
    <3>1. events'[p] = events[p]
      BY <1>1, <1>5, <2>3, QueueTypes, EmitNone
    <3>2. Announcements(f, s)' = Announcements(f, s) /\ Closes(f, s)' = Closes(f, s)
      BY <1>11, <3>1, OnceKept
    <3>. QED
      BY <2>1, <2>3, <3>2 DEF CountsOK
  <2>. QED
    BY <2>2, <2>3
<1>12. ASSUME NEW f \in Ends, NEW s \in StreamId, Owner(f) = p PROVE OnceOK(f, s)'
  <2>1. f \in EndsOf(p) /\ CountsOK(f, s) /\ CountsOK(f, s)' /\ OnceOK(f, s)
    BY <1>12, EndFacts DEF Counted, OnceInv
  <2>2. /\ Called(f, s)' = Called(f, s) /\ Closing(f, s)' = Closing(f, s)
        /\ Awaited(f, s)' = Awaited(f, s) /\ ByCall(f, s)' = ByCall(f, s)
        /\ Made(f, s)' = Made(f, s) /\ Taken(f, s)' = Taken(f, s)
    BY <1>5, <1>10, <1>12, OnceKept
  <2>3. Registered(f, s) = Registered(f, s)' + (IF f = e /\ s = h THEN 1 ELSE 0)
    <3>1. Registered(f, s) = Registered(f, s)' + (IF r.end = f /\ r.stream = s THEN 1 ELSE 0)
      BY <1>1, <1>2, <1>5, <2>1, RegisteredOnce
    <3>. QED
      BY <1>3, <3>1
  <2>4. /\ Closes(f, s)' = Closes(f, s)
        /\ Announcements(f, s)' =
               Announcements(f, s) + (IF tells /\ f = e /\ s = h THEN 1 ELSE 0)
    BY <1>11, <1>12
  <2>5. IsReliable(s)' <=> IsReliable(s)
    BY DEF IsReliable
  <2>6. ~IsReliable(s) => Announcements(f, s)' <= Closes(f, s)' + Listed(f, s)'
    <3>1. CASE ~(f = e /\ s = h)
      <4>1. <<f, s>> \in unreliable' <=> <<f, s>> \in unreliable
        BY <1>5, <3>1
      <4>2. Listed(f, s)' = Listed(f, s)
        BY <1>5, <1>12, <4>1, OnceKept
      <4>. QED
        BY <2>1, <2>4, <3>1, <4>2 DEF OnceOK, CountsOK
    <3>2. CASE f = e /\ s = h /\ r.quic = NoStream
      <4>1. Listed(f, s)' = 1
        BY <1>5, <3>2 DEF Listed
      <4>2. tells => Listed(f, s) = 0
        BY <1>1, <1>4, <1>12, <3>2 DEF Listed
      <4>. QED
        BY <2>1, <2>4, <4>1, <4>2 DEF OnceOK, CountsOK
    <3>3. CASE f = e /\ s = h /\ r.quic # NoStream
      BY <1>3, <1>6, <3>3 DEF OnceInv, HandlesOK
    <3>. QED
      BY <3>1, <3>2, <3>3
  <2>. QED
    BY <2>1, <2>2, <2>3, <2>4, <2>5, <2>6 DEF OnceOK, CountsOK
<1>13. \A f \in Ends : Owner(f) # p =>
           \A s \in StreamId : <<f, s>> \in unreliable' <=> <<f, s>> \in unreliable
  BY <1>2, <1>3, <1>5
<1>. QED
  BY <1>5, <1>6, <1>7, <1>9, <1>10, <1>12, <1>13, OnceFrame


\* A close asks for one, takes the stream from the list and tells the application.
LEMMA BackendCloseOnce ==
    ASSUME Counted, Counted', OnceInv, NEW p \in Peers, BackendCloseStream(p)
    PROVE  OnceInv'
<1>1. /\ TypeOK /\ TypeOK' /\ HandlesQuietly(p, "CloseStream")
      /\ UNCHANGED <<streamReg, opening, opened, taken, net>>
  BY DEF Counted, BackendCloseStream, loopVars
<1>2. /\ cmds[p] # <<>> /\ TakeCommand(p) /\ Head(cmds[p]).type = "CloseStream"
      /\ Head(cmds[p]) \in Command(EndsOf(p), Packet)
      /\ UNCHANGED <<next_stream_id, thread>> /\ \A q \in Peers \ {p} : cmds'[q] = cmds[q]
  BY <1>1, QuietType, QueueTypes
<1>3. PICK e \in Ends, h \in StreamId :
          e = HeadEnd(p) /\ e \in EndsOf(p) /\ Owner(e) = p /\ h = Head(cmds[p]).stream
  BY <1>1, <1>2, HeadParts
<1>4. Head(cmds[p]) = CloseStreamCmd(e, h)
  BY <1>2, <1>3
  DEF HeadEnd, Command, BindCmd, ConnectCmd, ShutdownCmd, SendCmd, CreateStreamCmd, CloseStreamCmd
<1>5. unreliable' = unreliable \ {<<e, h>>} /\ Emit(p, <<StreamClosed(e, h)>>)
  BY <1>3 DEF BackendCloseStream
<1>6. PICK y \in Events[p] : y = StreamClosed(e, h)
  BY <1>3, EventTypes
<1>7. \A q \in Peers \ {p} : events'[q] = events[q]
  BY <1>1, <1>5 DEF Emit, TypeOK, PeerTypeOK, EventsTypeOK
<1>8. DatagramsOK' /\ HandlesOK'
  BY <1>1, KindsKept DEF Elems
<1>9. ASSUME NEW f \in Ends, NEW s \in StreamId PROVE Taken(f, s)' = Taken(f, s)
  BY <1>1, <1>9, TakenKept
<1>10. ASSUME NEW f \in Ends, NEW s \in StreamId, Owner(f) = p PROVE OnceOK(f, s)'
  <2>1. f \in EndsOf(p) /\ CountsOK(f, s) /\ CountsOK(f, s)' /\ OnceOK(f, s)
    BY <1>10, EndFacts DEF Counted, OnceInv
  <2>2. /\ Called(f, s) = Called(f, s)' + (IF Head(cmds[p]) \in CallsFor(f, s) THEN 1 ELSE 0)
        /\ Closing(f, s) =
               Closing(f, s)' + (IF Head(cmds[p]) = CloseStreamCmd(f, s) THEN 1 ELSE 0)
    BY <1>1, <1>2, <2>1, TakeOnce
  <2>3. /\ Head(cmds[p]) \notin CallsFor(f, s)
        /\ Head(cmds[p]) = CloseStreamCmd(f, s) <=> f = e /\ s = h
    BY <1>2, <1>4 DEF CallsFor, CloseStreamCmd
  <2>4. /\ Announcements(f, s)' =
               Announcements(f, s) + (IF y = StreamCreated(f, s) THEN 1 ELSE 0)
        /\ Closes(f, s)' = Closes(f, s) + (IF y = StreamClosed(f, s) THEN 1 ELSE 0)
    BY <1>1, <1>5, <1>6, <2>1, EmitOnce
  <2>5. y # StreamCreated(f, s) /\ (y = StreamClosed(f, s) <=> f = e /\ s = h)
    BY <1>6 DEF StreamCreated, StreamClosed
  <2>6. /\ ByCall(f, s)' = ByCall(f, s) /\ Awaited(f, s)' = Awaited(f, s)
        /\ Registered(f, s)' = Registered(f, s) /\ Made(f, s)' = Made(f, s)
        /\ Taken(f, s)' = Taken(f, s)
    BY <1>1, <1>2, <1>9, <1>10, OnceKept
  <2>7. IsReliable(s)' <=> IsReliable(s)
    BY DEF IsReliable
  <2>8. CASE f = e /\ s = h
    <3>1. /\ Called(f, s)' = Called(f, s) /\ Closing(f, s) = Closing(f, s)' + 1
          /\ Announcements(f, s)' = Announcements(f, s) /\ Closes(f, s)' = Closes(f, s) + 1
      BY <2>1, <2>2, <2>3, <2>4, <2>5, <2>8 DEF CountsOK
    <3>. QED
      BY <2>1, <2>6, <2>7, <3>1 DEF OnceOK, CountsOK
  <2>9. CASE ~(f = e /\ s = h)
    <3>1. /\ Called(f, s)' = Called(f, s) /\ Closing(f, s)' = Closing(f, s)
          /\ Announcements(f, s)' = Announcements(f, s) /\ Closes(f, s)' = Closes(f, s)
      BY <2>1, <2>2, <2>3, <2>4, <2>5, <2>9 DEF CountsOK
    <3>2. <<f, s>> \in unreliable' <=> <<f, s>> \in unreliable
      BY <1>5, <2>9
    <3>3. Listed(f, s)' = Listed(f, s)
      BY <1>2, <1>10, <3>2, OnceKept
    <3>. QED
      BY <2>1, <2>6, <2>7, <3>1, <3>3 DEF OnceOK, CountsOK
  <2>. QED
    BY <2>8, <2>9
<1>11. \A f \in Ends : Owner(f) # p =>
           \A s \in StreamId : <<f, s>> \in unreliable' <=> <<f, s>> \in unreliable
  BY <1>3, <1>5
<1>. QED
  BY <1>1, <1>2, <1>7, <1>8, <1>9, <1>10, <1>11, OnceFrame

-------------------------------------------------------------------------------
(* A stream is announced once: the readers and the end of a backend        *)

\* A datagram registers a stream that has no stream of QUIC.
LEMMA ReadDatagramOnce ==
    ASSUME Counted, Counted', OnceInv, NEW e \in Ends, NEW m \in Packet, ReadDatagram(e, m)
    PROVE  OnceInv'
<1>0. PICK p \in Peers : p = Owner(e) /\ e \in EndsOf(p)
  BY EndFacts
<1>1. /\ TypeOK /\ TypeOK' /\ <<e, m>> \in net /\ net' \subseteq net
      /\ Emit(p, <<Message(e, m)>>)
      /\ UNCHANGED <<cmds, next_stream_id, thread, unreliable, opening, opened, taken>>
  BY <1>0 DEF Counted, ReadDatagram, loopVars, quinnVars
<1>2. PICK y \in Events[p] :
          Emit(p, <<y>>) /\ y.type \notin {"StreamCreated", "StreamClosed"}
  BY <1>0, <1>1, EventTypes DEF Message
<1>3. CASE UNCHANGED streamReg
  BY <1>1, <1>2, <1>3, QuietOnce
<1>4. CASE ~UNCHANGED streamReg
  <2>1. PICK h \in StreamId : h = m.stream /\ ~IsReliable(h)
    <3>1. <<e, m>>[2] = m /\ m.stream \in StreamId
      BY DEF Packet
    <3>. QED
      BY <1>1, <3>1 DEF OnceInv, DatagramsOK
  <2>2. PICK r \in Registration(p) : r = [end |-> e, stream |-> h, quic |-> NoStream]
    BY <1>0, RegistrationMembers
  <2>3. streamReg' = [streamReg EXCEPT ![p] = Append(@, r)]
    BY <1>0, <1>4, <2>1, <2>2 DEF ReadDatagram
  <2>4. /\ \A q \in Peers \ {p} : streamReg'[q] = streamReg[q]
        /\ \A q \in Peers : \A x \in Elems(streamReg'[q]) : x \in Elems(streamReg[q]) \/ x = r
    BY <1>1, <2>3, OneRegistered
  <2>5. DatagramsOK' /\ HandlesOK'
    <3>1. r.quic = NoStream
      BY <2>2
    <3>. QED
      BY <1>1, <2>4, <3>1, KindsKept
  <2>6. \A q \in Peers \ {p} : events'[q] = events[q]
    BY <1>1 DEF Emit, TypeOK, PeerTypeOK, EventsTypeOK
  <2>7. ASSUME NEW f \in Ends, NEW s \in StreamId PROVE Taken(f, s)' = Taken(f, s)
    BY <1>1, <2>7, TakenKept
  <2>8. ASSUME NEW f \in Ends, NEW s \in StreamId, Owner(f) = p PROVE OnceOK(f, s)'
    <3>1. f \in EndsOf(p) /\ CountsOK(f, s) /\ CountsOK(f, s)' /\ OnceOK(f, s)
      BY <2>8, EndFacts DEF Counted, OnceInv
    <3>2. Announcements(f, s)' = Announcements(f, s) /\ Closes(f, s)' = Closes(f, s)
      BY <1>1, <1>2, <3>1, EmitOther
    <3>3. /\ Called(f, s)' = Called(f, s) /\ Closing(f, s)' = Closing(f, s)
          /\ ByCall(f, s)' = ByCall(f, s) /\ Listed(f, s)' = Listed(f, s)
          /\ Awaited(f, s)' = Awaited(f, s) /\ Made(f, s)' = Made(f, s)
          /\ Taken(f, s)' = Taken(f, s)
      BY <1>1, <2>7, <2>8, OnceKept
    <3>4. Registered(f, s)' = Registered(f, s) + (IF r.end = f /\ r.stream = s THEN 1 ELSE 0)
      BY <1>1, <2>3, <3>1, RegistersOnce
    <3>5. IsReliable(s) => Registered(f, s)' = Registered(f, s)
      <4>1. r.stream = h
        BY <2>2
      <4>. QED
        BY <2>1, <3>1, <3>4, <4>1 DEF CountsOK
    <3>6. IsReliable(s)' <=> IsReliable(s)
      BY DEF IsReliable
    <3>. QED
      BY <3>1, <3>2, <3>3, <3>5, <3>6 DEF OnceOK, CountsOK
  <2>. QED
    BY <1>1, <2>4, <2>5, <2>6, <2>7, <2>8, OnceFrame
<1>. QED
  BY <1>3, <1>4


\* A stream of QUIC is accepted, and counts for the registration it becomes.
LEMMA TakenMore ==
    ASSUME TypeOK, NEW e \in Ends, taken' = [taken EXCEPT ![e] = @ + 1], opened' = opened,
           NEW i, i = opened[Other(e)][taken[e] + 1]
    PROVE  /\ \A f \in Ends, s \in StreamId : f # e => Taken(f, s)' = Taken(f, s)
           /\ \A s \in StreamId : Taken(e, s)' = Taken(e, s) + (IF i \in Indices(s) THEN 1 ELSE 0)
<1>1. taken[e] \in Nat /\ taken'[e] = taken[e] + 1 /\ \A f \in Ends : f # e => taken'[f] = taken[f]
  BY DEF TypeOK, QuinnTypeOK
<1>2. ASSUME NEW f \in Ends, NEW s \in StreamId, f # e PROVE Taken(f, s)' = Taken(f, s)
  BY <1>1, <1>2, TakenKept
<1>3. ASSUME NEW s \in StreamId
      PROVE  Taken(e, s)' = Taken(e, s) + (IF i \in Indices(s) THEN 1 ELSE 0)
  <2>1. PICK n \in Nat : n = taken[e] + 1 /\ n \notin 1 .. taken[e]
    BY <1>1
  <2>2. 1 .. taken'[e] = (1 .. taken[e]) \cup {n}
    BY <1>1, <2>1
  <2>3. TakenAt(e, s)' = {k \in (1 .. taken[e]) \cup {n} : opened[Other(e)][k] \in Indices(s)}
    BY <2>2 DEF TakenAt, Indices
  <2>4. /\ IsFiniteSet(TakenAt(e, s)) /\ Taken(e, s) \in Nat /\ n \notin TakenAt(e, s)
    BY <2>1, TakenFinite DEF TakenAt
  <2>5. CASE i \in Indices(s)
    <3>1. TakenAt(e, s)' = TakenAt(e, s) \cup {n}
      BY <2>1, <2>3, <2>5 DEF TakenAt
    <3>2. Cardinality(TakenAt(e, s) \cup {n}) = Cardinality(TakenAt(e, s)) + 1
      BY <2>4, FS_AddElement
    <3>. QED
      BY <2>5, <3>1, <3>2 DEF Taken
  <2>6. CASE i \notin Indices(s)
    <3>1. TakenAt(e, s)' = TakenAt(e, s)
      BY <2>1, <2>3, <2>6 DEF TakenAt
    <3>. QED
      BY <2>4, <2>6, <3>1 DEF Taken
  <2>. QED
    BY <2>5, <2>6
<1>. QED
  BY <1>2, <1>3

LEMMA AcceptStreamOnce ==
    ASSUME Counted, Counted', OnceInv, NEW e \in Ends, AcceptStream(e)
    PROVE  OnceInv'
<1>0. PICK p \in Peers : p = Owner(e) /\ e \in EndsOf(p)
  BY EndFacts
<1>1. /\ TypeOK /\ TypeOK' /\ taken[e] < Len(opened[Other(e)])
      /\ taken' = [taken EXCEPT ![e] = @ + 1]
      /\ UNCHANGED <<cmds, events, next_stream_id, thread, unreliable, opening, opened, net>>
  BY DEF Counted, AcceptStream, peerVars, loopVars
<1>2. PICK q \in StreamsOf(e) : /\ q = <<Other(e), taken[e] + 1>> /\ q[2] = taken[e] + 1
                                /\ opened[Other(e)][q[2]] \in StreamId
  BY <1>1, NextTaken
<1>3. PICK i \in StreamId, h \in StreamId :
          i = opened[Other(e)][q[2]] /\ h = NewStream(i, "Reliable") /\ IsReliable(h)
  BY <1>2, NewHandle, HandleKinds DEF Reliability
<1>4. PICK r \in Registration(p) : r = [end |-> e, stream |-> h, quic |-> q]
  BY <1>0, RegistrationMembers
<1>5. streamReg' = [streamReg EXCEPT ![p] = Append(@, r)]
  BY <1>0, <1>2, <1>3, <1>4 DEF AcceptStream
<1>6. /\ \A g \in Peers \ {p} : streamReg'[g] = streamReg[g]
      /\ \A g \in Peers : \A x \in Elems(streamReg'[g]) : x \in Elems(streamReg[g]) \/ x = r
  BY <1>1, <1>5, OneRegistered
<1>7. DatagramsOK' /\ HandlesOK'
  <2>1. IsReliable(r.stream)
    BY <1>3, <1>4
  <2>. QED
    BY <1>1, <1>6, <2>1, KindsKept
<1>8. /\ \A f \in Ends, s \in StreamId : f # e => Taken(f, s)' = Taken(f, s)
      /\ \A s \in StreamId : Taken(e, s)' = Taken(e, s) + (IF s = h THEN 1 ELSE 0)
  <2>1. \A s \in StreamId : i \in Indices(s) <=> s = h
    BY <1>3 DEF Indices
  <2>2. i = opened[Other(e)][taken[e] + 1] /\ opened' = opened
    BY <1>1, <1>2, <1>3
  <2>. QED
    BY <1>1, <2>1, <2>2, TakenMore
<1>9. ASSUME NEW f \in Ends, NEW s \in StreamId, Owner(f) = p PROVE OnceOK(f, s)'
  <2>1. f \in EndsOf(p) /\ CountsOK(f, s) /\ CountsOK(f, s)' /\ OnceOK(f, s)
    BY <1>9, EndFacts DEF Counted, OnceInv
  <2>2. /\ Announcements(f, s)' = Announcements(f, s) /\ Closes(f, s)' = Closes(f, s)
        /\ Called(f, s)' = Called(f, s) /\ Closing(f, s)' = Closing(f, s)
        /\ ByCall(f, s)' = ByCall(f, s) /\ Listed(f, s)' = Listed(f, s)
        /\ Awaited(f, s)' = Awaited(f, s) /\ Made(f, s)' = Made(f, s)
    BY <1>1, <1>9, OnceKept
  <2>3. Registered(f, s)' = Registered(f, s) + (IF f = e /\ s = h THEN 1 ELSE 0)
    <3>1. Registered(f, s)' = Registered(f, s) + (IF r.end = f /\ r.stream = s THEN 1 ELSE 0)
      BY <1>1, <1>5, <2>1, RegistersOnce
    <3>2. r.end = e /\ r.stream = h
      BY <1>4
    <3>. QED
      BY <3>1, <3>2
  <2>4. Taken(f, s)' = Taken(f, s) + (IF f = e /\ s = h THEN 1 ELSE 0)
    BY <1>8, <2>1 DEF CountsOK
  <2>5. IsReliable(s)' <=> IsReliable(s)
    BY DEF IsReliable
  <2>6. Registered(f, s)' - Registered(f, s) = Taken(f, s)' - Taken(f, s)
    BY <2>1, <2>3, <2>4 DEF CountsOK
  <2>. QED
    BY <2>1, <2>2, <2>5, <2>6 DEF OnceOK, CountsOK
<1>10. \A f \in Ends : Owner(f) # p => f # e
  BY <1>0
<1>. QED
  BY <1>1, <1>6, <1>7, <1>8, <1>9, <1>10, OnceFrame

\* Nothing comes any more from a backend that has ended.
LEMMA StopOnce ==
    ASSUME Counted, Counted', OnceInv, NEW p \in Peers, Stop(p)
    PROVE  OnceInv'
<1>1. /\ TypeOK /\ cmds' = [cmds EXCEPT ![p] = <<>>] /\ thread' = [thread EXCEPT ![p] = "exited"]
      /\ streamReg' = [streamReg EXCEPT ![p] = <<>>] /\ opening' = [opening EXCEPT ![p] = <<>>]
      /\ unreliable' = {k \in unreliable : Owner(k[1]) # p}
      /\ UNCHANGED <<events, next_stream_id, opened, taken, net>>
  BY DEF Counted, Stop, ThreadExits
<1>2. /\ cmds'[p] = <<>> /\ streamReg'[p] = <<>> /\ opening'[p] = <<>> /\ thread'[p] = "exited"
      /\ \A q \in Peers \ {p} : /\ cmds'[q] = cmds[q] /\ streamReg'[q] = streamReg[q]
                                /\ opening'[q] = opening[q] /\ thread'[q] = thread[q]
  BY <1>1 DEF TypeOK, PeerTypeOK, CommandsTypeOK, ThreadsTypeOK, MapTypeOK, LoopTypeOK
<1>3. DatagramsOK' /\ HandlesOK'
  <2>1. \A q \in Peers : \A r \in Elems(streamReg'[q]) : r \in Elems(streamReg[q])
    BY <1>2 DEF Elems
  <2>. QED
    BY <1>1, <2>1, KindsKept
<1>4. ASSUME NEW f \in Ends, NEW s \in StreamId PROVE Taken(f, s)' = Taken(f, s)
  BY <1>1, <1>4, TakenKept
<1>5. ASSUME NEW f \in Ends, NEW s \in StreamId, Owner(f) = p PROVE OnceOK(f, s)'
  <2>1. CountsOK(f, s) /\ CountsOK(f, s)' /\ OnceOK(f, s)
    BY <1>5 DEF Counted, OnceInv
  <2>2. Called(f, s)' = 0 /\ Closing(f, s)' = 0 /\ Registered(f, s)' = 0
    <3>1. \A X : Count(<<>>, X) = 0
      BY CountEmpty
    <3>. QED
      BY <1>2, <1>5, <3>1 DEF Called, CallsFor, Closing, CloseStreamCmd, Registered, RegistrationsOf
  <2>3. Awaited(f, s)' = 0 /\ Listed(f, s)' = 1
    BY <1>2, <1>5 DEF Awaited, Listed
  <2>4. /\ Announcements(f, s)' = Announcements(f, s) /\ Closes(f, s)' = Closes(f, s)
        /\ ByCall(f, s)' = ByCall(f, s) /\ Made(f, s)' = Made(f, s) /\ Taken(f, s)' = Taken(f, s)
    BY <1>1, <1>4, <1>5, OnceKept
  <2>5. IsReliable(s)' <=> IsReliable(s)
    BY DEF IsReliable
  <2>. QED
    BY <2>1, <2>2, <2>3, <2>4, <2>5 DEF OnceOK, CountsOK
<1>6. ASSUME NEW f \in Ends, NEW s \in StreamId, Owner(f) # p
      PROVE  <<f, s>> \in unreliable' <=> <<f, s>> \in unreliable
  <2>1. <<f, s>>[1] = f
    OBVIOUS
  <2>. QED
    BY <1>1, <1>6, <2>1
<1>. QED
  BY <1>1, <1>2, <1>3, <1>4, <1>5, <1>6, OnceFrame


-------------------------------------------------------------------------------
(* A stream is announced once: the other steps                             *)

\* Sends, also those that wait, and commands for a connection that is unknown.
LEMMA SendStepOnce ==
    ASSUME Counted, Counted', OnceInv, NEW p \in Peers, SendStep(p) \/ CreateDropped(p)
    PROVE  OnceInv'
<1>1. TypeOK
  BY DEF Counted
<1>2. ASSUME NEW type, HandlesQuietly(p, type), UNCHANGED mapVars, UNCHANGED <<opening, quinnVars>>
             \/ UNCHANGED <<opening, opened, taken>>,
             UNCHANGED events \/ \E e \in EndsOf(p) : Emit(p, <<SendFailed(e)>>),
             \A d \in net' : d \in net \/ ~IsReliable(d[2].stream)
      PROVE  OnceInv'
  <2>1. cmds[p] # <<>> /\ TakeCommand(p) /\ UNCHANGED <<next_stream_id, thread>>
    BY <1>1, <1>2, QuietType
  <2>2. events' = events \/ \E y \in Events[p] :
            Emit(p, <<y>>) /\ y.type \notin {"StreamCreated", "StreamClosed"}
    BY <1>2, EventTypes DEF SendFailed
  <2>. QED
    BY <1>2, <2>1, <2>2, QuietOnce DEF mapVars, quinnVars
<1>3. CASE SendDropped(p)
  BY <1>2, <1>3 DEF SendDropped, quicVars, loopVars
<1>4. CASE SendWritten(p)
  BY <1>2, <1>4 DEF SendWritten, SendsReliably, loopVars
<1>5. CASE SendWaits(p)
  BY <1>2, <1>5 DEF SendWaits, SendsReliably, quinnVars
<1>6. CASE SendDatagram(p)
  <2>1. net' = net \cup {<<Other(HeadEnd(p)), HeadPacket(p)>>} /\ ~IsReliable(HeadPacket(p).stream)
    BY <1>6 DEF SendDatagram
  <2>2. \A d \in net' : d \in net \/ ~IsReliable(d[2].stream)
    BY <2>1
  <2>. QED
    BY <1>2, <1>6, <2>2 DEF SendDatagram, loopVars
<1>7. CASE SendFails(p)
  <2>1. HandlesQuietly(p, "Send") /\ Emit(p, <<SendFailed(HeadEnd(p))>>) /\ UNCHANGED quicVars
    BY <1>7 DEF SendFails
  <2>2. HeadEnd(p) \in EndsOf(p)
    BY <1>1, <2>1, QuietType, HeadParts
  <2>. QED
    BY <1>2, <2>1, <2>2 DEF quicVars, loopVars
<1>8. CASE CreateDropped(p)
  BY <1>2, <1>8 DEF CreateDropped, quicVars, loopVars
<1>. QED
  BY <1>3, <1>4, <1>5, <1>6, <1>7, <1>8 DEF SendStep

LEMMA WriteOnce ==
    ASSUME Counted, Counted', OnceInv, NEW p \in Peers, WriteResumes(p) \/ WriteFails(p)
    PROVE  OnceInv'
<1>1. CASE WriteResumes(p)
  BY <1>1, QuietOnce DEF WriteResumes, peerVars, mapVars
<1>2. CASE WriteFails(p)
  <2>1. TypeOK /\ writing[p] # <<>> /\ Emit(p, <<SendFailed(Writer(Head(writing[p]).half))>>)
        /\ UNCHANGED <<cmds, next_stream_id, thread, mapVars, opening, quinnVars, net>>
    BY <1>2 DEF WriteFails, Counted
  <2>2. Writer(Head(writing[p]).half) \in EndsOf(p)
    BY <2>1, WritingHead
  <2>3. PICK y \in Events[p] :
            Emit(p, <<y>>) /\ y.type \notin {"StreamCreated", "StreamClosed"}
    BY <2>1, <2>2, EventTypes DEF SendFailed
  <2>. QED
    BY <2>1, <2>3, QuietOnce DEF mapVars, quinnVars
<1>. QED
  BY <1>1, <1>2

\* What listens and dials, accepts and ends connections.
LEMMA ConnectionOnce ==
    ASSUME Counted, Counted', OnceInv,
           \/ Bind \/ RegisterConnection \/ Accept \/ HandshakeFails
           \/ \E c \in Clients : Connect(c)
           \/ \E e \in Ends : Lose(e)
    PROVE  OnceInv'
<1>1. TypeOK /\ TypeOK' /\ Server \in Peers
  BY ServerIsPeer DEF Counted
<1>2. CASE Bind
  <2>1. HandlesQuietly(Server, "Bind") /\ UNCHANGED <<events, mapVars, loopVars, quinnVars, net>>
    BY <1>2 DEF Bind
  <2>2. cmds[Server] # <<>> /\ TakeCommand(Server) /\ UNCHANGED <<next_stream_id, thread>>
    BY <1>1, <2>1, QuietType
  <2>. QED
    BY <1>1, <2>1, <2>2, QuietOnce DEF mapVars, loopVars, quinnVars
<1>3. CASE RegisterConnection
  BY <1>1, <1>3, QuietOnce DEF RegisterConnection, peerVars, loopVars, quinnVars
<1>4. CASE Accept
  <2>1. PICK a \in AcceptEnds : a = Head(backlog)
    BY <1>1, <1>4, HeadTailProperties DEF TypeOK, AcceptTypeOK, Accept
  <2>2. PICK y \in Events[Server] :
            Emit(Server, <<y>>) /\ y.type \notin {"StreamCreated", "StreamClosed"}
    BY <1>1, <1>4, <2>1, AcceptEndFacts, EventTypes DEF Accept, Connected
  <2>. QED
    BY <1>1, <1>4, <2>2, QuietOnce DEF Accept, mapVars, loopVars
<1>5. CASE HandshakeFails
  <2>1. CASE Stop(Server)
    BY <1>1, <2>1, StopOnce
  <2>2. CASE ~Stop(Server)
    <3>1. UNCHANGED <<peerVars, mapVars, loopVars, quinnVars, net>>
      BY <1>5, <2>2 DEF HandshakeFails
    <3>. QED
      BY <1>1, <3>1, QuietOnce DEF peerVars, mapVars, loopVars, quinnVars
  <2>. QED
    BY <2>1, <2>2
<1>6. ASSUME NEW c \in Clients, Connect(c) PROVE OnceInv'
  <2>1. PICK e \in Ends : e = <<c, "dial">> /\ c \in Peers /\ e \in EndsOf(c)
    BY ClientEnds, EndFacts
  <2>2. /\ HandlesQuietly(c, "Connect") /\ Emit(c, <<Connected(e)>>)
        /\ UNCHANGED <<streamReg, unreliable, loopVars, opened, taken, net>>
    BY <1>6, <2>1 DEF Connect
  <2>3. cmds[c] # <<>> /\ TakeCommand(c) /\ UNCHANGED <<next_stream_id, thread>>
    BY <1>1, <2>1, <2>2, QuietType
  <2>4. PICK y \in Events[c] :
            Emit(c, <<y>>) /\ y.type \notin {"StreamCreated", "StreamClosed"}
    BY <2>1, <2>2, EventTypes DEF Connected
  <2>. QED
    BY <2>1, <2>2, <2>3, <2>4, QuietOnce DEF loopVars
<1>7. ASSUME NEW e \in Ends, Lose(e) PROVE OnceInv'
  BY <1>1, <1>7, QuietOnce DEF Lose, peerVars, mapVars, loopVars
<1>. QED
  BY <1>2, <1>3, <1>4, <1>5, <1>6, <1>7

LEMMA ReadHalfOnce ==
    ASSUME Counted, Counted', OnceInv, NEW h \in Halves, ReadHalf(h)
    PROVE  OnceInv'
<1>1. CASE ReadFrame(h)
  <2>1. PICK e \in Ends, m \in Packet :
            /\ Emit(Owner(e), <<Message(e, m)>>)
            /\ UNCHANGED <<cmds, next_stream_id, thread, mapVars, loopVars, opened, taken, net>>
    BY <1>1, FrameParts DEF Counted
  <2>2. PICK p \in Peers : p = Owner(e) /\ e \in EndsOf(p)
    BY EndFacts
  <2>3. PICK y \in Events[p] :
            Emit(p, <<y>>) /\ y.type \notin {"StreamCreated", "StreamClosed"}
    BY <2>1, <2>2, EventTypes DEF Message
  <2>. QED
    BY <2>1, <2>3, QuietOnce DEF mapVars, loopVars
<1>2. CASE ReadEnd(h)
  BY <1>2, ServerIsPeer, QuietOnce DEF ReadEnd, peerVars, mapVars, loopVars
<1>. QED
  BY <1>1, <1>2 DEF ReadHalf

-------------------------------------------------------------------------------
LEMMA OnceInit == Init => OnceInv
<1> SUFFICES ASSUME Init PROVE OnceInv
  OBVIOUS
<1>1. /\ \A p \in Peers : /\ cmds[p] = <<>> /\ events[p] = <<>> /\ streamReg[p] = <<>>
                          /\ opening[p] = <<>>
      /\ \A e \in Ends : opened[e] = <<>> /\ taken[e] = 0
      /\ net = {}
  BY DEF Init, PeerInit
<1>2. TypeOK
  BY InitType DEF IndType
<1>3. DatagramsOK /\ HandlesOK
  BY <1>1 DEF DatagramsOK, HandlesOK, Elems
<1>4. ASSUME NEW e \in Ends, NEW s \in StreamId PROVE OnceOK(e, s)
  <2>1. Owner(e) \in Peers /\ CountsOK(e, s)
    BY <1>2, EndFacts, CountedType DEF Counted
  <2>2. \A X : Count(<<>>, X) = 0
    BY CountEmpty
  <2>3. /\ Announcements(e, s) = 0 /\ Closes(e, s) = 0 /\ Called(e, s) = 0 /\ Closing(e, s) = 0
        /\ Registered(e, s) = 0 /\ Made(e, s) = 0
    BY <1>1, <2>1, <2>2 DEF Announcements, Closes, Called, Closing, Registered, Made
  <2>4. Awaited(e, s) = 0
    BY <1>1, <2>1 DEF Awaited
  <2>. QED
    BY <2>1, <2>3, <2>4 DEF OnceOK, CountsOK
<1>. QED
  BY <1>3, <1>4 DEF OnceInv

LEMMA OnceNext ==
    ASSUME MaxStreams <= Slots, Counted, Counted', OnceInv, [Next]_vars
    PROVE  OnceInv'
<1>1. TypeOK
  BY DEF Counted
<1>2. ASSUME NEW p \in Peers, HandleCommand(p) PROVE OnceInv'
  <2>1. CASE BindFails \/ ConnectFails(p) \/ CreatePanics(p) \/ BackendShutdown(p)
    <3>1. Panic(Server) \/ Panic(p) \/ BackendShutdown(p)
      BY <2>1 DEF BindFails, ConnectFails, CreatePanics
    <3>2. Stop(Server) \/ Stop(p)
      BY <3>1 DEF Panic, BackendShutdown
    <3>. QED
      BY <3>2, ServerIsPeer, StopOnce
  <2>2. CASE Bind \/ (p \in Clients /\ Connect(p))
    BY <2>2, ConnectionOnce
  <2>3. CASE SendStep(p) \/ CreateDropped(p)
    BY <2>3, SendStepOnce
  <2>4. CASE CreateReliable(p) \/ CreateWaits(p) \/ CreateUnreliable(p)
    BY <2>4, CreateReliableOnce, CreateWaitsOnce, CreateUnreliableOnce
  <2>5. CASE BackendCloseStream(p)
    BY <2>5, BackendCloseOnce
  <2>. QED
    BY <1>2, <2>1, <2>2, <2>3, <2>4, <2>5 DEF HandleCommand, CreateStep
<1>3. ASSUME NEW p \in Peers, Resume(p) PROVE OnceInv'
  <2>1. CASE OpeningPanics(p)
    BY <2>1, StopOnce DEF OpeningPanics, Panic
  <2>. QED
    BY <1>3, <2>1, WriteOnce, CreateResumesOnce DEF Resume
<1>4. ASSUME NEW d \in net, ReadDatagram(d[1], d[2]) PROVE OnceInv'
  <2>1. d[1] \in Ends /\ d[2] \in Packet
    BY <1>1 DEF TypeOK, HistoryTypeOK
  <2>. QED
    BY <1>4, <2>1, ReadDatagramOnce
<1>5. ASSUME NEW e \in Ends, AcceptStream(e) \/ Break(e) \/ Notice(e) PROVE OnceInv'
  BY <1>5, AcceptStreamOnce, ConnectionOnce DEF Break, Notice
<1>6. CASE UNCHANGED vars
  BY <1>6, ServerIsPeer, QuietOnce
  DEF vars, quicVars, peerVars, mapVars, loopVars, quinnVars
<1>. QED
  BY <1>2, <1>3, <1>4, <1>5, <1>6, AppOnce, RegisterStreamOnce, ConnectionOnce, ReadHalfOnce
  DEF Next


\* What is accepted from the other side was opened there.
LEMMA TakenMade ==
    ASSUME TypeOK, NEW e \in Ends, NEW s \in StreamId
    PROVE  Taken(e, s) <= Made(Other(e), s)
<1>1. /\ Other(e) \in Ends /\ opened[Other(e)] \in Seq(StreamId)
      /\ taken[e] \in Nat /\ taken[e] <= Len(opened[Other(e)])
  BY EndFacts DEF TypeOK, QuinnTypeOK
<1>2. TakenAt(e, s) \subseteq At(opened[Other(e)], Indices(s))
  BY <1>1 DEF TakenAt, At
<1>3. IsFiniteSet(At(opened[Other(e)], Indices(s)))
  BY <1>1, CountType
<1>. QED
  BY <1>2, <1>3, FS_Subset DEF Taken, Made, Count

LEMMA OnceSuffices ==
    ASSUME \A e \in Creators : Other(e) \notin Creators, Counted, OnceInv
    PROVE  AnnouncedOnce
<1> SUFFICES ASSUME NEW e \in Ends, NEW s \in StreamId
             PROVE  Announced(e, s) <= IF /\ Contains(events[Owner(e)], StreamClosed(e, s))
                                          /\ ~IsReliable(s)
                                       THEN 2 ELSE 1
  BY DEF AnnouncedOnce
<1>1. /\ CountsOK(e, s) /\ OnceOK(e, s) /\ Other(e) \in Ends
      /\ CountsOK(Other(e), s) /\ OnceOK(Other(e), s)
  BY EndFacts DEF Counted, OnceInv
<1>2. Announced(e, s) = Announcements(e, s)
  BY DEF Announced, Announcements, Count, At
<1>3. CASE IsReliable(s)
  <2>1. ByCall(e, s) = 0 \/ ByCall(Other(e), s) = 0
    BY DEF ByCall
  <2>2. Taken(e, s) <= Made(Other(e), s) /\ Made(Other(e), s) <= ByCall(Other(e), s)
    BY <1>1, TakenMade DEF Counted, OnceOK, CountsOK
  <2>3. Announcements(e, s) <= ByCall(e, s) + Taken(e, s)
    BY <1>1, <1>3 DEF OnceOK, CountsOK
  <2>4. Announcements(e, s) <= 1
    BY <1>1, <2>1, <2>2, <2>3 DEF CountsOK
  <2>. QED
    BY <1>2, <1>3, <2>4
<1>4. CASE ~IsReliable(s)
  <2>1. Announcements(e, s) <= Closes(e, s) + 1 /\ Closes(e, s) <= 1
    BY <1>1, <1>4 DEF OnceOK, CountsOK
  <2>2. CASE Contains(events[Owner(e)], StreamClosed(e, s))
    BY <1>1, <1>2, <1>4, <2>1, <2>2 DEF CountsOK
  <2>3. CASE ~Contains(events[Owner(e)], StreamClosed(e, s))
    <3>1. Closes(e, s) = 0
      <4>1. events[Owner(e)] \in Seq(Events[Owner(e)])
        BY EndFacts, QueueTypes DEF Counted
      <4>2. \A i \in DOMAIN events[Owner(e)] : events[Owner(e)][i] \notin {StreamClosed(e, s)}
        BY <2>3, <4>1 DEF Contains
      <4>. QED
        BY <4>1, <4>2, CountNone DEF Closes
    <3>2. Announcements(e, s) <= 1
      BY <1>1, <2>1, <3>1 DEF CountsOK
    <3>. QED
      BY <1>2, <2>3, <3>2
  <2>. QED
    BY <2>2, <2>3
<1>. QED
  BY <1>3, <1>4

(***************************************************************************)
(* A stream is announced once on each side, through calls on one side,     *)
(* streams that wait for room, lost and late datagrams and the ends of     *)
(* backends.  The indices have slots of their own, and only one side of a  *)
(* connection creates streams: both sides number theirs from one, and the  *)
(* streams of the two would share their handles.                           *)
(***************************************************************************)
THEOREM AnnouncedTheorem ==
    ASSUME MaxStreams <= Slots, \A e \in Creators : Other(e) \notin Creators
    PROVE  Spec => []AnnouncedOnce
<1>1. Counted /\ OnceInv => AnnouncedOnce
  BY OnceSuffices
<1>2. Counted /\ Counted' /\ OnceInv /\ [Next]_vars => OnceInv'
  BY OnceNext
<1>3. IndType => TypeOK
  BY DEF IndType
<1>. QED
  BY <1>1, <1>2, <1>3, CountedType, InitType, NextType, OnceInit, PTL DEF Spec


(***************************************************************************)
(* Part five: the backends implement the reliable links.                   *)
(***************************************************************************)

-------------------------------------------------------------------------------
(* The inductive invariant.  What was accepted on a stream and not given to *)
(* the application is in the half of one stream of QUIC: this would break   *)
(* if two streams of QUIC had the handle of one GameStream, if the maps or  *)
(* the loop held a stream of QUIC under another's handle, or if a half had  *)
(* frames before the loop could name them.                                  *)

\* q is a stream of QUIC that was opened for the handle s.
Carries(q, s) ==
    q[2] \in DOMAIN opened[q[1]] /\ NewStream(opened[q[1]][q[2]], "Reliable") = s

Labelled(f, s) == \A m \in Elems(f) : m.stream = s

LanesOK ==
    \A e \in Ends, s \in StreamId : \A q \in StreamsOf(e) :
        Carries(q, s) => /\ accepted[<<e, s>>] = delivered[<<Other(e), s>>] \o pipe[<<q, e>>]
                         /\ Labelled(pipe[<<q, e>>], s)

Opened(q) == q[2] \in DOMAIN opened[q[1]]

UnopenedOK == \A h \in Halves : ~Opened(h[1]) => pipe[h] = <<>>

\* Nothing is accepted or delivered on a stream before a stream of QUIC is opened for it.
UnusedOK ==
    \A e \in Ends, s \in StreamId :
        IsReliable(s) /\ (\A q \in StreamsOf(e) : ~Carries(q, s)) =>
            accepted[<<e, s>>] = <<>> /\ delivered[<<Other(e), s>>] = <<>>

TransportOK == LanesOK /\ UnopenedOK /\ UnusedOK

Names(q, s) == q # NoStream => Carries(q, s)

MapNames == \A k \in Key : Names(reliable[k], k[2])

RegistrationNames == \A p \in Peers : \A r \in Elems(streamReg[p]) : Names(r.quic, r.stream)

Frame(p) == Head(writing[p])

WritingNames == \A p \in Peers : writing[p] # <<>> => Carries(Frame(p).half[1], Frame(p).packet.stream)

NamesOK == MapNames /\ RegistrationNames /\ WritingNames

\* The loops of a closed connection have ended.
OutlivesNone == \A h \in Halves : reading[h] = "running" => conn[Reader(h)] # "closed"

LanesInv == TransportOK /\ NamesOK /\ OutlivesNone

-------------------------------------------------------------------------------
(* Streams and their handles *)

LEMMA TransportTypes ==
    ASSUME TypeOK
    PROVE  /\ accepted \in [Key -> Seq(Packet)] /\ delivered \in [Key -> Seq(Packet)]
           /\ pipe \in [Halves -> Seq(Packet)] /\ reading \in [Halves -> {"none", "running", "done"}]
           /\ DOMAIN opened = Ends /\ \A e \in Ends : opened[e] \in Seq(StreamId)
           /\ conn \in [Ends -> {"none", "up", "lost", "closed"}]
           /\ DOMAIN streamReg = Peers /\ \A p \in Peers : streamReg[p] \in Seq(Registration(p))
BY DEF TypeOK, HistoryTypeOK, QuinnTypeOK, MapTypeOK

LEMMA StreamParts ==
    ASSUME NEW e \in Ends, NEW q \in StreamsOf(e)
    PROVE  /\ q = <<q[1], q[2]>> /\ q[1] \in Ends /\ q[1] \in {e, Other(e)}
           /\ q[2] \in 1 .. MaxStreams
BY EndFacts DEF StreamsOf

LEMMA HalfStreams ==
    ASSUME NEW h \in Halves
    PROVE  /\ h[1] \in StreamsOf(Writer(h)) /\ h[1] \in StreamsOf(Reader(h))
           /\ h = <<h[1], Writer(h)>> /\ Other(Writer(h)) = Reader(h) /\ Other(Reader(h)) = Writer(h)
           /\ Writer(h) \in Ends /\ Reader(h) \in Ends
<1>1. /\ h[1] \in QuicStream /\ h[1][1] \in Ends /\ h[1][2] \in 1 .. MaxStreams
      /\ Writer(h) \in Ends /\ Reader(h) \in Ends /\ Reader(h) = Other(Writer(h))
      /\ h = <<h[1], h[2]>> /\ Writer(h) = h[2] /\ h[2] \in {h[1][1], Other(h[1][1])}
  BY HalfFacts
<1>2. /\ Other(Other(h[1][1])) = h[1][1] /\ Other(Reader(h)) = Writer(h)
  BY <1>1, EndFacts
<1>3. h[1][1] \in {Writer(h), Reader(h)}
  BY <1>1, <1>2
<1>4. h[1] = <<h[1][1], h[1][2]>>
  BY <1>1 DEF QuicStream
<1>. QED
  BY <1>1, <1>2, <1>3, <1>4 DEF StreamsOf

LEMMA ReliableHandle ==
    ASSUME TypeOK, NEW e \in Ends, NEW q \in StreamsOf(e), NEW s, Carries(q, s)
    PROVE  s \in StreamId /\ IsReliable(s) /\ Opened(q)
<1>1. opened[q[1]][q[2]] \in StreamId
  BY StreamParts, TransportTypes DEF Carries
<1>. QED
  BY <1>1, NewHandle, HandleKinds DEF Carries, Opened, Reliability

\* What is counted once is there once.
LEMMA OncePlace ==
    ASSUME NEW S, NEW s \in Seq(S), NEW X, Count(s, X) <= 1,
           NEW i \in At(s, X), NEW j \in At(s, X)
    PROVE  i = j
<1>1. IsFiniteSet(At(s, X)) /\ Count(s, X) \in Nat
  BY CountType
<1>2. Cardinality(At(s, X)) # 0
  BY <1>1, FS_EmptySet
<1>3. PICK x : At(s, X) = {x}
  BY <1>1, <1>2, FS_Singleton DEF Count
<1>. QED
  BY <1>3

\* One stream of QUIC is opened for a handle, while one side creates.
OwnStreams ==
    \A e \in Ends : \A q, r \in StreamsOf(e) : \A s \in StreamId :
        Carries(q, s) /\ Carries(r, s) => q = r

LEMMA OneCarries ==
    ASSUME \A e \in Creators : Other(e) \notin Creators, Counted, OnceInv
    PROVE  OwnStreams
<1> SUFFICES ASSUME NEW e \in Ends, NEW q \in StreamsOf(e), NEW r \in StreamsOf(e),
                    NEW s \in StreamId, Carries(q, s), Carries(r, s)
             PROVE  q = r
  BY DEF OwnStreams
<1>1. TypeOK
  BY DEF Counted
<1>2. ASSUME NEW f \in Ends
      PROVE  /\ Made(f, s) \in Nat /\ Made(f, s) <= 1 /\ opened[f] \in Seq(StreamId)
             /\ f \notin Creators => Made(f, s) = 0
             /\ \A i \in DOMAIN opened[f] :
                    NewStream(opened[f][i], "Reliable") = s => i \in At(opened[f], Indices(s))
  <2>1. CountsOK(f, s) /\ OnceOK(f, s)
    BY <1>1 DEF Counted, OnceInv
  <2>2. Made(f, s) \in Nat /\ Made(f, s) <= ByCall(f, s) /\ ByCall(f, s) \in {0, 1}
    BY <2>1 DEF CountsOK, OnceOK
  <2>3. opened[f] \in Seq(StreamId) /\ \A i \in DOMAIN opened[f] : opened[f][i] \in StreamId
    BY <1>1, TransportTypes
  <2>. QED
    BY <2>2, <2>3 DEF ByCall, At, Indices
<1>3. ASSUME NEW t \in StreamsOf(e), Carries(t, s)
      PROVE  t[2] \in At(opened[t[1]], Indices(s)) /\ Made(t[1], s) # 0
  <2>1. t[1] \in Ends /\ t[2] \in At(opened[t[1]], Indices(s))
    BY <1>2, <1>3, StreamParts DEF Carries
  <2>2. IsFiniteSet(At(opened[t[1]], Indices(s)))
    BY <1>2, <2>1, CountType
  <2>. QED
    BY <2>1, <2>2, FS_EmptySet DEF Made, Count
<1>4. q[1] = r[1]
  <2>1. q[1] \in Creators /\ r[1] \in Creators
    BY <1>2, <1>3, StreamParts
  <2>2. q[1] \in {e, Other(e)} /\ r[1] \in {e, Other(e)} /\ Other(Other(e)) = e
    BY StreamParts, EndFacts
  <2>. QED
    BY <2>1, <2>2
<1>5. q[2] = r[2]
  BY <1>2, <1>3, <1>4, StreamParts, OncePlace DEF Made
<1>. QED
  BY <1>4, <1>5, StreamParts


\* What was opened stays open under its handle.
LEMMA CarriesStays ==
    ASSUME UNCHANGED opened
    PROVE  /\ \A q, s : Carries(q, s)' <=> Carries(q, s)
           /\ \A q : Opened(q)' <=> Opened(q)
           /\ \A q, s : Names(q, s)' <=> Names(q, s)
BY DEF Carries, Opened, Names

LEMMA OpenCarries ==
    ASSUME TypeOK, NEW e \in Ends, NEW i \in StreamId,
           opened' = [opened EXCEPT ![e] = Append(@, i)],
           NEW f \in Ends, NEW k \in 1 .. MaxStreams
    PROVE  /\ Opened(<<f, k>>)' <=> Opened(<<f, k>>) \/ (f = e /\ k = Len(opened[e]) + 1)
           /\ f = e /\ k = Len(opened[e]) + 1 => ~Opened(<<f, k>>)
           /\ \A s : Carries(<<f, k>>, s)' <=>
                         \/ Carries(<<f, k>>, s)
                         \/ f = e /\ k = Len(opened[e]) + 1 /\ s = NewStream(i, "Reliable")
<1>1. /\ opened[e] \in Seq(StreamId) /\ DOMAIN opened = Ends /\ Len(opened[e]) \in Nat
      /\ DOMAIN opened[e] = 1 .. Len(opened[e])
  BY TransportTypes, LenProperties
<1>2. PICK t : t = Append(opened[e], i)
  OBVIOUS
<1>3. PICK n \in Nat : n = Len(opened[e]) + 1
  BY <1>1
<1>4. /\ DOMAIN t = 1 .. n /\ t[n] = i /\ \A x \in 1 .. Len(opened[e]) : t[x] = opened[e][x]
  BY <1>1, <1>2, <1>3, AppendProperties
<1>5. opened'[e] = t /\ \A g \in Ends \ {e} : opened'[g] = opened[g]
  BY <1>1, <1>2
<1>6. CASE f = e
  BY <1>1, <1>3, <1>4, <1>5, <1>6 DEF Opened, Carries
<1>7. CASE f # e
  BY <1>1, <1>5, <1>7 DEF Opened, Carries
<1>. QED
  BY <1>6, <1>7

\* What was opened stays open when another is opened.
LEMMA OpenKeeps ==
    ASSUME TypeOK, NEW e \in Ends, NEW i \in StreamId,
           opened' = [opened EXCEPT ![e] = Append(@, i)],
           NEW q, NEW s, q[1] \in Ends, Carries(q, s)
    PROVE  Carries(q, s)'
<1>1. /\ opened[e] \in Seq(StreamId) /\ DOMAIN opened = Ends /\ Len(opened[e]) \in Nat
      /\ DOMAIN opened[e] = 1 .. Len(opened[e])
  BY TransportTypes, LenProperties
<1>2. /\ DOMAIN Append(opened[e], i) = 1 .. Len(opened[e]) + 1
      /\ \A x \in 1 .. Len(opened[e]) : Append(opened[e], i)[x] = opened[e][x]
  BY <1>1, AppendProperties
<1>3. opened'[e] = Append(opened[e], i) /\ \A g \in Ends \ {e} : opened'[g] = opened[g]
  BY <1>1
<1>. QED
  BY <1>1, <1>2, <1>3 DEF Carries

-------------------------------------------------------------------------------
(* What is on its way: the frames                                          *)

LEMMA PutInOrder ==
    ASSUME NEW d \in Seq(Packet), NEW p \in Seq(Packet), NEW m \in Packet
    PROVE  Append(d \o p, m) = d \o Append(p, m)
<1>1. d \o p \in Seq(Packet) /\ <<m>> \in Seq(Packet)
  BY ConcatProperties
<1>2. Append(d \o p, m) = (d \o p) \o <<m>> /\ Append(p, m) = p \o <<m>>
  BY <1>1, AppendIsConcat
<1>3. (d \o p) \o <<m>> = d \o (p \o <<m>>)
  BY <1>1, ConcatAssociative
<1>. QED
  BY <1>2, <1>3

LEMMA ReadInOrder ==
    ASSUME NEW d \in Seq(Packet), NEW p \in Seq(Packet), p # <<>>
    PROVE  d \o p = Append(d, Head(p)) \o Tail(p)
<1>1. /\ Head(p) \in Packet /\ Tail(p) \in Seq(Packet) /\ <<Head(p)>> \in Seq(Packet)
      /\ p = <<Head(p)>> \o Tail(p)
  BY HeadTailProperties, HeadTailConcat
<1>2. PICK h \in Packet, t \in Seq(Packet) : h = Head(p) /\ t = Tail(p)
  BY <1>1
<1>3. Append(d, h) = d \o <<h>> /\ (d \o <<h>>) \o t = d \o (<<h>> \o t)
  BY AppendIsConcat, ConcatAssociative
<1>. QED
  BY <1>1, <1>2, <1>3

\* A step that leaves the frames, and the reliable streams.
LEMMA TransportFrame ==
    ASSUME TypeOK, TransportOK, UNCHANGED <<opened, pipe>>,
           \A k \in Key : IsReliable(k[2]) =>
               accepted'[k] = accepted[k] /\ delivered'[k] = delivered[k]
    PROVE  TransportOK'
<1>1. ASSUME NEW e \in Ends, NEW s \in StreamId, IsReliable(s)
      PROVE  /\ accepted'[<<e, s>>] = accepted[<<e, s>>]
             /\ delivered'[<<Other(e), s>>] = delivered[<<Other(e), s>>]
  BY <1>1, KeyFacts, EndFacts
<1>2. \A q, s : Carries(q, s)' <=> Carries(q, s)
  BY CarriesStays
<1>3. \A q : Opened(q)' <=> Opened(q)
  BY CarriesStays
<1>4. LanesOK'
  <2> SUFFICES ASSUME NEW e \in Ends, NEW s \in StreamId, NEW q \in StreamsOf(e), Carries(q, s)'
               PROVE  /\ accepted'[<<e, s>>] = delivered'[<<Other(e), s>>] \o pipe'[<<q, e>>]
                      /\ Labelled(pipe[<<q, e>>], s)'
    BY DEF LanesOK
  <2>1. Carries(q, s) /\ IsReliable(s)
    BY <1>2, ReliableHandle
  <2>2. /\ accepted[<<e, s>>] = delivered[<<Other(e), s>>] \o pipe[<<q, e>>]
        /\ Labelled(pipe[<<q, e>>], s) /\ pipe' = pipe
    BY <2>1 DEF TransportOK, LanesOK
  <2>3. Labelled(pipe[<<q, e>>], s)'
    BY <2>2 DEF Labelled, Elems
  <2>. QED
    BY <1>1, <2>1, <2>2, <2>3
<1>5. UnopenedOK'
  BY <1>3 DEF TransportOK, UnopenedOK
<1>6. UnusedOK'
  <2> SUFFICES ASSUME NEW e \in Ends, NEW s \in StreamId, IsReliable(s),
                      \A q \in StreamsOf(e) : ~Carries(q, s)'
               PROVE  accepted'[<<e, s>>] = <<>> /\ delivered'[<<Other(e), s>>] = <<>>
    BY DEF UnusedOK, IsReliable
  <2>. QED
    BY <1>1, <1>2 DEF TransportOK, UnusedOK
<1>. QED
  BY <1>4, <1>5, <1>6 DEF TransportOK

\* The frames of another half and the packets of another key are as before.
LEMMA OtherLane ==
    ASSUME OwnStreams,
           NEW h \in Halves, NEW e \in Ends, NEW s \in StreamId, NEW q \in StreamsOf(e),
           NEW t, Carries(q, s), Carries(h[1], t), <<q, e>> # h
    PROVE  <<e, s>> # <<Writer(h), t>> /\ <<Other(e), s>> # <<Reader(h), t>>
<1>1. /\ h[1] \in StreamsOf(Writer(h)) /\ h = <<h[1], Writer(h)>> /\ Other(Reader(h)) = Writer(h)
      /\ Other(Other(e)) = e /\ Writer(h) \in Ends
  BY HalfStreams, EndFacts
<1>2. CASE e = Writer(h) /\ s = t
  <2>1. q = h[1]
    BY <1>1, <1>2 DEF OwnStreams
  <2>. QED
    BY <1>1, <1>2, <2>1
<1>. QED
  BY <1>1, <1>2


LEMMA PutTransport ==
    ASSUME TypeOK, OwnStreams, TransportOK,
           NEW h \in Halves, NEW m \in Packet, Put(h, m), Carries(h[1], m.stream),
           UNCHANGED <<opened, delivered>>
    PROVE  TransportOK'
<1>1. TypeOK
  OBVIOUS
<1>2. PICK w \in Ends, t \in StreamId, r \in QuicStream :
          /\ w = Writer(h) /\ t = m.stream /\ r = h[1] /\ h = <<r, w>> /\ Reader(h) = Other(w)
          /\ r \in StreamsOf(w)
  BY HalfStreams, HalfFacts DEF Packet
<1>3. /\ pipe \in [Halves -> Seq(Packet)] /\ accepted \in [Key -> Seq(Packet)]
      /\ delivered \in [Key -> Seq(Packet)] /\ pipe[h] \in Seq(Packet)
  BY <1>1, TransportTypes
<1>4. /\ pipe' = [pipe EXCEPT ![h] = Append(@, m)]
      /\ accepted' = [accepted EXCEPT ![<<w, t>>] = Append(@, m)] /\ <<w, t>> \in Key
  BY <1>2, KeyFacts DEF Put, Accepts
<1>5. /\ pipe'[h] = Append(pipe[h], m) /\ \A g \in Halves : g # h => pipe'[g] = pipe[g]
      /\ accepted'[<<w, t>>] = Append(accepted[<<w, t>>], m)
      /\ \A k \in Key : k # <<w, t>> => accepted'[k] = accepted[k]
  BY <1>3, <1>4
<1>6. \A q, s : Carries(q, s)' <=> Carries(q, s)
  BY CarriesStays
<1>7. \A q : Opened(q)' <=> Opened(q)
  BY CarriesStays
<1>8. IsReliable(t) /\ Opened(r) /\ Carries(r, t)
  BY <1>1, <1>2, ReliableHandle
<1>9. LanesOK'
  <2> SUFFICES ASSUME NEW e \in Ends, NEW s \in StreamId, NEW q \in StreamsOf(e), Carries(q, s)'
               PROVE  /\ accepted'[<<e, s>>] = delivered'[<<Other(e), s>>] \o pipe'[<<q, e>>]
                      /\ Labelled(pipe[<<q, e>>], s)'
    BY DEF LanesOK
  <2>1. /\ Carries(q, s) /\ <<q, e>> \in Halves /\ <<e, s>> \in Key /\ <<Other(e), s>> \in Key
        /\ accepted[<<e, s>>] = delivered[<<Other(e), s>>] \o pipe[<<q, e>>]
        /\ Labelled(pipe[<<q, e>>], s) /\ delivered' = delivered
    BY <1>6, StreamHalves, KeyFacts, EndFacts DEF TransportOK, LanesOK
  <2>2. CASE <<q, e>> = h
    <3>1. q = r /\ e = w
      BY <1>2, <2>2
    <3>2. s = t
      BY <1>2, <2>1, <3>1 DEF Carries
    <3>3. PICK d \in Seq(Packet), p \in Seq(Packet) : d = delivered[<<Other(e), s>>] /\ p = pipe[h]
      BY <1>3, <2>1
    <3>4. Append(d \o p, m) = d \o Append(p, m)
      BY <3>3, PutInOrder
    <3>5. accepted'[<<e, s>>] = delivered'[<<Other(e), s>>] \o pipe'[<<q, e>>]
      BY <1>5, <2>1, <2>2, <3>1, <3>2, <3>3, <3>4
    <3>6. Elems(Append(p, m)) = Elems(p) \cup {m} /\ Labelled(p, s) /\ m.stream = s
      BY <1>2, <2>1, <2>2, <3>2, <3>3, ElemsAppend
    <3>7. pipe'[<<q, e>>] = Append(p, m)
      BY <1>5, <2>2, <3>3
    <3>. QED
      BY <3>5, <3>6, <3>7 DEF Labelled, Elems
  <2>3. CASE <<q, e>> # h
    <3>1. <<e, s>> # <<w, t>>
      BY <1>2, <1>8, <2>1, <2>3, OtherLane
    <3>2. pipe'[<<q, e>>] = pipe[<<q, e>>] /\ accepted'[<<e, s>>] = accepted[<<e, s>>]
      BY <1>5, <2>1, <2>3, <3>1
    <3>. QED
      BY <2>1, <3>2 DEF Labelled, Elems
  <2>. QED
    BY <2>2, <2>3
<1>10. UnopenedOK'
  BY <1>2, <1>5, <1>7, <1>8 DEF TransportOK, UnopenedOK
<1>11. UnusedOK'
  <2> SUFFICES ASSUME NEW e \in Ends, NEW s \in StreamId, IsReliable(s),
                      \A q \in StreamsOf(e) : ~Carries(q, s)'
               PROVE  accepted'[<<e, s>>] = <<>> /\ delivered'[<<Other(e), s>>] = <<>>
    BY DEF UnusedOK, IsReliable
  <2>1. <<e, s>> # <<w, t>> /\ <<e, s>> \in Key
    BY <1>2, <1>6, <1>8, KeyFacts
  <2>. QED
    BY <1>5, <1>6, <2>1 DEF TransportOK, UnusedOK
<1>. QED
  BY <1>9, <1>10, <1>11 DEF TransportOK

\* The frame that a reading loop takes is named by the stream it comes on.
LEMMA FrameRead ==
    ASSUME TypeOK, TransportOK, NEW h \in Halves, ReadFrame(h)
    PROVE  \E w \in Ends, t \in StreamId, r \in QuicStream, m \in Packet :
               /\ r \in StreamsOf(w) /\ h = <<r, w>> /\ w = Writer(h) /\ Reader(h) = Other(w)
               /\ Carries(r, t) /\ IsReliable(t) /\ m.stream = t
               /\ reading[h] = "running" /\ pipe[h] \in Seq(Packet) /\ pipe[h] # <<>>
               /\ m = Head(pipe[h]) /\ pipe' = [pipe EXCEPT ![h] = Tail(@)]
               /\ delivered' = [delivered EXCEPT ![<<Other(w), t>>] = Append(@, m)]
               /\ UNCHANGED <<accepted, opened>>
<1>1. PICK e \in Ends, x \in Packet :
               /\ e = Reader(h) /\ x = [Head(pipe[h]) EXCEPT !.stream = HandleOf(h)]
               /\ x.stream = HandleOf(h) /\ x.stream \in StreamId
               /\ reading[h] = "running" /\ pipe[h] # <<>>
               /\ pipe' = [pipe EXCEPT ![h] = Tail(@)]
               /\ delivered' = [delivered EXCEPT ![<<e, x.stream>>] = Append(@, x)]
               /\ UNCHANGED <<accepted, opened>>
  BY FrameParts
<1>2. PICK w \in Ends, r \in QuicStream :
          /\ w = Writer(h) /\ r = h[1] /\ h = <<r, w>> /\ Reader(h) = Other(w)
          /\ r \in StreamsOf(w)
  BY HalfStreams, HalfFacts
<1>3. pipe[h] \in Seq(Packet)
  BY TransportTypes
<1>4. Opened(r)
  BY <1>1, <1>2 DEF TransportOK, UnopenedOK
<1>5. PICK t \in StreamId : t = x.stream /\ t = HandleOf(h) /\ Carries(r, t)
  BY <1>1, <1>2, <1>4 DEF Opened, Carries, HandleOf
<1>6. PICK m \in Packet : m = Head(pipe[h])
  BY <1>1, <1>3, HeadTailProperties
<1>7. m \in Elems(pipe[h])
  BY <1>1, <1>3, <1>6, ElemsTail
<1>8. m.stream = t
  <2>1. Labelled(pipe[<<r, w>>], t)
    BY <1>2, <1>5 DEF TransportOK, LanesOK
  <2>. QED
    BY <1>2, <1>7, <2>1 DEF Labelled
<1>9. x = m
  BY <1>1, <1>5, <1>6, <1>8 DEF Packet
<1>. QED
  BY <1>1, <1>2, <1>3, <1>5, <1>6, <1>8, <1>9, ReliableHandle

LEMMA ReadTransport ==
    ASSUME TypeOK, OwnStreams, TransportOK,
           NEW h \in Halves, ReadFrame(h)
    PROVE  TransportOK'
<1>1. TypeOK
  OBVIOUS
<1>2. PICK w \in Ends, t \in StreamId, r \in QuicStream, m \in Packet :
               /\ r \in StreamsOf(w) /\ h = <<r, w>> /\ w = Writer(h) /\ Reader(h) = Other(w)
               /\ Carries(r, t) /\ IsReliable(t) /\ m.stream = t
               /\ reading[h] = "running" /\ pipe[h] \in Seq(Packet) /\ pipe[h] # <<>>
               /\ m = Head(pipe[h]) /\ pipe' = [pipe EXCEPT ![h] = Tail(@)]
               /\ delivered' = [delivered EXCEPT ![<<Other(w), t>>] = Append(@, m)]
               /\ UNCHANGED <<accepted, opened>>
  BY <1>1, FrameRead
<1>3. pipe \in [Halves -> Seq(Packet)] /\ delivered \in [Key -> Seq(Packet)]
      /\ accepted \in [Key -> Seq(Packet)] /\ <<Other(w), t>> \in Key
  BY <1>1, TransportTypes, KeyFacts, EndFacts
<1>4. /\ pipe'[h] = Tail(pipe[h]) /\ \A g \in Halves : g # h => pipe'[g] = pipe[g]
      /\ delivered'[<<Other(w), t>>] = Append(delivered[<<Other(w), t>>], m)
      /\ \A k \in Key : k # <<Other(w), t>> => delivered'[k] = delivered[k]
  BY <1>2, <1>3
<1>5. \A q, s : Carries(q, s)' <=> Carries(q, s)
  BY <1>2, CarriesStays
<1>6. \A q : Opened(q)' <=> Opened(q)
  BY <1>2, CarriesStays
<1>7. h[1] = r /\ Opened(r) /\ Carries(h[1], t)
  BY <1>1, <1>2, ReliableHandle
<1>8. LanesOK'
  <2> SUFFICES ASSUME NEW e \in Ends, NEW s \in StreamId, NEW q \in StreamsOf(e), Carries(q, s)'
               PROVE  /\ accepted'[<<e, s>>] = delivered'[<<Other(e), s>>] \o pipe'[<<q, e>>]
                      /\ Labelled(pipe[<<q, e>>], s)'
    BY DEF LanesOK
  <2>1. /\ Carries(q, s) /\ <<q, e>> \in Halves /\ <<e, s>> \in Key /\ <<Other(e), s>> \in Key
        /\ accepted[<<e, s>>] = delivered[<<Other(e), s>>] \o pipe[<<q, e>>]
        /\ Labelled(pipe[<<q, e>>], s) /\ accepted' = accepted
    <3>1. Carries(q, s) /\ accepted' = accepted
      BY <1>2, <1>5
    <3>2. <<q, e>> \in Halves /\ <<e, s>> \in Key /\ <<Other(e), s>> \in Key
      BY StreamHalves, KeyFacts, EndFacts
    <3>. QED
      BY <3>1, <3>2 DEF TransportOK, LanesOK
  <2>2. CASE <<q, e>> = h
    <3>1. q = r /\ e = w
      BY <1>2, <2>2
    <3>2. s = t
      BY <1>2, <2>1, <3>1 DEF Carries
    <3>3. PICK d \in Seq(Packet), p \in Seq(Packet) : d = delivered[<<Other(e), s>>] /\ p = pipe[h]
      BY <1>2, <1>3, <2>1
    <3>4. d \o p = Append(d, Head(p)) \o Tail(p)
      BY <1>2, <3>3, ReadInOrder
    <3>5. accepted'[<<e, s>>] = delivered'[<<Other(e), s>>] \o pipe'[<<q, e>>]
      BY <1>2, <1>4, <2>1, <2>2, <3>1, <3>2, <3>3, <3>4
    <3>6. Elems(Tail(p)) \subseteq Elems(p) /\ Labelled(p, s)
      BY <1>2, <2>1, <2>2, <3>3, ElemsTail
    <3>7. pipe'[<<q, e>>] = Tail(p)
      BY <1>4, <2>2, <3>3
    <3>. QED
      BY <3>5, <3>6, <3>7 DEF Labelled, Elems
  <2>3. CASE <<q, e>> # h
    <3>1. <<Other(e), s>> # <<Other(w), t>>
      <4>1. <<Other(e), s>> # <<Reader(h), t>>
        BY <1>7, <2>1, <2>3, OtherLane
      <4>. QED
        BY <1>2, <4>1
    <3>2. /\ pipe'[<<q, e>>] = pipe[<<q, e>>]
          /\ delivered'[<<Other(e), s>>] = delivered[<<Other(e), s>>]
      BY <1>4, <2>1, <2>3, <3>1
    <3>. QED
      BY <2>1, <3>2 DEF Labelled, Elems
  <2>. QED
    BY <2>2, <2>3
<1>9. UnopenedOK'
  BY <1>4, <1>6, <1>7 DEF TransportOK, UnopenedOK
<1>10. UnusedOK'
  <2> SUFFICES ASSUME NEW e \in Ends, NEW s \in StreamId, IsReliable(s),
                      \A q \in StreamsOf(e) : ~Carries(q, s)'
               PROVE  accepted'[<<e, s>>] = <<>> /\ delivered'[<<Other(e), s>>] = <<>>
    BY DEF UnusedOK, IsReliable
  <2>1. <<e, s>> # <<w, t>> /\ <<Other(e), s>> \in Key /\ Other(Other(e)) = e
        /\ Other(Other(w)) = w
    BY <1>2, <1>5, KeyFacts, EndFacts
  <2>2. <<Other(e), s>> # <<Other(w), t>>
    BY <2>1
  <2>. QED
    BY <1>2, <1>4, <1>5, <2>1, <2>2 DEF TransportOK, UnusedOK
<1>. QED
  BY <1>8, <1>9, <1>10 DEF TransportOK

\* A stream of QUIC is opened for a handle that nothing was sent on.
LEMMA OpenTransport ==
    ASSUME TypeOK, OwnStreams', TransportOK,
           NEW p \in Peers, NEW e \in EndsOf(p), NEW i \in StreamId,
           Len(opened[e]) < MaxStreams, OpenStream(p, e, i)
    PROVE  TransportOK'
<1>1. TypeOK /\ e \in Ends /\ Len(opened[e]) \in Nat
  BY EndsOfFacts, TransportTypes, LenProperties
<1>2. PICK n \in 1 .. MaxStreams : n = Len(opened[e]) + 1
  BY <1>1, MaxStreamsAssumption
<1>3. PICK h \in StreamId : h = NewStream(i, "Reliable")
  BY NewHandle DEF Reliability
<1>4. opened' = [opened EXCEPT ![e] = Append(@, i)] /\ UNCHANGED <<pipe, accepted, delivered>>
  BY DEF OpenStream, historyVars
<1>5. ASSUME NEW f \in Ends, NEW k \in 1 .. MaxStreams
      PROVE  /\ Opened(<<f, k>>)' <=> Opened(<<f, k>>) \/ (f = e /\ k = n)
             /\ f = e /\ k = n => ~Opened(<<f, k>>)
             /\ \A s : Carries(<<f, k>>, s)' <=> Carries(<<f, k>>, s) \/ (f = e /\ k = n /\ s = h)
  <2>1. /\ Opened(<<f, k>>)' <=> Opened(<<f, k>>) \/ (f = e /\ k = Len(opened[e]) + 1)
        /\ f = e /\ k = Len(opened[e]) + 1 => ~Opened(<<f, k>>)
        /\ \A s : Carries(<<f, k>>, s)' <=>
                      \/ Carries(<<f, k>>, s)
                      \/ f = e /\ k = Len(opened[e]) + 1 /\ s = NewStream(i, "Reliable")
    BY <1>1, <1>4, OpenCarries
  <2>. QED
    BY <1>2, <1>3, <2>1
<1>6. ASSUME NEW f \in Ends, NEW q \in StreamsOf(f)
      PROVE  /\ Opened(q)' <=> Opened(q) \/ q = <<e, n>>
             /\ \A s : Carries(q, s)' <=> Carries(q, s) \/ (q = <<e, n>> /\ s = h)
  BY <1>5, StreamParts
<1>7. LanesOK'
  <2> SUFFICES ASSUME NEW f \in Ends, NEW s \in StreamId, NEW q \in StreamsOf(f), Carries(q, s)'
               PROVE  /\ accepted'[<<f, s>>] = delivered'[<<Other(f), s>>] \o pipe'[<<q, f>>]
                      /\ Labelled(pipe[<<q, f>>], s)'
    BY DEF LanesOK
  <2>1. CASE Carries(q, s)
    <3>1. /\ accepted[<<f, s>>] = delivered[<<Other(f), s>>] \o pipe[<<q, f>>]
          /\ Labelled(pipe[<<q, f>>], s)
      BY <2>1 DEF TransportOK, LanesOK
    <3>2. Labelled(pipe[<<q, f>>], s)'
      BY <1>4, <3>1 DEF Labelled, Elems
    <3>. QED
      BY <1>4, <3>1, <3>2
  <2>2. CASE ~Carries(q, s)
    <3>1. q = <<e, n>> /\ s = h
      BY <1>6, <2>2
    <3>2. IsReliable(s)
      BY <1>3, <3>1, HandleKinds DEF Reliability
    <3>3. \A r \in StreamsOf(f) : ~Carries(r, s)
      <4> SUFFICES ASSUME NEW r \in StreamsOf(f), Carries(r, s) PROVE FALSE
        OBVIOUS
      <4>1. Carries(r, s)' /\ r # q
        BY <1>6, <2>2
      <4>2. r = q
        BY <4>1 DEF OwnStreams
      <4>. QED
        BY <4>1, <4>2
    <3>4. accepted[<<f, s>>] = <<>> /\ delivered[<<Other(f), s>>] = <<>>
      BY <3>2, <3>3 DEF TransportOK, UnusedOK
    <3>5. <<q, f>> \in Halves /\ ~Opened(q) /\ <<q, f>>[1] = q
      BY <1>1, <1>2, <1>5, <3>1, StreamHalves
    <3>6. pipe[<<q, f>>] = <<>>
      BY <3>5 DEF TransportOK, UnopenedOK
    <3>7. Labelled(pipe[<<q, f>>], s)' /\ <<>> \o <<>> = <<>>
      BY <1>4, <3>6 DEF Labelled, Elems
    <3>. QED
      BY <1>4, <3>4, <3>6, <3>7
  <2>. QED
    BY <2>1, <2>2
<1>8. UnopenedOK'
  BY <1>4, <1>6, HalfStreams DEF TransportOK, UnopenedOK
<1>9. UnusedOK'
  <2> SUFFICES ASSUME NEW f \in Ends, NEW s \in StreamId, IsReliable(s),
                      \A q \in StreamsOf(f) : ~Carries(q, s)'
               PROVE  accepted'[<<f, s>>] = <<>> /\ delivered'[<<Other(f), s>>] = <<>>
    BY DEF UnusedOK, IsReliable
  <2>. QED
    BY <1>4, <1>6 DEF TransportOK, UnusedOK
<1>. QED
  BY <1>7, <1>8, <1>9 DEF TransportOK


-------------------------------------------------------------------------------
(* What is on its way: the names and the loops                             *)

\* A step that opens no stream of QUIC, or one.
OpensOnly == \A q \in QuicStream, s \in StreamId : Carries(q, s) => Carries(q, s)'

LEMMA NamesKept ==
    ASSUME TypeOK, NamesOK, OpensOnly
    PROVE  /\ \A k \in Key : reliable'[k] = reliable[k] => Names(reliable[k], k[2])'
           /\ \A p \in Peers : \A r \in Elems(streamReg[p]) : Names(r.quic, r.stream)'
           /\ \A p \in Peers : writing'[p] = writing[p] /\ writing[p] # <<>> =>
                  Carries(Frame(p).half[1], Frame(p).packet.stream)'
<1>1. ASSUME NEW k \in Key, reliable'[k] = reliable[k] PROVE Names(reliable[k], k[2])'
  <2>1. k[2] \in StreamId /\ (reliable[k] # NoStream => reliable[k] \in QuicStream)
    BY KeyParts DEF TypeOK, MapTypeOK
  <2>. QED
    BY <1>1, <2>1 DEF NamesOK, MapNames, Names, OpensOnly
<1>2. ASSUME NEW p \in Peers, NEW r \in Elems(streamReg[p]) PROVE Names(r.quic, r.stream)'
  <2>1. r \in Registration(p)
    BY TransportTypes, ElemsType
  <2>2. r.stream \in StreamId /\ (r.quic # NoStream => r.quic \in QuicStream)
    BY <1>2, <2>1, RegistrationParts
  <2>. QED
    BY <1>2, <2>2 DEF NamesOK, RegistrationNames, Names, OpensOnly
<1>3. ASSUME NEW p \in Peers, writing'[p] = writing[p], writing[p] # <<>>
      PROVE  Carries(Frame(p).half[1], Frame(p).packet.stream)'
  <2>1. PICK q \in QuicStream, s \in StreamId : q = Frame(p).half[1] /\ s = Frame(p).packet.stream
    BY <1>3, WritingHead, HalfFacts DEF Packet, Frame
  <2>2. Carries(q, s)'
    BY <1>3, <2>1 DEF NamesOK, WritingNames, OpensOnly
  <2>3. q = Frame(p).half[1]' /\ s = Frame(p).packet.stream'
    BY <1>3, <2>1 DEF Frame
  <2>. QED
    BY <2>2, <2>3
<1>. QED
  BY <1>1, <1>2, <1>3

\* What a step may enter into the maps and channels.
LEMMA NamesFrame ==
    ASSUME TypeOK, NamesOK, OpensOnly,
           \A k \in Key : reliable'[k] = reliable[k] \/ Names(reliable[k], k[2])',
           \A p \in Peers : \A r \in Elems(streamReg'[p]) :
               r \in Elems(streamReg[p]) \/ Names(r.quic, r.stream)',
           \A p \in Peers : \/ writing'[p] = writing[p] \/ writing'[p] = <<>>
                            \/ Carries(Frame(p).half[1], Frame(p).packet.stream)'
    PROVE  NamesOK'
<1>1. /\ \A k \in Key : reliable'[k] = reliable[k] => Names(reliable[k], k[2])'
      /\ \A p \in Peers : \A r \in Elems(streamReg[p]) : Names(r.quic, r.stream)'
      /\ \A p \in Peers : writing'[p] = writing[p] /\ writing[p] # <<>> =>
             Carries(Frame(p).half[1], Frame(p).packet.stream)'
  BY NamesKept
<1>2. MapNames'
  BY <1>1 DEF MapNames
<1>3. RegistrationNames'
  <2> SUFFICES ASSUME NEW p \in Peers, NEW r \in Elems(streamReg'[p])
               PROVE  Names(r.quic, r.stream)'
    BY DEF RegistrationNames, Elems
  <2>. QED
    BY <1>1
<1>4. WritingNames'
  BY <1>1 DEF WritingNames
<1>. QED
  BY <1>2, <1>3, <1>4 DEF NamesOK

LEMMA OutlivesFrame ==
    ASSUME OutlivesNone, \A e \in Ends : conn'[e] = "closed" => conn[e] = "closed",
           \A h \in Halves : reading'[h] = "running" =>
                reading[h] = "running" \/ conn'[Reader(h)] # "closed"
    PROVE  OutlivesNone'
BY HalfFacts DEF OutlivesNone, Reader

LEMMA SameOpened ==
    ASSUME UNCHANGED opened
    PROVE  OpensOnly
BY CarriesStays DEF OpensOnly

\* A step that has nothing to do with streams.
LEMMA QuietLanes ==
    ASSUME TypeOK, LanesInv,
           UNCHANGED <<opened, pipe, accepted, delivered, reliable, streamReg>>,
           \A p \in Peers : writing'[p] = writing[p] \/ writing'[p] = <<>>,
           \A e \in Ends : conn'[e] = "closed" => conn[e] = "closed",
           \A h \in Halves : reading'[h] = "running" => reading[h] = "running"
    PROVE  LanesInv'
<1>1. TransportOK' /\ OpensOnly
  BY TransportFrame, SameOpened DEF LanesInv
<1>2. NamesOK'
  <2>1. \A p \in Peers : \A r \in Elems(streamReg'[p]) : r \in Elems(streamReg[p])
    OBVIOUS
  <2>. QED
    BY <1>1, <2>1, NamesFrame DEF LanesInv
<1>3. OutlivesNone'
  BY OutlivesFrame DEF LanesInv
<1>. QED
  BY <1>1, <1>2, <1>3 DEF LanesInv

LEMMA AppLanes ==
    ASSUME TypeOK, LanesInv, AppAction \/ UNCHANGED vars
    PROVE  LanesInv'
<1>1. UNCHANGED <<mapVars, loopVars, quinnVars, accepted, delivered>>
  BY DEF AppAction, AppListen, AppDial, AppCreateStream, AppCloseStream, AppSend, AppPoll,
         AppShutdown, AppJoin, vars, quicVars, historyVars
<1>. QED
  BY <1>1, QuietLanes DEF mapVars, loopVars, quinnVars

LEMMA ConnectionLanes ==
    ASSUME TypeOK, LanesInv,
           \/ Bind \/ RegisterConnection \/ Accept
           \/ \E c \in Clients : Connect(c)
           \/ \E e \in Ends : Lose(e)
    PROVE  LanesInv'
<1>1. UNCHANGED <<opened, pipe, accepted, delivered, reliable, streamReg, writing, reading>>
  BY DEF Bind, RegisterConnection, Accept, Connect, Lose, mapVars, loopVars, quinnVars, historyVars
<1>2. \A e \in Ends : conn'[e] = "closed" => conn[e] = "closed"
  BY DEF Bind, RegisterConnection, Accept, Connect, Lose, quinnVars, TypeOK, QuinnTypeOK
<1>. QED
  BY <1>1, <1>2, QuietLanes

LEMMA StopLanes ==
    ASSUME TypeOK, LanesInv, NEW p \in Peers, Stop(p)
    PROVE  LanesInv'
<1>1. /\ UNCHANGED <<opened, pipe, accepted, delivered>>
      /\ streamReg' = [streamReg EXCEPT ![p] = <<>>]
      /\ reliable' = [k \in Key |-> IF Owner(k[1]) = p THEN NoStream ELSE reliable[k]]
      /\ writing' = [writing EXCEPT ![p] = <<>>]
      /\ conn' = [e \in Ends |-> IF Owner(e) = p /\ conn[e] # "none" THEN "closed" ELSE conn[e]]
      /\ reading' = [h \in Halves |->
                        IF Owner(Reader(h)) = p /\ reading[h] = "running" THEN "done" ELSE reading[h]]
  BY DEF Stop, historyVars
<1>2. TransportOK' /\ OpensOnly
  BY <1>1, TransportFrame, SameOpened DEF LanesInv
<1>3. NamesOK'
  <2>1. \A k \in Key : reliable'[k] = reliable[k] \/ Names(reliable[k], k[2])'
    BY <1>1 DEF Names
  <2>2. \A q \in Peers : \A r \in Elems(streamReg'[q]) : r \in Elems(streamReg[q])
    BY <1>1, TransportTypes DEF Elems
  <2>3. \A q \in Peers : writing'[q] = writing[q] \/ writing'[q] = <<>>
    BY <1>1 DEF TypeOK, LoopTypeOK
  <2>. QED
    BY <1>2, <2>1, <2>2, <2>3, NamesFrame DEF LanesInv
<1>4. OutlivesNone'
  <2> SUFFICES ASSUME NEW h \in Halves, reading'[h] = "running" PROVE conn'[Reader(h)] # "closed"
    BY DEF OutlivesNone, Reader
  <2>1. Reader(h) \in Ends
    BY HalfFacts
  <2>2. reading[h] = "running" /\ Owner(Reader(h)) # p
    BY <1>1
  <2>. QED
    BY <1>1, <2>1, <2>2 DEF LanesInv, OutlivesNone
<1>. QED
  BY <1>2, <1>3, <1>4 DEF LanesInv

LEMMA HandshakeFailsLanes ==
    ASSUME TypeOK, LanesInv, HandshakeFails
    PROVE  LanesInv'
<1>1. CASE Stop(Server)
  BY <1>1, ServerIsPeer, StopLanes
<1>2. CASE UNCHANGED <<mapVars, loopVars, quinnVars, historyVars>>
  BY <1>2, QuietLanes DEF mapVars, loopVars, quinnVars, historyVars
<1>. QED
  BY <1>1, <1>2 DEF HandshakeFails


-------------------------------------------------------------------------------
(* What is on its way: the loop                                            *)

LEMMA SendLanes ==
    ASSUME TypeOK, OwnStreams, LanesInv, NEW p \in Peers, SendStep(p)
    PROVE  LanesInv'
<1>1. CASE SendDropped(p) \/ SendFails(p)
  BY <1>1, QuietLanes
  DEF SendDropped, SendFails, quicVars, mapVars, loopVars, quinnVars, historyVars
<1>2. CASE SendWritten(p)
  <2>1. /\ SendsReliably(p) /\ Put(HalfOf(HeadKey(p)), HeadPacket(p))
        /\ UNCHANGED <<opened, delivered, reliable, streamReg, writing, conn, reading>>
    BY <1>2 DEF SendWritten, mapVars, loopVars
  <2>2. /\ HalfOf(HeadKey(p)) \in Halves /\ HeadPacket(p) \in Packet /\ HeadKey(p) \in Key
        /\ reliable[HeadKey(p)] # NoStream
    BY <2>1, SendHalf DEF SendsReliably
  <2>3. Carries(HalfOf(HeadKey(p))[1], HeadPacket(p).stream)
    BY <2>2 DEF LanesInv, NamesOK, MapNames, Names, HalfOf, HeadKey
  <2>4. TransportOK' /\ OpensOnly
    BY <2>1, <2>2, <2>3, PutTransport, SameOpened DEF LanesInv
  <2>5. NamesOK'
    BY <2>1, <2>4, NamesFrame DEF LanesInv
  <2>6. OutlivesNone'
    BY <2>1, OutlivesFrame DEF LanesInv
  <2>. QED
    BY <2>4, <2>5, <2>6 DEF LanesInv
<1>3. CASE SendWaits(p)
  <2>1. /\ SendsReliably(p)
        /\ writing' = [writing EXCEPT ![p] =
                          <<[half |-> HalfOf(HeadKey(p)), packet |-> HeadPacket(p)]>>]
        /\ UNCHANGED <<opened, pipe, accepted, delivered, reliable, streamReg, conn, reading>>
    BY <1>3 DEF SendWaits, mapVars, quinnVars, historyVars
  <2>2. HeadKey(p) \in Key /\ reliable[HeadKey(p)] # NoStream
    BY <2>1, SendHalf DEF SendsReliably
  <2>3. PICK q, s : q = reliable[HeadKey(p)] /\ s = HeadPacket(p).stream
    OBVIOUS
  <2>4. Carries(q, s)
    BY <2>2, <2>3 DEF LanesInv, NamesOK, MapNames, Names, HeadKey
  <2>5. Carries(q, s)'
    BY <2>1, <2>4, CarriesStays
  <2>6. ASSUME NEW o \in Peers
        PROVE  writing'[o] = writing[o] \/ Carries(Frame(o).half[1], Frame(o).packet.stream)'
    <3>1. CASE o = p
      <4>1. writing'[p] = <<[half |-> HalfOf(HeadKey(p)), packet |-> HeadPacket(p)]>>
        BY <2>1 DEF TypeOK, LoopTypeOK
      <4>2. Head(writing'[p]) = [half |-> HalfOf(HeadKey(p)), packet |-> HeadPacket(p)]
        BY <4>1
      <4>3. q = Frame(p).half[1]' /\ s = Frame(p).packet.stream'
        BY <2>3, <4>2 DEF Frame, HalfOf
      <4>. QED
        BY <2>5, <3>1, <4>3
    <3>2. CASE o # p
      BY <2>1, <3>2 DEF TypeOK, LoopTypeOK
    <3>. QED
      BY <3>1, <3>2
  <2>7. TransportOK' /\ OpensOnly
    BY <2>1, TransportFrame, SameOpened DEF LanesInv
  <2>8. NamesOK'
    BY <2>1, <2>6, <2>7, NamesFrame DEF LanesInv
  <2>9. OutlivesNone'
    BY <2>1, OutlivesFrame DEF LanesInv
  <2>. QED
    BY <2>7, <2>8, <2>9 DEF LanesInv
<1>4. CASE SendDatagram(p)
  <2>1. /\ HandlesQuietly(p, "Send") /\ ~IsReliable(HeadPacket(p).stream)
        /\ Accepts(HeadEnd(p), HeadPacket(p))
        /\ UNCHANGED <<opened, pipe, delivered, reliable, streamReg, writing, conn, reading>>
    BY <1>4 DEF SendDatagram, mapVars, loopVars, quinnVars
  <2>2. \A k \in Key : IsReliable(k[2]) => accepted'[k] = accepted[k] /\ delivered'[k] = delivered[k]
    <3> SUFFICES ASSUME NEW k \in Key, IsReliable(k[2]) PROVE accepted'[k] = accepted[k]
      BY <2>1
    <3>1. k # <<HeadEnd(p), HeadPacket(p).stream>>
      BY <2>1, KeyParts
    <3>. QED
      BY <2>1, <3>1, TransportTypes DEF Accepts
  <2>3. TransportOK' /\ OpensOnly
    BY <2>1, <2>2, TransportFrame, SameOpened DEF LanesInv
  <2>4. NamesOK'
    BY <2>1, <2>3, NamesFrame DEF LanesInv
  <2>5. OutlivesNone'
    BY <2>1, OutlivesFrame DEF LanesInv
  <2>. QED
    BY <2>3, <2>4, <2>5 DEF LanesInv
<1>. QED
  BY <1>1, <1>2, <1>3, <1>4 DEF SendStep

\* The frame that waited is written to its half, though the map may have changed since.
LEMMA WriteLanes ==
    ASSUME TypeOK, OwnStreams, LanesInv, NEW p \in Peers, WriteResumes(p) \/ WriteFails(p)
    PROVE  LanesInv'
<1>1. writing[p] # <<>> /\ \A o \in Peers : writing'[o] = writing[o] \/ writing'[o] = <<>>
  BY DEF WriteResumes, WriteFails, TypeOK, LoopTypeOK
<1>2. CASE WriteFails(p)
  BY <1>1, <1>2, QuietLanes DEF WriteFails, mapVars, quinnVars, historyVars
<1>3. CASE WriteResumes(p)
  <2>1. /\ Put(Frame(p).half, Frame(p).packet)
        /\ UNCHANGED <<opened, delivered, reliable, streamReg, conn, reading>>
    BY <1>3 DEF WriteResumes, mapVars, Frame
  <2>2. Frame(p).half \in Halves /\ Frame(p).packet \in Packet
    BY <1>1, WritingHead DEF Frame
  <2>3. Carries(Frame(p).half[1], Frame(p).packet.stream)
    BY <1>1 DEF LanesInv, NamesOK, WritingNames
  <2>4. TransportOK' /\ OpensOnly
    BY <2>1, <2>2, <2>3, PutTransport, SameOpened DEF LanesInv
  <2>5. NamesOK'
    BY <1>1, <2>1, <2>4, NamesFrame DEF LanesInv
  <2>6. OutlivesNone'
    BY <2>1, OutlivesFrame DEF LanesInv
  <2>. QED
    BY <2>4, <2>5, <2>6 DEF LanesInv
<1>. QED
  BY <1>2, <1>3

\* The new stream of QUIC is registered under its handle, and its end reads it.
LEMMA OpenLanes ==
    ASSUME TypeOK, TypeOK', OwnStreams', LanesInv,
           NEW p \in Peers, NEW e \in EndsOf(p), NEW i \in StreamId,
           conn[e] = "up", Len(opened[e]) < MaxStreams, OpenStream(p, e, i)
    PROVE  LanesInv'
<1>1. e \in Ends /\ Owner(e) = p /\ Len(opened[e]) \in Nat
  BY EndsOfFacts, TransportTypes, LenProperties
<1>2. PICK q \in StreamsOf(e) : q = <<e, Len(opened[e]) + 1>>
  BY <1>1, NextStream
<1>3. PICK h \in StreamId : h = NewStream(i, "Reliable")
  BY NewHandle DEF Reliability
<1>4. PICK r \in Registration(p) : /\ r = [end |-> e, stream |-> h, quic |-> q]
                                   /\ streamReg' = [streamReg EXCEPT ![p] = Append(@, r)]
  BY <1>2, <1>3, OpenRegisters
<1>5. /\ reading' = [reading EXCEPT ![<<q, Other(e)>>] = "running"]
      /\ opened' = [opened EXCEPT ![e] = Append(@, i)]
      /\ UNCHANGED <<conn, reliable, writing>>
  BY <1>2 DEF OpenStream
<1>6. TransportOK'
  BY OpenTransport DEF LanesInv
<1>7. OpensOnly
  BY <1>1, <1>5, OpenKeeps DEF OpensOnly, QuicStream
<1>8. Carries(q, h)'
  <2>1. /\ q[1] = e /\ q[2] = Len(opened[e]) + 1
        /\ opened'[e] = Append(opened[e], i) /\ opened[e] \in Seq(StreamId)
    BY <1>1, <1>2, <1>5, TransportTypes
  <2>2. Len(opened[e]) + 1 \in DOMAIN Append(opened[e], i)
        /\ Append(opened[e], i)[Len(opened[e]) + 1] = i
    BY <2>1, AppendProperties
  <2>. QED
    BY <1>3, <2>1, <2>2 DEF Carries
<1>9. NamesOK'
  <2>1. \A o \in Peers : \A x \in Elems(streamReg'[o]) : x \in Elems(streamReg[o]) \/ x = r
    BY <1>4, OneRegistered
  <2>2. Names(r.quic, r.stream)'
    BY <1>4, <1>8 DEF Names
  <2>. QED
    BY <1>5, <1>7, <2>1, <2>2, NamesFrame DEF LanesInv
<1>10. OutlivesNone'
  <2>1. Reader(<<q, Other(e)>>) = e
    BY <1>1, StreamHalves
  <2>2. \A g \in Halves : g # <<q, Other(e)>> => reading'[g] = reading[g]
    BY <1>5, TransportTypes
  <2>. QED
    BY <1>5, <2>1, <2>2, OutlivesFrame DEF LanesInv
<1>. QED
  BY <1>6, <1>9, <1>10 DEF LanesInv

\* A registration without a stream of QUIC.
LEMMA PlainRegistered ==
    ASSUME TypeOK, LanesInv, NEW p \in Peers, NEW r \in Registration(p), r.quic = NoStream,
           \/ streamReg' = [streamReg EXCEPT ![p] = Append(@, r)]
           \/ UNCHANGED streamReg,
           UNCHANGED <<opened, pipe, accepted, delivered, reliable, writing, conn, reading>>
    PROVE  LanesInv'
<1>1. TransportOK' /\ OpensOnly
  BY TransportFrame, SameOpened DEF LanesInv
<1>2. \A o \in Peers : \A x \in Elems(streamReg'[o]) : x \in Elems(streamReg[o]) \/ x = r
  BY OneRegistered
<1>3. NamesOK'
  BY <1>1, <1>2, NamesFrame DEF LanesInv, Names
<1>4. OutlivesNone'
  BY OutlivesFrame DEF LanesInv
<1>. QED
  BY <1>1, <1>3, <1>4 DEF LanesInv

LEMMA CreateLanes ==
    ASSUME IndType, TypeOK', OwnStreams', LanesInv, NEW p \in Peers,
           CreateReliable(p) \/ CreateWaits(p) \/ CreateDropped(p) \/ CreateUnreliable(p)
    PROVE  LanesInv'
<1>1. HandlesQuietly(p, "CreateStream") /\ TypeOK
  BY DEF CreateReliable, CreateWaits, CreateDropped, CreateUnreliable, IndType
<1>2. PICK e \in EndsOf(p), i \in StreamId, k \in Reliability :
          e = Head(cmds[p]).conn /\ i = Head(cmds[p]).index /\ k = Head(cmds[p]).reliability
  BY <1>1, QuietType, HeadParts DEF HeadEnd
<1>3. CASE CreateReliable(p)
  <2>1. OpenStream(p, e, i) /\ conn[e] = "up" /\ Head(cmds[p]).reliability = "Reliable"
    BY <1>2, <1>3 DEF CreateReliable
  <2>2. Len(opened[e]) < MaxStreams
    BY <1>1, <1>2, <2>1, CreateHead
  <2>. QED
    BY <1>1, <2>1, <2>2, OpenLanes
<1>4. CASE CreateWaits(p) \/ CreateDropped(p)
  BY <1>1, <1>4, QuietLanes
  DEF CreateWaits, CreateDropped, quicVars, mapVars, loopVars, quinnVars, historyVars
<1>5. CASE CreateUnreliable(p)
  <2>1. PICK r \in Registration(p) : r = [end |-> e, stream |-> NewStream(i, k), quic |-> NoStream]
    BY <1>2, NewHandle, RegistrationMembers
  <2>2. r.quic = NoStream
    BY <2>1
  <2>3. /\ streamReg' = [streamReg EXCEPT ![p] = Append(@, r)]
        /\ UNCHANGED <<opened, pipe, accepted, delivered, reliable, writing, conn, reading>>
    BY <1>2, <1>5, <2>1 DEF CreateUnreliable, loopVars, quinnVars, historyVars
  <2>. QED
    BY <1>1, <2>2, <2>3, PlainRegistered
<1>. QED
  BY <1>3, <1>4, <1>5

LEMMA CreateResumesLanes ==
    ASSUME IndType, TypeOK', OwnStreams', LanesInv, NEW p \in Peers, CreateResumes(p)
    PROVE  LanesInv'
<1>1. TypeOK /\ opening[p] # <<>>
  BY DEF CreateResumes, IndType
<1>2. PICK e \in EndsOf(p), i \in StreamId : /\ e = Head(opening[p]).end /\ i = Head(opening[p]).index
                                             /\ e \in Ends /\ Owner(e) = p
  BY <1>1, OpeningHead
<1>3. conn[e] = "up" /\ OpenStream(p, e, i)
  BY <1>2 DEF CreateResumes
<1>4. Len(opened[e]) < MaxStreams
  <2>1. /\ Asked(e) <= next_stream_id[p] /\ Len(opened[e]) \in Nat
        /\ Count(cmds[p], Creates(e)) \in Nat /\ next_stream_id[p] \in 0 .. MaxStreams
    BY <1>1, <1>2, AskedType DEF IndType, CreatesOK
  <2>2. Opening(e) = 1
    BY <1>1, <1>2 DEF Opening
  <2>3. Asked(e) = Len(opened[e]) + 1 + Count(cmds[p], Creates(e))
    BY <1>2, <2>2 DEF Asked
  <2>. QED
    BY <2>1, <2>3, MaxStreamsAssumption
<1>. QED
  BY <1>1, <1>3, <1>4, OpenLanes

LEMMA RegisterStreamLanes ==
    ASSUME TypeOK, LanesInv, NEW p \in Peers, RegisterStream(p)
    PROVE  LanesInv'
<1>1. /\ streamReg[p] # <<>> /\ streamReg' = [streamReg EXCEPT ![p] = Tail(@)]
      /\ UNCHANGED <<opened, pipe, accepted, delivered, writing, conn, reading>>
  BY DEF RegisterStream, loopVars, historyVars
<1>2. PICK r \in Registration(p) :
          r = Head(streamReg[p]) /\ r.end \in Ends /\ r.stream \in StreamId
  BY <1>1, RegistrationHead
<1>3. PICK k \in Key : k = <<r.end, r.stream>> /\ k[2] = r.stream
  BY <1>2, KeyFacts
<1>4. r \in Elems(streamReg[p]) /\ Elems(Tail(streamReg[p])) \subseteq Elems(streamReg[p])
  BY <1>1, <1>2, TransportTypes, ElemsTail
<1>5. TransportOK' /\ OpensOnly
  BY <1>1, TransportFrame, SameOpened DEF LanesInv
<1>6. \A o \in Peers : \A x \in Elems(streamReg'[o]) : x \in Elems(streamReg[o])
  BY <1>1, <1>4, TransportTypes
<1>7. ASSUME NEW l \in Key PROVE reliable'[l] = reliable[l] \/ Names(reliable[l], l[2])'
  <2>1. reliable' = [reliable EXCEPT ![k] = r.quic] \/ reliable' = reliable
    BY <1>2, <1>3 DEF RegisterStream
  <2>2. CASE l = k /\ reliable' = [reliable EXCEPT ![k] = r.quic]
    <3>1. reliable'[k] = r.quic
      BY <2>2 DEF TypeOK, MapTypeOK
    <3>2. Names(r.quic, r.stream)'
      BY <1>1, <1>4, CarriesStays DEF LanesInv, NamesOK, RegistrationNames
    <3>. QED
      BY <1>3, <2>2, <3>1, <3>2
  <2>3. CASE ~(l = k /\ reliable' = [reliable EXCEPT ![k] = r.quic])
    BY <2>1, <2>3 DEF TypeOK, MapTypeOK
  <2>. QED
    BY <2>2, <2>3
<1>8. NamesOK'
  BY <1>1, <1>5, <1>6, <1>7, NamesFrame DEF LanesInv
<1>9. OutlivesNone'
  BY <1>1, OutlivesFrame DEF LanesInv
<1>. QED
  BY <1>5, <1>8, <1>9 DEF LanesInv

LEMMA CloseStreamLanes ==
    ASSUME TypeOK, LanesInv, NEW p \in Peers, BackendCloseStream(p)
    PROVE  LanesInv'
<1>1. /\ \E key : reliable' = [reliable EXCEPT ![key] = NoStream]
      /\ UNCHANGED <<opened, pipe, accepted, delivered, streamReg, writing, conn, reading>>
  BY DEF BackendCloseStream, loopVars, historyVars
<1>2. TransportOK' /\ OpensOnly
  BY <1>1, TransportFrame, SameOpened DEF LanesInv
<1>3. \A k \in Key : reliable'[k] = reliable[k] \/ Names(reliable[k], k[2])'
  BY <1>1 DEF TypeOK, MapTypeOK, Names
<1>4. NamesOK'
  BY <1>1, <1>2, <1>3, NamesFrame DEF LanesInv
<1>5. OutlivesNone'
  BY <1>1, OutlivesFrame DEF LanesInv
<1>. QED
  BY <1>2, <1>4, <1>5 DEF LanesInv


-------------------------------------------------------------------------------
(* What is on its way: the readers                                         *)

LEMMA ReadDatagramLanes ==
    ASSUME TypeOK, LanesInv, NEW e \in Ends, NEW m \in Packet, ReadDatagram(e, m)
    PROVE  LanesInv'
<1>1. PICK r \in Registration(Owner(e)) : r = [end |-> e, stream |-> m.stream, quic |-> NoStream]
  BY EndFacts, RegistrationMembers DEF Packet
<1>2. r.quic = NoStream /\ Owner(e) \in Peers
  BY <1>1, EndFacts
<1>3. /\ \/ streamReg' = [streamReg EXCEPT ![Owner(e)] = Append(@, r)]
         \/ UNCHANGED streamReg
      /\ UNCHANGED <<opened, pipe, accepted, delivered, reliable, writing, conn, reading>>
  BY <1>1 DEF ReadDatagram, loopVars, quinnVars, historyVars
<1>. QED
  BY <1>2, <1>3, PlainRegistered

LEMMA AcceptStreamLanes ==
    ASSUME TypeOK, LanesInv, NEW e \in Ends, AcceptStream(e)
    PROVE  LanesInv'
<1>1. /\ taken[e] < Len(opened[Other(e)]) /\ conn[e] \in {"up", "lost"}
      /\ UNCHANGED <<opened, pipe, accepted, delivered, reliable, writing, conn>>
  BY DEF AcceptStream, Reads, loopVars, historyVars
<1>2. PICK q \in StreamsOf(e), half \in Halves :
               /\ q = <<Other(e), taken[e] + 1>> /\ half = <<q, Other(e)>>
               /\ q[2] \in DOMAIN opened[Other(e)] /\ opened[Other(e)][q[2]] \in StreamId
               /\ q[1] = Other(e) /\ Reader(half) = e
  BY <1>1, NextTaken
<1>3. PICK s \in StreamId : s = NewStream(opened[Other(e)][q[2]], "Reliable")
  BY <1>2, NewHandle DEF Reliability
<1>4. Owner(e) \in Peers /\ e \in EndsOf(Owner(e))
  BY EndFacts
<1>5. PICK r \in Registration(Owner(e)) : r = [end |-> e, stream |-> s, quic |-> q]
  BY <1>4, RegistrationMembers
<1>6. /\ streamReg' = [streamReg EXCEPT ![Owner(e)] = Append(@, r)]
      /\ reading' = [reading EXCEPT ![half] = "running"]
  BY <1>2, <1>3, <1>5 DEF AcceptStream
<1>7. TransportOK' /\ OpensOnly
  BY <1>1, TransportFrame, SameOpened DEF LanesInv
<1>8. NamesOK'
  <2>1. \A o \in Peers : \A x \in Elems(streamReg'[o]) : x \in Elems(streamReg[o]) \/ x = r
    BY <1>4, <1>6, OneRegistered
  <2>2. Carries(q, s)
    BY <1>2, <1>3 DEF Carries
  <2>3. Names(r.quic, r.stream)'
    BY <1>1, <1>5, <2>2, CarriesStays DEF Names
  <2>. QED
    BY <1>1, <1>7, <2>1, <2>3, NamesFrame DEF LanesInv
<1>9. OutlivesNone'
  <2>1. \A g \in Halves : g # half => reading'[g] = reading[g]
    BY <1>6, TransportTypes
  <2>. QED
    BY <1>1, <1>2, <2>1, OutlivesFrame DEF LanesInv
<1>. QED
  BY <1>7, <1>8, <1>9 DEF LanesInv

LEMMA ReadHalfLanes ==
    ASSUME TypeOK, OwnStreams, LanesInv, NEW h \in Halves, ReadHalf(h)
    PROVE  LanesInv'
<1>1. CASE ReadFrame(h)
  <2>1. UNCHANGED <<opened, reliable, streamReg, writing, conn, reading>>
    BY <1>1 DEF ReadFrame, mapVars, loopVars
  <2>2. TransportOK' /\ OpensOnly
    BY <1>1, <2>1, ReadTransport, SameOpened DEF LanesInv
  <2>3. NamesOK'
    BY <2>1, <2>2, NamesFrame DEF LanesInv
  <2>4. OutlivesNone'
    BY <2>1, OutlivesFrame DEF LanesInv
  <2>. QED
    BY <2>2, <2>3, <2>4 DEF LanesInv
<1>2. CASE ReadEnd(h)
  <2>1. \A g \in Halves : reading'[g] = "running" => reading[g] = "running"
    BY <1>2, TransportTypes DEF ReadEnd
  <2>. QED
    BY <1>2, <2>1, QuietLanes DEF ReadEnd, mapVars, loopVars, historyVars
<1>. QED
  BY <1>1, <1>2 DEF ReadHalf

-------------------------------------------------------------------------------
LEMMA LanesInit == Init => LanesInv
<1> SUFFICES ASSUME Init PROVE LanesInv
  OBVIOUS
<1>1. /\ opened = [e \in Ends |-> <<>>] /\ pipe = [h \in Halves |-> <<>>]
      /\ accepted = [k \in Key |-> <<>>] /\ delivered = [k \in Key |-> <<>>]
      /\ reliable = [k \in Key |-> NoStream] /\ streamReg = [p \in Peers |-> <<>>]
      /\ writing = [p \in Peers |-> <<>>] /\ reading = [h \in Halves |-> "none"]
  BY DEF Init
<1>2. \A q, s : q[1] \in Ends => ~Carries(q, s)
  BY <1>1 DEF Carries
<1>3. LanesOK
  BY <1>2, StreamParts DEF LanesOK
<1>4. UnopenedOK
  BY <1>1 DEF UnopenedOK
<1>5. UnusedOK
  BY <1>1, KeyFacts, EndFacts DEF UnusedOK
<1>6. NamesOK
  BY <1>1 DEF NamesOK, MapNames, RegistrationNames, WritingNames, Names, Elems
<1>7. OutlivesNone
  BY <1>1 DEF OutlivesNone
<1>. QED
  BY <1>3, <1>4, <1>5, <1>6, <1>7 DEF LanesInv, TransportOK

LEMMA LanesNext ==
    ASSUME IndType, TypeOK', OwnStreams, OwnStreams', LanesInv, [Next]_vars
    PROVE  LanesInv'
<1>1. TypeOK
  BY DEF IndType
<1>2. ASSUME NEW p \in Peers, HandleCommand(p) PROVE LanesInv'
  <2>1. CASE BindFails \/ ConnectFails(p) \/ CreatePanics(p) \/ BackendShutdown(p)
    <3>1. Panic(Server) \/ Panic(p) \/ BackendShutdown(p)
      BY <2>1 DEF BindFails, ConnectFails, CreatePanics
    <3>2. Stop(Server) \/ Stop(p)
      BY <3>1 DEF Panic, BackendShutdown
    <3>. QED
      BY <1>1, <3>2, ServerIsPeer, StopLanes
  <2>2. CASE Bind \/ (p \in Clients /\ Connect(p))
    BY <1>1, <2>2, ConnectionLanes
  <2>3. CASE SendStep(p)
    BY <1>1, <2>3, SendLanes
  <2>4. CASE CreateReliable(p) \/ CreateWaits(p) \/ CreateDropped(p) \/ CreateUnreliable(p)
    BY <2>4, CreateLanes
  <2>5. CASE BackendCloseStream(p)
    BY <1>1, <2>5, CloseStreamLanes
  <2>. QED
    BY <1>2, <2>1, <2>2, <2>3, <2>4, <2>5 DEF HandleCommand, CreateStep
<1>3. ASSUME NEW p \in Peers, Resume(p) PROVE LanesInv'
  <2>1. CASE OpeningPanics(p)
    BY <1>1, <2>1, StopLanes DEF OpeningPanics, Panic
  <2>. QED
    BY <1>1, <1>3, <2>1, WriteLanes, CreateResumesLanes DEF Resume
<1>4. ASSUME NEW d \in net, ReadDatagram(d[1], d[2]) PROVE LanesInv'
  <2>1. d[1] \in Ends /\ d[2] \in Packet
    BY <1>1 DEF TypeOK, HistoryTypeOK
  <2>. QED
    BY <1>1, <1>4, <2>1, ReadDatagramLanes
<1>5. ASSUME NEW e \in Ends, AcceptStream(e) \/ Break(e) \/ Notice(e) PROVE LanesInv'
  BY <1>1, <1>5, AcceptStreamLanes, ConnectionLanes DEF Break, Notice
<1>. QED
  BY <1>1, <1>2, <1>3, <1>4, <1>5, AppLanes, RegisterStreamLanes, ConnectionLanes,
     HandshakeFailsLanes, ReadHalfLanes DEF Next

-------------------------------------------------------------------------------
(* Every step is one of the links, or leaves them                          *)

Endures == \A e \in Ends : conn[e] = "closed" => conn'[e] = "closed"

\* A connection that was closed does not come back.
LEMMA StepEndures ==
    ASSUME TypeOK, NewsInv, [Next]_vars
    PROVE  Endures
<1>1. ASSUME NEW c \in Clients, Connect(c) PROVE Endures
  <2>1. PICK e \in Ends : e = <<c, "dial">> /\ c \in Peers
    BY ClientEnds
  <2>2. /\ HandlesQuietly(c, "Connect") /\ conn' = [conn EXCEPT ![e] = "up"]
    BY <1>1, <2>1 DEF Connect
  <2>3. /\ cmds[c] # <<>> /\ Head(cmds[c]).type = "Connect" /\ cmds[c] \in Seq(Commands[c])
        /\ Head(cmds[c]) \in Command(EndsOf(c), Packet) /\ Head(cmds[c]) \in Commands[c]
    BY <2>1, <2>2, QueueTypes, QuietType
  <2>4. Head(cmds[c]) = ConnectCmd
    BY <2>3 DEF Command, BindCmd, ConnectCmd, ShutdownCmd, SendCmd, CreateStreamCmd, CloseStreamCmd
  <2>5. /\ Count(cmds[c], {ConnectCmd}) = Count(Tail(cmds[c]), {ConnectCmd}) + 1
        /\ Count(Tail(cmds[c]), {ConnectCmd}) \in Nat
    BY <2>3, <2>4, CountTail, CountType, HeadTailProperties
  <2>6. None(e)
    BY <2>1, <2>5 DEF NewsInv, DialsOK, Dials
  <2>. QED
    BY <2>2, <2>6, TransportTypes DEF None, Endures
<1>2. CASE Accept
  <2>1. backlog \in Seq(AcceptEnds) /\ backlog # <<>> /\ conn' = [conn EXCEPT ![Head(backlog)] = "up"]
    BY <1>2 DEF TypeOK, AcceptTypeOK, Accept
  <2>2. PICK e \in AcceptEnds : e = Head(backlog) /\ Tail(backlog) \in Seq(AcceptEnds)
    BY <2>1, HeadTailProperties
  <2>3. /\ Count(backlog, {e}) = Count(Tail(backlog), {e}) + 1 /\ Count(Tail(backlog), {e}) \in Nat
    BY <2>1, <2>2, CountTail, CountType
  <2>4. None(e)
    BY <2>3 DEF NewsInv, BacklogOK
  <2>. QED
    BY <2>1, <2>2, <2>4, TransportTypes DEF None, Endures
<1>3. ASSUME NEW p \in Peers, Stop(p) PROVE Endures
  BY <1>3 DEF Stop, Endures
<1>4. ASSUME NEW e \in Ends, Lose(e) PROVE Endures
  BY <1>4, TransportTypes DEF Lose, Endures
<1>5. CASE UNCHANGED conn
  BY <1>5 DEF Endures
<1>6. ASSUME NEW p \in Peers, HandleCommand(p) \/ Resume(p) \/ RegisterStream(p) PROVE Endures
  <2>1. CASE \/ BindFails \/ ConnectFails(p) \/ CreatePanics(p) \/ BackendShutdown(p) \/ OpeningPanics(p)
    <3>1. Stop(Server) \/ Stop(p)
      BY <2>1 DEF BindFails, ConnectFails, CreatePanics, BackendShutdown, OpeningPanics, Panic
    <3>. QED
      BY <1>3, <3>1, ServerIsPeer
  <2>2. CASE p \in Clients /\ Connect(p)
    BY <1>1, <2>2
  <2>3. CASE \/ Bind \/ SendStep(p) \/ CreateReliable(p) \/ CreateWaits(p) \/ CreateDropped(p)
             \/ CreateUnreliable(p) \/ BackendCloseStream(p) \/ WriteResumes(p) \/ WriteFails(p)
             \/ CreateResumes(p) \/ RegisterStream(p)
    BY <1>5, <2>3
    DEF Bind, SendStep, SendDropped, SendWritten, SendWaits, SendDatagram, SendFails,
        CreateReliable, CreateWaits, CreateDropped, CreateUnreliable, BackendCloseStream,
        WriteResumes, WriteFails, CreateResumes, OpenStream, RegisterStream, quicVars, quinnVars
  <2>. QED
    BY <1>6, <2>1, <2>2, <2>3 DEF HandleCommand, CreateStep, Resume
<1>7. CASE AppAction \/ UNCHANGED vars
  <2>1. UNCHANGED quinnVars
    BY <1>7 DEF AppAction, AppListen, AppDial, AppCreateStream, AppCloseStream, AppSend, AppPoll,
                AppShutdown, AppJoin, vars, quicVars
  <2>. QED
    BY <1>5, <2>1 DEF quinnVars
<1>8. CASE HandshakeFails \/ RegisterConnection
  BY <1>3, <1>5, <1>8, ServerIsPeer DEF HandshakeFails, RegisterConnection, quinnVars
<1>9. ASSUME NEW d \in net, ReadDatagram(d[1], d[2]) PROVE Endures
  BY <1>5, <1>9 DEF ReadDatagram, quinnVars
<1>10. ASSUME NEW e \in Ends, AcceptStream(e) \/ Break(e) \/ Notice(e) PROVE Endures
  BY <1>4, <1>5, <1>10 DEF AcceptStream, Break, Notice
<1>11. ASSUME NEW h \in Halves, ReadHalf(h) PROVE Endures
  BY <1>5, <1>11 DEF ReadHalf, ReadFrame, ReadEnd
<1>. QED
  BY <1>2, <1>6, <1>7, <1>8, <1>9, <1>10, <1>11 DEF Next


\* The keys whose end is closed, and the other side of a key.
Closed == {k \in Key : conn[k[1]] = "closed"}

Across == [k \in Key |-> <<Other(k[1]), k[2]>>]

LEMMA LinkInit == Init => Links!Init
<1> SUFFICES ASSUME Init PROVE Links!Init
  OBVIOUS
<1>1. /\ conn = [e \in Ends |-> "none"] /\ accepted = [k \in Key |-> <<>>]
      /\ delivered = [k \in Key |-> <<>>]
  BY DEF Init
<1>2. Closed = {}
  BY <1>1, KeyParts DEF Closed
<1>. QED
  BY <1>1, <1>2 DEF Links!Init, Closed

LEMMA LinkLeave ==
    ASSUME Endures, UNCHANGED <<accepted, delivered>>
    PROVE  Links!Next
<1>1. \A k \in Key : conn[k[1]] = "closed" => conn'[k[1]] = "closed"
  BY KeyParts DEF Endures
<1>2. Links!Leave
  BY <1>1 DEF Links!Leave
<1>. QED
  BY <1>2 DEF Links!Next

LEMMA LinkAccept ==
    ASSUME NEW e \in Ends, NEW m \in Packet, Accepts(e, m), conn[e] = "up",
           UNCHANGED <<conn, delivered>>
    PROVE  Links!Next
<1>1. PICK k \in Key : k = <<e, m.stream>> /\ k[1] = e
  <2>1. m.stream \in StreamId
    BY DEF Packet
  <2>. QED
    BY <2>1, KeyFacts
<1>2. k \notin Closed /\ UNCHANGED Closed
  BY <1>1 DEF Closed
<1>3. accepted' = [accepted EXCEPT ![k] = Append(@, m)]
  BY <1>1 DEF Accepts
<1>4. Links!Accept(k, m)
  BY <1>2, <1>3 DEF Links!Accept, Closed
<1>. QED
  BY <1>4 DEF Links!Next

\* The frame a loop reads is the oldest packet that was not delivered.
LEMMA LinkDeliver ==
    ASSUME TypeOK, LanesInv, NEW h \in Halves, ReadFrame(h)
    PROVE  Links!Next
<1>1. PICK w \in Ends, t \in StreamId, r \in QuicStream, m \in Packet :
               /\ r \in StreamsOf(w) /\ h = <<r, w>> /\ w = Writer(h) /\ Reader(h) = Other(w)
               /\ Carries(r, t) /\ IsReliable(t) /\ m.stream = t
               /\ reading[h] = "running" /\ pipe[h] \in Seq(Packet) /\ pipe[h] # <<>>
               /\ m = Head(pipe[h]) /\ pipe' = [pipe EXCEPT ![h] = Tail(@)]
               /\ delivered' = [delivered EXCEPT ![<<Other(w), t>>] = Append(@, m)]
               /\ UNCHANGED <<accepted, opened>>
  BY FrameRead DEF LanesInv
<1>2. PICK k \in Key, l \in Key : /\ k = <<Other(w), t>> /\ k[1] = Other(w) /\ k[2] = t
                                  /\ l = <<w, t>> /\ Across[k] = l
  <2>1. Other(w) \in Ends /\ Other(Other(w)) = w
    BY EndFacts
  <2>2. /\ <<Other(w), t>> \in Key /\ <<Other(w), t>>[1] = Other(w) /\ <<Other(w), t>>[2] = t
        /\ <<w, t>> \in Key
    BY <2>1, KeyFacts
  <2>. QED
    BY <2>1, <2>2 DEF Across
<1>3. k \notin Closed /\ UNCHANGED conn
  BY <1>1, <1>2 DEF LanesInv, OutlivesNone, Closed, ReadFrame
<1>4. PICK d \in Seq(Packet), p \in Seq(Packet), a \in Seq(Packet) :
          d = delivered[k] /\ p = pipe[h] /\ a = accepted[l]
  BY <1>1, TransportTypes
<1>5. a = d \o p
  <2>1. accepted[<<w, t>>] = delivered[<<Other(w), t>>] \o pipe[<<r, w>>]
    BY <1>1 DEF LanesInv, TransportOK, LanesOK
  <2>. QED
    BY <1>1, <1>2, <1>4, <2>1
<1>6. Len(d) < Len(a) /\ a[Len(d) + 1] = m
  <2>1. p # <<>> /\ m = Head(p) /\ Len(d) \in Nat /\ Len(p) \in Nat /\ Len(p) # 0
    BY <1>1, <1>4, EmptySeq, LenProperties
  <2>2. /\ Len(d \o p) = Len(d) + Len(p)
        /\ \A i \in 1 .. Len(d) + Len(p) : (d \o p)[i] = IF i <= Len(d) THEN d[i] ELSE p[i - Len(d)]
    BY ConcatProperties
  <2>3. (d \o p)[Len(d) + 1] = p[1] /\ p[1] = Head(p)
    BY <2>1, <2>2, HeadTailProperties
  <2>. QED
    BY <1>5, <2>1, <2>2, <2>3
<1>7. delivered' = [delivered EXCEPT ![k] = Append(@, accepted[Across[k]][Len(@) + 1])]
  BY <1>1, <1>2, <1>4, <1>6, TransportTypes
<1>8. Links!Deliver(k)
  BY <1>1, <1>2, <1>3, <1>4, <1>6, <1>7 DEF Links!Deliver, Closed, Across
<1>. QED
  BY <1>8 DEF Links!Next

LEMMA LinkStep ==
    ASSUME TypeOK, NewsInv, LanesInv, [Next]_vars
    PROVE  Links!Next
<1>1. Endures
  BY StepEndures
<1>2. CASE UNCHANGED <<accepted, delivered>>
  BY <1>1, <1>2, LinkLeave
<1>3. ASSUME NEW p \in Peers, SendWritten(p) \/ SendDatagram(p) \/ WriteResumes(p)
      PROVE  Links!Next
  <2>1. CASE SendWritten(p)
    <3>1. /\ SendsReliably(p) /\ conn[HeadEnd(p)] = "up" /\ UNCHANGED <<conn, delivered>>
          /\ Accepts(Writer(HalfOf(HeadKey(p))), HeadPacket(p))
      BY <2>1 DEF SendWritten, Put
    <3>2. /\ Writer(HalfOf(HeadKey(p))) = HeadEnd(p)
          /\ HeadPacket(p) \in Packet /\ HeadEnd(p) \in Ends
      BY <3>1, SendHalf
    <3>. QED
      BY <3>1, <3>2, LinkAccept
  <2>2. CASE SendDatagram(p)
    <3>1. /\ HandlesQuietly(p, "Send") /\ conn[HeadEnd(p)] = "up"
          /\ Accepts(HeadEnd(p), HeadPacket(p)) /\ UNCHANGED <<conn, delivered>>
      BY <2>2 DEF SendDatagram, quinnVars
    <3>2. HeadPacket(p) \in Packet /\ HeadEnd(p) \in Ends
      BY <3>1, QuietType, HeadParts
    <3>. QED
      BY <3>1, <3>2, LinkAccept
  <2>3. CASE WriteResumes(p)
    <3>1. PICK h \in Halves, m \in Packet : /\ h = Head(writing[p]).half /\ Writer(h) \in Ends
                                            /\ m = Head(writing[p]).packet
      BY <2>3, WritingHead DEF WriteResumes
    <3>2. conn[Writer(h)] = "up" /\ Accepts(Writer(h), m) /\ UNCHANGED <<conn, delivered>>
      BY <2>3, <3>1 DEF WriteResumes, Put
    <3>. QED
      BY <3>1, <3>2, LinkAccept
  <2>. QED
    BY <1>3, <2>1, <2>2, <2>3
<1>4. ASSUME NEW p \in Peers, Stop(p) PROVE UNCHANGED <<accepted, delivered>>
  BY <1>4 DEF Stop, historyVars
<1>5. ASSUME NEW p \in Peers, HandleCommand(p) \/ Resume(p) \/ RegisterStream(p)
      PROVE  Links!Next
  <2>1. CASE \/ BindFails \/ ConnectFails(p) \/ CreatePanics(p) \/ BackendShutdown(p) \/ OpeningPanics(p)
    <3>1. Stop(Server) \/ Stop(p)
      BY <2>1 DEF BindFails, ConnectFails, CreatePanics, BackendShutdown, OpeningPanics, Panic
    <3>. QED
      BY <1>2, <1>4, <3>1, ServerIsPeer
  <2>2. CASE SendWritten(p) \/ SendDatagram(p) \/ WriteResumes(p)
    BY <1>3, <2>2
  <2>3. CASE \/ Bind \/ (p \in Clients /\ Connect(p)) \/ SendDropped(p) \/ SendWaits(p) \/ SendFails(p)
             \/ CreateReliable(p) \/ CreateWaits(p) \/ CreateDropped(p) \/ CreateUnreliable(p)
             \/ BackendCloseStream(p) \/ WriteFails(p) \/ CreateResumes(p) \/ RegisterStream(p)
    BY <1>2, <2>3
    DEF Bind, Connect, SendDropped, SendWaits, SendFails, CreateReliable, CreateWaits,
        CreateDropped, CreateUnreliable, BackendCloseStream, WriteFails, CreateResumes,
        OpenStream, RegisterStream, quicVars, historyVars
  <2>. QED
    BY <1>5, <2>1, <2>2, <2>3 DEF HandleCommand, SendStep, CreateStep, Resume
<1>6. CASE AppAction \/ UNCHANGED vars
  <2>1. UNCHANGED <<accepted, delivered>>
    BY <1>6 DEF AppAction, AppListen, AppDial, AppCreateStream, AppCloseStream, AppSend, AppPoll,
                AppShutdown, AppJoin, vars, quicVars, historyVars
  <2>. QED
    BY <1>2, <2>1
<1>7. CASE HandshakeFails \/ RegisterConnection \/ Accept
  BY <1>2, <1>4, <1>7, ServerIsPeer DEF HandshakeFails, RegisterConnection, Accept, historyVars
<1>8. ASSUME NEW d \in net, ReadDatagram(d[1], d[2]) PROVE Links!Next
  BY <1>2, <1>8 DEF ReadDatagram, historyVars
<1>9. ASSUME NEW e \in Ends, AcceptStream(e) \/ Break(e) \/ Notice(e) PROVE Links!Next
  BY <1>2, <1>9 DEF AcceptStream, Break, Notice, Lose, historyVars
<1>10. ASSUME NEW h \in Halves, ReadHalf(h) PROVE Links!Next
  BY <1>2, <1>10, LinkDeliver DEF ReadHalf, ReadEnd, historyVars
<1>. QED
  BY <1>5, <1>6, <1>7, <1>8, <1>9, <1>10 DEF Next

(***************************************************************************)
(* While one side of a connection creates the streams, the backends        *)
(* implement the reliable links, for any number of clients, any window and *)
(* limit of open streams, and whatever is lost, closed or fails: what was  *)
(* written for a reliable GameStream reaches the application in order,     *)
(* each packet once and none left out until the end is closed, although    *)
(* the loop may hold a frame while its stream is closed, and the readers   *)
(* give the packets to the application past the loop.                      *)
(***************************************************************************)
THEOREM LinksTheorem ==
    ASSUME MaxStreams <= Slots, \A e \in Creators : Other(e) \notin Creators
    PROVE  Spec => ImplementsLinks
<1> DEFINE Inv == IndType /\ NewsInv /\ OnceInv /\ LanesInv
<1>1. Init => Inv
  BY InitType, NewsInit, OnceInit, LanesInit
<1>2. Counted /\ OnceInv => OwnStreams
  BY OneCarries
<1>3. IndType => Counted
  BY CountedType DEF IndType
<1>4. Counted /\ Counted' /\ OnceInv /\ [Next]_vars => OnceInv'
  BY OnceNext
<1>5. IndType /\ TypeOK' /\ OwnStreams /\ OwnStreams' /\ LanesInv /\ [Next]_vars => LanesInv'
  BY LanesNext
<1>6. IndType => TypeOK
  BY DEF IndType
<1>7. Inv /\ [Next]_vars => [Links!Next]_(Links!linkVars)
  BY <1>6, LinkStep
<1>. QED
  BY <1>1, <1>2, <1>3, <1>4, <1>5, <1>6, <1>7, NextType, NewsNext, LinkInit, PTL
  DEF Spec, ImplementsLinks, Links!Spec

===============================================================================
