------------------------------ MODULE TcpBackend ------------------------------
(***************************************************************************)
(* The TCP backend of src/protocols/tcp_protocol.rs: a server that listens *)
(* and clients that each dial it, with the GamePeer in front of every one. *)
(*                                                                         *)
(* A backend is one thread in a select loop.  Around it run tasks of its   *)
(* own: one that accepts connections, and for each socket a peer handler   *)
(* that moves packets from a bounded queue (write_tx) into the socket and  *)
(* frames from the socket to the application's event queue.  A connection  *)
(* has two ends, <<client, "dial">> and <<client, "accept">>; an end stands*)
(* for the uuid its process gave the connection.                           *)
(*                                                                         *)
(* The network is a reliable byte stream that may be reset at any time.    *)
(* One frame is one unit of it: a reader sees a frame when all of it has   *)
(* arrived, and a writer is through when all of it is in the buffers.      *)
(***************************************************************************)
EXTENDS GamePeer, FiniteSets, SequencesExt

CONSTANTS
    Server,             \* the process that listens
    RegCap,             \* capacity of the registration channel, 16 in the code
    WriteCap,           \* capacity of a peer's write queue, 100 in the code
    SockCap,            \* frames that fit in the socket buffers of one direction
    Kinds,              \* the kinds of stream the applications create
    Creators,           \* the ends whose application creates streams
    Closers,            \* the ends whose application closes streams
    MaxSends,           \* bound on the calls of send on each end
    Quitters,           \* the processes whose application calls shutdown
    MaxDials,           \* bound on the failed calls of connect of a client
    Resets,             \* the clients whose connection the network may reset
    Mortals,            \* the processes that may die
    AcceptMayFail,      \* whether accept() may return an error
    PortTaken,          \* whether another program may hold the server's port
    Panics              \* what a panic may do: "unwind" (debug builds) or "abort" (release)

Clients == Peers \ {Server}
DialEnds == Clients \X {"dial"}
AcceptEnds == Clients \X {"accept"}
Ends == DialEnds \cup AcceptEnds

ASSUME TcpAssumption ==
    /\ Server \in Peers
    /\ RegCap \in Nat \ {0} /\ WriteCap \in Nat \ {0} /\ SockCap \in Nat \ {0}
    /\ Kinds \subseteq Reliability /\ Creators \subseteq Ends /\ Closers \subseteq Ends
    /\ MaxSends \in [Ends -> Nat] /\ MaxDials \in Nat
    /\ Quitters \subseteq Peers
    /\ Resets \subseteq Clients
    /\ Mortals \subseteq Peers
    /\ AcceptMayFail \in BOOLEAN /\ PortTaken \in BOOLEAN
    /\ Panics \subseteq {"unwind", "abort"}

Owner(e) == IF e[2] = "dial" THEN e[1] ELSE Server
Other(e) == IF e[2] = "dial" THEN <<e[1], "accept">> ELSE <<e[1], "dial">>
EndsOf(p) == {e \in Ends : Owner(e) = p}

\* What a Send carries: the stream's handle and the number of the Send on its end.
Packet == [stream : StreamId, n : UNION {1 .. MaxSends[e] : e \in Ends}]

VARIABLES
    listening,          \* the accept task runs
    backlog,            \* connections the kernel has, that accept() has not returned
    registering,        \* the accept task's hand on peer_reg_tx: empty or one end
    regQ,               \* peer_reg_tx / peer_reg_rx
    registered,         \* the keys of the backends' maps peers
    waiting,            \* the packet the backend's tx.send().await holds for an end
    writeQ,             \* write_tx / write_rx of an end's handler
    hold,               \* the packet the handler's framed.send().await holds
    sock,               \* frames written by an end and not read by the other
    handler,            \* the peer handler task: none, running, done
    known,              \* known_streams of a handler
    reset,              \* the clients whose connection was reset
    sent,               \* history: Sends called on an end
    accepted,           \* history: packets the backend queued for an end
    delivered           \* history: packets an end's handler gave to the application

linkVars == <<waiting, writeQ, hold, sock, handler, known, reset>>
acceptVars == <<listening, backlog, registering, regQ>>
historyVars == <<sent, accepted, delivered>>
tcpVars == <<listening, backlog, registering, regQ, registered, waiting, writeQ, hold,
             sock, handler, known, reset, sent, accepted, delivered>>
vars == <<peerVars, tcpVars>>

TcpCommand == [p \in Peers |-> Command(EndsOf(p), Packet)]
TcpEvent == [p \in Peers |-> Event(EndsOf(p), Packet)]

AtMostOne(S) == {<<>>} \cup {<<x>> : x \in S}

AcceptTypeOK ==
    /\ listening \in BOOLEAN
    /\ backlog \in Seq(AcceptEnds)
    /\ registering \in AtMostOne(AcceptEnds)
    /\ regQ \in Seq(AcceptEnds) /\ Len(regQ) <= RegCap
    /\ registered \subseteq Ends

LinkTypeOK ==
    /\ waiting \in [Ends -> AtMostOne(Packet)]
    /\ writeQ \in [Ends -> Seq(Packet)] /\ \A e \in Ends : Len(writeQ[e]) <= WriteCap
    /\ hold \in [Ends -> AtMostOne(Packet)]
    /\ sock \in [Ends -> Seq(Packet)] /\ \A e \in Ends : Len(sock[e]) <= SockCap
    /\ handler \in [Ends -> {"none", "running", "done"}]
    /\ known \in [Ends -> SUBSET StreamId]
    /\ reset \subseteq Clients

HistoryTypeOK ==
    /\ sent \in [Ends -> Nat] /\ \A e \in Ends : sent[e] <= MaxSends[e]
    /\ accepted \in [Ends -> Seq(Packet)]
    /\ delivered \in [Ends -> Seq(Packet)]

\* Every queue holds what it may and stays within its capacity.
TypeOK ==
    /\ PeerTypeOK(TcpCommand, TcpEvent)
    /\ AcceptTypeOK
    /\ LinkTypeOK
    /\ HistoryTypeOK

Init ==
    /\ PeerInit
    /\ listening = FALSE
    /\ backlog = <<>>
    /\ registering = <<>>
    /\ regQ = <<>>
    /\ registered = {}
    /\ waiting = [e \in Ends |-> <<>>]
    /\ writeQ = [e \in Ends |-> <<>>]
    /\ hold = [e \in Ends |-> <<>>]
    /\ sock = [e \in Ends |-> <<>>]
    /\ handler = [e \in Ends |-> "none"]
    /\ known = [e \in Ends |-> {}]
    /\ reset = {}
    /\ sent = [e \in Ends |-> 0]
    /\ accepted = [e \in Ends |-> <<>>]
    /\ delivered = [e \in Ends |-> <<>>]

Running(e) == handler[e] = "running"
Closed(e) == handler[e] = "done"
Broken(e) == e[1] \in reset

-------------------------------------------------------------------------------
(* The applications.  Bounds: a client has one connection and MaxDials      *)
(* failed attempts at it; a server listens again only after its listener    *)
(* has ended, or to its death.                                              *)

Failures(c) == Cardinality({i \in DOMAIN events[c] : events[c][i] = ConnectError})

AppListen ==
    /\ ~Contains(cmds[Server], BindCmd)
    /\ ~listening \/ Server \in Mortals
    /\ Listen(Server)
    /\ UNCHANGED tcpVars

AppDial(c) ==
    /\ handler[<<c, "dial">>] = "none"
    /\ ~Contains(cmds[c], ConnectCmd)
    /\ Failures(c) <= MaxDials
    /\ Dial(c)
    /\ UNCHANGED tcpVars

AppCreateStream(e, reliability) ==
    /\ e \in Creators
    /\ CreateStream(Owner(e), e, reliability)
    /\ UNCHANGED tcpVars

AppCloseStream(e, stream) ==
    /\ e \in Closers
    /\ CloseStream(Owner(e), e, stream)
    /\ UNCHANGED tcpVars

AppSend(e, stream) ==
    /\ sent[e] < MaxSends[e]
    /\ Send(Owner(e), e, [stream |-> stream, n |-> sent[e] + 1])
    /\ sent' = [sent EXCEPT ![e] = @ + 1]
    /\ UNCHANGED <<registered, acceptVars, linkVars, accepted, delivered>>

AppPoll(p) == Poll(p) /\ UNCHANGED tcpVars

AppShutdown(p) == p \in Quitters /\ Shutdown(p) /\ UNCHANGED tcpVars

AppJoin(p) == Join(p) /\ UNCHANGED tcpVars

-------------------------------------------------------------------------------
(* The backend's loop.  It takes no command while a send waits for room.   *)

Blocked(p) == \E e \in EndsOf(p) : waiting[e] # <<>>

Handles(p, type) == ~Blocked(p) /\ Receives(p, type)

\* The loop takes the command at the head of the queue, and changes no more
\* of the shared state than the action says.
HandlesQuietly(p, type) ==
    /\ Handles(p, type)
    /\ TakeCommand(p)
    /\ UNCHANGED <<polled, next_stream_id, app, thread>>

RegisterPeer ==
    /\ thread[Server] = "running" /\ ~Blocked(Server)
    /\ regQ # <<>>
    /\ registered' = registered \cup {Head(regQ)}
    /\ regQ' = Tail(regQ)
    /\ UNCHANGED <<peerVars, listening, backlog, registering, linkVars, historyVars>>

Bind ==
    /\ HandlesQuietly(Server, "Bind")
    /\ ~listening
    /\ listening' = TRUE
    /\ UNCHANGED <<events, backlog, registering, regQ, registered, linkVars, historyVars>>

\* Mutant: the dialing side registers the way the accept task does, later.
ConnectRegistersLater(c) ==
    LET e == <<c, "dial">> IN
    /\ HandlesQuietly(c, "Connect")
    /\ listening
    /\ backlog' = Append(backlog, Other(e))
    /\ handler' = [handler EXCEPT ![e] = "running"]
    /\ regQ' = Append(regQ, e)
    /\ Emit(c, <<Connected(e)>>)
    /\ UNCHANGED <<listening, registering, registered, waiting, writeQ, hold, sock, known,
                   reset, historyVars>>

\* The kernel completes the handshake before the server's accept() returns.
Connect(c) ==
    LET e == <<c, "dial">> IN
    /\ HandlesQuietly(c, "Connect")
    /\ listening
    /\ backlog' = Append(backlog, Other(e))
    /\ handler' = [handler EXCEPT ![e] = "running"]
    /\ registered' = registered \cup {e}
    /\ Emit(c, <<Connected(e)>>)
    /\ UNCHANGED <<listening, registering, regQ, waiting, writeQ, hold, sock, known, reset,
                   historyVars>>

ConnectFails(c) ==
    /\ HandlesQuietly(c, "Connect")
    /\ ~listening \/ c \in Resets
    /\ Emit(c, <<ConnectError>>)
    /\ UNCHANGED tcpVars

HeadConn(p) == Head(cmds[p]).conn
HeadPacket(p) == Head(cmds[p]).packet

\* Send to a connection the map does not have: dropped without a word.
SendUnknown(p) ==
    /\ HandlesQuietly(p, "Send")
    /\ HeadConn(p) \notin registered
    /\ UNCHANGED <<events, tcpVars>>

\* Send to a connection whose handler is gone: the channel's error is ignored.
SendClosed(p) ==
    /\ HandlesQuietly(p, "Send")
    /\ HeadConn(p) \in registered /\ Closed(HeadConn(p))
    /\ UNCHANGED <<events, tcpVars>>

\* Mutant: one packet more than the channel holds.
SendQueuedOffByOne(p) ==
    LET e == HeadConn(p) IN
    /\ HandlesQuietly(p, "Send")
    /\ e \in registered /\ ~Closed(e)
    /\ Len(writeQ[e]) <= WriteCap
    /\ writeQ' = [writeQ EXCEPT ![e] = Append(@, HeadPacket(p))]
    /\ accepted' = [accepted EXCEPT ![e] = Append(@, HeadPacket(p))]
    /\ UNCHANGED <<events, acceptVars, registered, waiting, hold, sock, handler, known, reset,
                   sent, delivered>>

SendQueued(p) ==
    LET e == HeadConn(p) IN
    /\ HandlesQuietly(p, "Send")
    /\ e \in registered /\ ~Closed(e)
    /\ Len(writeQ[e]) < WriteCap
    /\ writeQ' = [writeQ EXCEPT ![e] = Append(@, HeadPacket(p))]
    /\ accepted' = [accepted EXCEPT ![e] = Append(@, HeadPacket(p))]
    /\ UNCHANGED <<events, acceptVars, registered, waiting, hold, sock, handler, known, reset,
                   sent, delivered>>

\* Mutant: try_send in place of send().await.
SendWaitsDropping(p) ==
    LET e == HeadConn(p) IN
    /\ HandlesQuietly(p, "Send")
    /\ e \in registered /\ ~Closed(e)
    /\ Len(writeQ[e]) >= WriteCap
    /\ accepted' = [accepted EXCEPT ![e] = Append(@, HeadPacket(p))]
    /\ UNCHANGED <<events, acceptVars, registered, linkVars, sent, delivered>>

SendWaits(p) ==
    LET e == HeadConn(p) IN
    /\ HandlesQuietly(p, "Send")
    /\ e \in registered /\ ~Closed(e)
    /\ Len(writeQ[e]) >= WriteCap
    /\ waiting' = [waiting EXCEPT ![e] = <<HeadPacket(p)>>]
    /\ accepted' = [accepted EXCEPT ![e] = Append(@, HeadPacket(p))]
    /\ UNCHANGED <<events, acceptVars, registered, writeQ, hold, sock, handler, known, reset,
                   sent, delivered>>

\* The wait is over when the handler has taken a packet, or has ended.
SendResumes(e) ==
    /\ waiting[e] # <<>>
    /\ ~Closed(e) /\ Len(writeQ[e]) < WriteCap
    /\ writeQ' = [writeQ EXCEPT ![e] = @ \o waiting[e]]
    /\ waiting' = [waiting EXCEPT ![e] = <<>>]
    /\ UNCHANGED <<peerVars, acceptVars, registered, hold, sock, handler, known, reset,
                   historyVars>>

\* Mutant: the wait ends only when there is room.
SendGivesUpNever(e) == FALSE /\ UNCHANGED vars

SendGivesUp(e) ==
    /\ waiting[e] # <<>>
    /\ Closed(e)
    /\ waiting' = [waiting EXCEPT ![e] = <<>>]
    /\ UNCHANGED <<peerVars, acceptVars, registered, writeQ, hold, sock, handler, known, reset,
                   historyVars>>

\* create_stream and close_stream are answered from the command alone.
BackendCreateStream(p) ==
    LET cmd == Head(cmds[p]) IN
    /\ HandlesQuietly(p, "CreateStream")
    /\ Emit(p, <<StreamCreated(cmd.conn, NewStream(cmd.index, cmd.reliability))>>)
    /\ UNCHANGED tcpVars

BackendCloseStream(p) ==
    /\ HandlesQuietly(p, "CloseStream")
    /\ Emit(p, <<StreamClosed(HeadConn(p), Head(cmds[p]).stream)>>)
    /\ UNCHANGED tcpVars

-------------------------------------------------------------------------------
(* The accept task.  It announces the connection and starts its handler     *)
(* before the backend's map knows it.                                       *)

Accept ==
    LET e == Head(backlog) IN
    /\ listening /\ registering = <<>> /\ backlog # <<>>
    /\ backlog' = Tail(backlog)
    /\ registering' = <<e>>
    /\ handler' = [handler EXCEPT ![e] = "running"]
    /\ Emit(Server, <<Connected(e)>>)
    /\ UNCHANGED <<cmds, polled, next_stream_id, app, thread, listening, regQ, registered,
                   waiting, writeQ, hold, sock, known, reset, historyVars>>

\* Mutant: try_send in place of send().await.
RegisterDropping ==
    /\ registering # <<>>
    /\ regQ' = IF Len(regQ) < RegCap THEN regQ \o registering ELSE regQ
    /\ registering' = <<>>
    /\ UNCHANGED <<peerVars, listening, backlog, registered, linkVars, historyVars>>

\* peer_reg_tx.send().await: the task waits here while the channel is full.
Register ==
    /\ registering # <<>> /\ Len(regQ) < RegCap
    /\ regQ' = regQ \o registering
    /\ registering' = <<>>
    /\ UNCHANGED <<peerVars, listening, backlog, registered, linkVars, historyVars>>

\* What the kernel does to connections that nobody accepted when the socket closes.
DropBacklog ==
    LET dropped == {backlog[i][1] : i \in DOMAIN backlog} IN
    /\ backlog' = <<>>
    /\ reset' = reset \cup dropped
    /\ sock' = [e \in Ends |-> IF e[1] \in dropped THEN <<>> ELSE sock[e]]

\* accept() fails and with it ends the loop, the listener and the port.
AcceptFails ==
    /\ AcceptMayFail
    /\ listening /\ registering = <<>>
    /\ listening' = FALSE
    /\ DropBacklog
    /\ UNCHANGED <<peerVars, registering, regQ, registered, waiting, writeQ, hold, handler,
                   known, historyVars>>

-------------------------------------------------------------------------------
(* A peer handler.  Its select loop reads only while no write is pending.   *)

\* The first frame of a stream announces it.
HandlerRead(e) ==
    LET packet == Head(sock[Other(e)]) IN
    /\ Running(e) /\ hold[e] = <<>> /\ sock[Other(e)] # <<>>
    /\ sock' = [sock EXCEPT ![Other(e)] = Tail(@)]
    /\ known' = [known EXCEPT ![e] = @ \cup {packet.stream}]
    /\ Emit(Owner(e), (IF packet.stream \in known[e] THEN <<>>
                       ELSE <<StreamCreated(e, packet.stream)>>) \o <<Message(e, packet)>>)
    /\ delivered' = [delivered EXCEPT ![e] = Append(@, packet)]
    /\ UNCHANGED <<cmds, polled, next_stream_id, app, thread, acceptVars, registered, waiting,
                   writeQ, hold, handler, reset, sent, accepted>>

AtEof(e) == Broken(e) \/ (Closed(Other(e)) /\ sock[Other(e)] = <<>>)

\* Mutant: the loop goes on after the end of the stream.
HandlerEofContinues(e) ==
    /\ Running(e) /\ hold[e] = <<>> /\ AtEof(e)
    /\ Emit(Owner(e), <<Disconnected(e)>>)
    /\ UNCHANGED <<cmds, polled, next_stream_id, app, thread, tcpVars>>

\* Mutant: an error is skipped, only the end of the stream ends the loop.
HandlerEofNotOnError(e) ==
    /\ Running(e) /\ hold[e] = <<>> /\ AtEof(e) /\ ~Broken(e)
    /\ Emit(Owner(e), <<Disconnected(e)>>)
    /\ handler' = [handler EXCEPT ![e] = "done"]
    /\ writeQ' = [writeQ EXCEPT ![e] = <<>>]
    /\ UNCHANGED <<cmds, polled, next_stream_id, app, thread, acceptVars, registered, waiting,
                   hold, sock, known, reset, historyVars>>

\* End of stream or error: the task ends, and its queue with it.
HandlerEof(e) ==
    /\ Running(e) /\ hold[e] = <<>> /\ AtEof(e)
    /\ Emit(Owner(e), <<Disconnected(e)>>)
    /\ handler' = [handler EXCEPT ![e] = "done"]
    /\ writeQ' = [writeQ EXCEPT ![e] = <<>>]
    /\ UNCHANGED <<cmds, polled, next_stream_id, app, thread, acceptVars, registered, waiting,
                   hold, sock, known, reset, historyVars>>

HandlerTake(e) ==
    /\ Running(e) /\ hold[e] = <<>> /\ writeQ[e] # <<>>
    /\ hold' = [hold EXCEPT ![e] = <<Head(writeQ[e])>>]
    /\ writeQ' = [writeQ EXCEPT ![e] = Tail(@)]
    /\ UNCHANGED <<peerVars, acceptVars, registered, waiting, sock, handler, known, reset,
                   historyVars>>

\* Mutant: feed in place of send, so a packet leaves only when another follows.
HandlerWriteUnflushed(e) ==
    /\ hold[e] # <<>> /\ writeQ[e] # <<>>
    /\ ~Broken(e) /\ ~Closed(Other(e)) /\ Len(sock[e]) < SockCap
    /\ sock' = [sock EXCEPT ![e] = @ \o hold[e]]
    /\ hold' = [hold EXCEPT ![e] = <<>>]
    /\ UNCHANGED <<peerVars, acceptVars, registered, waiting, writeQ, handler, known, reset,
                   historyVars>>

\* Mutant: the packet stays in the handler's hand and is written again.
HandlerWriteAgain(e) ==
    /\ hold[e] # <<>>
    /\ ~Broken(e) /\ ~Closed(Other(e)) /\ Len(sock[e]) < SockCap
    /\ sock' = [sock EXCEPT ![e] = @ \o hold[e]]
    /\ UNCHANGED <<peerVars, acceptVars, registered, waiting, writeQ, hold, handler, known, reset,
                   historyVars>>

\* framed.send().await returns when the frame fits in the socket buffers
HandlerWrite(e) ==
    /\ hold[e] # <<>>
    /\ ~Broken(e) /\ ~Closed(Other(e)) /\ Len(sock[e]) < SockCap
    /\ sock' = [sock EXCEPT ![e] = @ \o hold[e]]
    /\ hold' = [hold EXCEPT ![e] = <<>>]
    /\ UNCHANGED <<peerVars, acceptVars, registered, waiting, writeQ, handler, known, reset,
                   historyVars>>

\* or with an error, which is ignored.
HandlerWriteFails(e) ==
    /\ hold[e] # <<>>
    /\ Broken(e) \/ Closed(Other(e))
    /\ hold' = [hold EXCEPT ![e] = <<>>]
    /\ UNCHANGED <<peerVars, acceptVars, registered, waiting, writeQ, sock, handler, known, reset,
                   historyVars>>

-------------------------------------------------------------------------------
(* The end of a backend, of a process and of a connection                   *)

\* The runtime is dropped: the tasks end where they are, the sockets close
\* and the queues are lost.
Stop(p) ==
    /\ ThreadExits(p)
    /\ handler' = [e \in Ends |-> IF Owner(e) = p /\ Running(e) THEN "done" ELSE handler[e]]
    /\ waiting' = [e \in Ends |-> IF Owner(e) = p THEN <<>> ELSE waiting[e]]
    /\ writeQ' = [e \in Ends |-> IF Owner(e) = p THEN <<>> ELSE writeQ[e]]
    /\ hold' = [e \in Ends |-> IF Owner(e) = p THEN <<>> ELSE hold[e]]
    /\ registered' = registered \ EndsOf(p)
    /\ IF p = Server
       THEN listening' = FALSE /\ registering' = <<>> /\ regQ' = <<>> /\ DropBacklog
       ELSE UNCHANGED <<acceptVars, reset, sock>>
    /\ UNCHANGED <<events, polled, next_stream_id, known, historyVars>>

BackendShutdown(p) == Handles(p, "Shutdown") /\ Stop(p) /\ UNCHANGED app

\* A port with a listener, this process's or another's: expect("Bind failed")
\* ends the thread in a debug build, the process in a release build.
BindFails ==
    /\ Handles(Server, "Bind") /\ (listening \/ PortTaken)
    /\ Stop(Server)
    /\ \E build \in Panics :
          app' = IF build = "abort" THEN [app EXCEPT ![Server] = "dead"] ELSE app

\* The process ends in whatever state it is in.
Die(p) ==
    /\ p \in Mortals /\ thread[p] = "running"
    /\ Stop(p)
    /\ app' = [app EXCEPT ![p] = "dead"]

(***************************************************************************)
(* The connection is reset, by the network or because one side closed it   *)
(* with data unread: what is in flight is lost in both directions.         *)
(***************************************************************************)
Reset(c) ==
    LET link == {<<c, "dial">>, <<c, "accept">>} IN
    /\ handler[<<c, "dial">>] # "none" /\ c \notin reset
    /\ c \in Resets \/ \E e \in link : Closed(e)
    /\ reset' = reset \cup {c}
    /\ sock' = [e \in Ends |-> IF e \in link THEN <<>> ELSE sock[e]]
    /\ UNCHANGED <<peerVars, acceptVars, registered, waiting, writeQ, hold, handler, known,
                   historyVars>>

-------------------------------------------------------------------------------
AppAction ==
    \/ AppListen
    \/ \E c \in Clients : AppDial(c)
    \/ \E e \in Ends, r \in Kinds : AppCreateStream(e, r)
    \/ \E e \in Ends : \E stream \in KnownStreams(Owner(e), e) :
          AppCloseStream(e, stream) \/ AppSend(e, stream)
    \/ \E p \in Peers : AppPoll(p) \/ AppShutdown(p) \/ AppJoin(p)

\* What the loop does with the command at the head of its queue.
HandleCommand(p) ==
    \/ p = Server /\ (Bind \/ BindFails)
    \/ p \in Clients /\ (Connect(p) \/ ConnectFails(p))
    \/ SendUnknown(p) \/ SendClosed(p) \/ SendQueued(p) \/ SendWaits(p)
    \/ BackendCreateStream(p) \/ BackendCloseStream(p) \/ BackendShutdown(p)

ResumeSend(e) == SendResumes(e) \/ SendGivesUp(e)

WriteOut(e) == HandlerWrite(e) \/ HandlerWriteFails(e)

Next ==
    \/ AppAction
    \/ \E p \in Peers : HandleCommand(p)
    \/ RegisterPeer \/ Accept \/ Register \/ AcceptFails
    \/ \E e \in Ends : ResumeSend(e) \/ HandlerRead(e) \/ HandlerEof(e) \/ HandlerTake(e) \/ WriteOut(e)
    \/ \E p \in Peers : Die(p)
    \/ \E c \in Clients : Reset(c)

Spec == Init /\ [][Next]_vars

(***************************************************************************)
(* The executor runs every task that is ready, and select! picks among its *)
(* ready branches at random, so a branch that stays ready is taken.  A     *)
(* game loop polls.  Nothing obliges an application to call anything, the  *)
(* network to break, or a process to die.                                  *)
(***************************************************************************)
Fairness ==
    /\ \A p \in Peers :
          WF_vars(HandleCommand(p)) /\ WF_vars(AppPoll(p)) /\ WF_vars(AppJoin(p))
    /\ WF_vars(RegisterPeer) /\ WF_vars(Accept) /\ WF_vars(Register)
    /\ \A e \in Ends :
          /\ WF_vars(ResumeSend(e)) /\ WF_vars(WriteOut(e))
          /\ WF_vars(HandlerRead(e)) /\ WF_vars(HandlerEof(e)) /\ WF_vars(HandlerTake(e))

FairSpec == Spec /\ Fairness

-------------------------------------------------------------------------------
(* Safety *)

Intact(e) == ~Broken(e) /\ ~Closed(e) /\ ~Closed(Other(e))

(***************************************************************************)
(* While neither end of a connection is closed, every packet the backend   *)
(* accepted on an end is with the other application or on its way there,   *)
(* in order: in the socket, in the handler's hand, in its queue, or in the *)
(* hand of a backend that waits for room.  Backpressure never drops one.   *)
(***************************************************************************)
NothingLost ==
    \A e \in Ends : Intact(e) =>
        accepted[e] = delivered[Other(e)] \o sock[e] \o hold[e] \o writeQ[e] \o waiting[e]

(***************************************************************************)
(* What an application sees of a connection begins with its one Connected, *)
(* after its one Disconnected come no more than a StreamClosed or the      *)
(* StreamCreated of a stream it created, and a stream is announced before  *)
(* its first message, although the accept task, the backend and the        *)
(* handler all write to the event queue.                                   *)
(***************************************************************************)
EventsInOrder == ConnectedOnceAndFirst /\ NothingAfterEnd /\ MessagesAnnounced

(***************************************************************************)
(* A connection whose handler runs is in the backend's map or on its way   *)
(* there, once: a full registration channel holds the accept task up and   *)
(* loses no connection.                                                    *)
(***************************************************************************)
HandlerReachable ==
    \A e \in Ends : Running(e) =>
        Cardinality({i \in DOMAIN regQ : regQ[i] = e})
            + (IF registering = <<e>> THEN 1 ELSE 0) + (IF e \in registered THEN 1 ELSE 0) = 1

SendsQueued(e) ==
    {i \in DOMAIN cmds[Owner(e)] :
        cmds[Owner(e)][i].type = "Send" /\ cmds[Owner(e)][i].conn = e}

\* Every Send called on e is still queued as a command or was accepted.
SendsAccepted(e) == Intact(e) => sent[e] = Len(accepted[e]) + Cardinality(SendsQueued(e))

(***************************************************************************)
(* The dialing side is in the backend's map before its application can     *)
(* know of the connection, so none of its sends is dropped.                *)
(***************************************************************************)
DialerSendsAccepted == \A e \in DialEnds : SendsAccepted(e)

(***************************************************************************)
(* The same for the accepting side, which README.md:14 ("TCP | Reliable    *)
(* stream") promises as well.                                              *)
(***************************************************************************)
AcceptorSendsAccepted == \A e \in AcceptEnds : SendsAccepted(e)

(***************************************************************************)
(* The backends, tasks and sockets implement the reliable links: whatever  *)
(* the interleaving, a handler delivers the oldest accepted packet that is *)
(* not delivered yet, and an end that is closed delivers nothing more.     *)
(***************************************************************************)
Links == INSTANCE ReliableLinks WITH
    Opposite <- [e \in Ends |-> Other(e)],
    gone <- {e \in Ends : Closed(e)}

ImplementsLinks == Links!Spec

-------------------------------------------------------------------------------
(* Liveness *)

(* The sends are bounded, so that again and again nothing is on its way.   *)

AllDelivered(e) == Len(delivered[Other(e)]) = Len(accepted[e])

(***************************************************************************)
(* Every packet a backend accepted is delivered, unless the connection     *)
(* ends first (README.md:14, "Reliable stream").                           *)
(***************************************************************************)
AcceptedIsDelivered == []<>(\A e \in Ends : Intact(e) => AllDelivered(e))

\* The handlers of both ends await room in the socket, and neither reads.
Stalled(e) == \A x \in {e, Other(e)} : hold[x] # <<>> /\ Len(sock[x]) = SockCap

(***************************************************************************)
(* It is only the two handlers of a connection waiting for each other that *)
(* keeps a packet from being delivered: short of that no queue that is     *)
(* full, no select loop and no order of the tasks does.                    *)
(***************************************************************************)
DeliveredUnlessStalled == []<>(\A e \in Ends : Intact(e) => AllDelivered(e) \/ Stalled(e))

(***************************************************************************)
(* shutdown() returns: the backend gets to the command however full the    *)
(* queues before it are, and the application's join ends; but for a loop   *)
(* that awaits room in the queue of a handler that is stalled.             *)
(***************************************************************************)
ShutdownReturns ==
    []<>(\A p \in Peers : app[p] = "joining" =>
            \E e \in EndsOf(p) : waiting[e] # <<>> /\ Stalled(e) /\ Intact(e))

(***************************************************************************)
(* A connection the network lost is reported: an application whose handler *)
(* was started gets Disconnected, unless its own side ends.                *)
(***************************************************************************)
LossIsReported ==
    []<>(\A e \in Ends :
            handler[e] # "none" /\ (Broken(e) \/ Closed(Other(e))) =>
                \/ Disconnected(e) \in Seen(Owner(e))
                \/ app[Owner(e)] # "running" \/ thread[Owner(e)] # "running")

===============================================================================
