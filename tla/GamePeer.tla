------------------------------- MODULE GamePeer -------------------------------
(***************************************************************************)
(* `GamePeer` of src/lib.rs, the half of the library that every protocol   *)
(* shares: an application thread that queues commands for the backend      *)
(* thread and polls the events the backend, and the tasks it spawned, sent.*)
(* A protocol's module EXTENDS this one and adds what its backend does     *)
(* with the commands.                                                      *)
(*                                                                         *)
(* Both queues are unbounded channels.  The event queue is kept whole:     *)
(* events[p] is every event ever sent to p's application, polled[p] how    *)
(* many of them poll() has returned, so that the properties can speak of   *)
(* the order in which an application sees things.                          *)
(***************************************************************************)
EXTENDS GameStream, Sequences

CONSTANTS Peers,        \* the processes, each with one GamePeer
          MaxStreams    \* bound on the calls of create_stream of a process

ASSUME MaxStreamsAssumption == MaxStreams \in Nat

VARIABLES
    cmds,               \* cmd_tx / cmd_rx
    events,             \* event_tx / event_rx, with what has been polled
    polled,             \* length of the prefix of events that poll has returned
    next_stream_id,
    app,                \* the application thread: running, joining the backend, joined, dead
    thread              \* the backend thread: running, exited

peerVars == <<cmds, events, polled, next_stream_id, app, thread>>

PeerInit ==
    /\ cmds = [p \in Peers |-> <<>>]
    /\ events = [p \in Peers |-> <<>>]
    /\ polled = [p \in Peers |-> 0]
    /\ next_stream_id = [p \in Peers |-> 0]
    /\ app = [p \in Peers |-> "running"]
    /\ thread = [p \in Peers |-> "running"]

-------------------------------------------------------------------------------
(* BackendCommand and GameNetworkEvent *)

BindCmd == [type |-> "Bind"]
ConnectCmd == [type |-> "Connect"]
ShutdownCmd == [type |-> "Shutdown"]
SendCmd(conn, packet) == [type |-> "Send", conn |-> conn, packet |-> packet]
CreateStreamCmd(conn, index, reliability) ==
    [type |-> "CreateStream", conn |-> conn, index |-> index, reliability |-> reliability]
CloseStreamCmd(conn, stream) == [type |-> "CloseStream", conn |-> conn, stream |-> stream]

Command(Conns, Packets) ==
    {BindCmd, ConnectCmd, ShutdownCmd}
        \cup {SendCmd(c, m) : c \in Conns, m \in Packets}
        \cup {CreateStreamCmd(c, i, r) : c \in Conns, i \in StreamId, r \in Reliability}
        \cup {CloseStreamCmd(c, s) : c \in Conns, s \in StreamId}

Connected(conn) == [type |-> "Connected", conn |-> conn]
Disconnected(conn) == [type |-> "Disconnected", conn |-> conn]
Message(conn, packet) == [type |-> "Message", conn |-> conn, packet |-> packet]
StreamCreated(conn, stream) == [type |-> "StreamCreated", conn |-> conn, stream |-> stream]
StreamClosed(conn, stream) == [type |-> "StreamClosed", conn |-> conn, stream |-> stream]
ConnectError == [type |-> "Error"]

Event(Conns, Packets) ==
    {Connected(c) : c \in Conns} \cup {Disconnected(c) : c \in Conns} \cup {ConnectError}
        \cup {Message(c, m) : c \in Conns, m \in Packets}
        \cup {StreamCreated(c, s) : c \in Conns, s \in StreamId}
        \cup {StreamClosed(c, s) : c \in Conns, s \in StreamId}

\* Commands[p] and Events[p] are what p's queues may hold: a process deals
\* with its own connections only.
CommandsTypeOK(Commands) ==
    DOMAIN cmds = Peers /\ \A p \in Peers : cmds[p] \in Seq(Commands[p])

EventsTypeOK(Events) ==
    /\ DOMAIN events = Peers
    /\ polled \in [Peers -> Nat]
    /\ \A p \in Peers : events[p] \in Seq(Events[p]) /\ polled[p] <= Len(events[p])

ThreadsTypeOK ==
    /\ next_stream_id \in [Peers -> 0 .. MaxStreams]
    /\ app \in [Peers -> {"running", "joining", "joined", "dead"}]
    /\ thread \in [Peers -> {"running", "exited"}]

PeerTypeOK(Commands, Events) ==
    CommandsTypeOK(Commands) /\ EventsTypeOK(Events) /\ ThreadsTypeOK

-------------------------------------------------------------------------------
(* The application's calls *)

\* What the application of p knows: the events it has polled.
Seen(p) == {events[p][i] : i \in 1 .. polled[p]}
KnowsConnection(p, conn) == Connected(conn) \in Seen(p)
KnownStreams(p, conn) == {x.stream : x \in {y \in Seen(p) : y.type = "StreamCreated" /\ y.conn = conn}}

\* A call after the backend's thread has ended returns an error and queues nothing.
SendCommand(p, cmd) ==
    /\ app[p] = "running"
    /\ thread[p] = "running"
    /\ cmds' = [cmds EXCEPT ![p] = Append(@, cmd)]

\* listen and connect, each with one command
Listen(p) ==
    /\ SendCommand(p, BindCmd)
    /\ UNCHANGED <<events, polled, next_stream_id, app, thread>>

Dial(p) ==
    /\ SendCommand(p, ConnectCmd)
    /\ UNCHANGED <<events, polled, next_stream_id, app, thread>>

\* The index is taken before the command is sent, and stays taken when that fails.
CreateStream(p, conn, reliability) ==
    /\ KnowsConnection(p, conn)
    /\ next_stream_id[p] < MaxStreams
    /\ next_stream_id' = [next_stream_id EXCEPT ![p] = (@ + 1) % IdSpace]
    /\ \/ SendCommand(p, CreateStreamCmd(conn, next_stream_id'[p], reliability))
       \/ app[p] = "running" /\ thread[p] = "exited" /\ UNCHANGED cmds
    /\ UNCHANGED <<events, polled, app, thread>>

\* Bound: an application closes a stream once
CloseStream(p, conn, stream) ==
    /\ stream \in KnownStreams(p, conn)
    /\ \A i \in DOMAIN events[p] : events[p][i] # StreamClosed(conn, stream)
    /\ \A i \in DOMAIN cmds[p] : cmds[p][i] # CloseStreamCmd(conn, stream)
    /\ SendCommand(p, CloseStreamCmd(conn, stream))
    /\ UNCHANGED <<events, polled, next_stream_id, app, thread>>

Send(p, conn, packet) ==
    /\ KnowsConnection(p, conn)
    /\ packet.stream \in KnownStreams(p, conn)
    /\ SendCommand(p, SendCmd(conn, packet))
    /\ UNCHANGED <<events, polled, next_stream_id, app, thread>>

\* Mutant: an empty queue is polled like any other.
PollEmpty(p) ==
    /\ app[p] \in {"running", "joined"}
    /\ polled' = [polled EXCEPT ![p] = @ + 1]
    /\ UNCHANGED <<cmds, events, next_stream_id, app, thread>>

\* poll, when there is an event; without one it changes nothing
Poll(p) ==
    /\ app[p] \in {"running", "joined"}
    /\ polled[p] < Len(events[p])
    /\ polled' = [polled EXCEPT ![p] = @ + 1]
    /\ UNCHANGED <<cmds, events, next_stream_id, app, thread>>

\* shutdown queues the command and then blocks the application in join
Shutdown(p) ==
    /\ SendCommand(p, ShutdownCmd)
    /\ app' = [app EXCEPT ![p] = "joining"]
    /\ UNCHANGED <<events, polled, next_stream_id, thread>>

Join(p) ==
    /\ app[p] = "joining"
    /\ thread[p] = "exited"
    /\ app' = [app EXCEPT ![p] = "joined"]
    /\ UNCHANGED <<cmds, events, polled, next_stream_id, thread>>

-------------------------------------------------------------------------------
(* The backend's side of the queues *)

Receives(p, type) ==
    /\ thread[p] = "running"
    /\ cmds[p] # <<>>
    /\ Head(cmds[p]).type = type

TakeCommand(p) == cmds' = [cmds EXCEPT ![p] = Tail(@)]

\* Events sent to the application of p, in this order
Emit(p, news) == events' = [events EXCEPT ![p] = @ \o news]

\* The backend's thread ends: nobody receives the commands left in the queue
ThreadExits(p) ==
    /\ cmds' = [cmds EXCEPT ![p] = <<>>]
    /\ thread' = [thread EXCEPT ![p] = "exited"]

-------------------------------------------------------------------------------
(* What an application may rely on in the order of its events.  Which of    *)
(* these a backend keeps is stated in the backend's module.                 *)

Concerns(event, conn) == "conn" \in DOMAIN event /\ event.conn = conn

Before(p, j) == {events[p][i] : i \in 1 .. (j - 1)}

(***************************************************************************)
(* An application hears of a connection once, and before anything else of  *)
(* it, whichever of the backend's tasks is the first to send an event.     *)
(***************************************************************************)
ConnectedOnceAndFirst ==
    \A p \in Peers : \A j \in DOMAIN events[p] :
        LET event == events[p][j] IN
        "conn" \in DOMAIN event =>
            (event = Connected(event.conn)
                <=> \A earlier \in Before(p, j) : ~Concerns(earlier, event.conn))

\* Whether create_stream has taken an index for this handle.
Created(p, stream) == \E i \in 1 .. next_stream_id[p], r \in Reliability : stream = NewStream(i, r)

(***************************************************************************)
(* Of a connection there comes nothing after its one Disconnected but what *)
(* answers calls: a StreamClosed, which only a close_stream of this side   *)
(* brings, and the StreamCreated of a stream the application created       *)
(* itself, never one of the other side's. No message, and no second end.   *)
(***************************************************************************)
NothingAfterEnd ==
    \A p \in Peers : \A j \in DOMAIN events[p] :
        LET event == events[p][j] IN
        "conn" \in DOMAIN event /\ Disconnected(event.conn) \in Before(p, j) =>
            \/ event.type = "StreamClosed"
            \/ event.type = "StreamCreated" /\ Created(p, event.stream)

(***************************************************************************)
(* An application that learns its streams from StreamCreated knows the     *)
(* stream of every message before the message reaches it.                  *)
(***************************************************************************)
MessagesAnnounced ==
    \A p \in Peers : \A j \in DOMAIN events[p] : events[p][j].type = "Message" =>
        StreamCreated(events[p][j].conn, events[p][j].packet.stream) \in Before(p, j)

===============================================================================
