------------------------------ MODULE GnsBackend ------------------------------
(***************************************************************************)
(* The backend of src/protocols/gns_protocol.rs, which polls the library   *)
(* GameNetworkingSockets: a server that listens and clients that dial it,  *)
(* with the GamePeer in front of each.                                     *)
(*                                                                         *)
(* There are no tasks here.  One thread handles all commands that wait,    *)
(* then the status reports the library had when it looked, then the        *)
(* messages it had, and begins again.  The library runs on its own: it     *)
(* completes and ends connections, queues reports of that and received     *)
(* messages, and the backend learns of either only in its turn.            *)
(*                                                                         *)
(* An end of a connection stands for the handle the library has for it and *)
(* for the uuid the backend gave it.                                       *)
(***************************************************************************)
EXTENDS GamePeer, FiniteSets, SequencesExt

CONSTANTS
    Server,             \* the process that listens
    MaxDials,           \* bound on the calls of connect of a client
    MaxSends,           \* bound on the calls of send on each end
    Kinds,              \* the kinds of stream the applications create
    Creators,           \* the processes whose application creates streams
    Closers,            \* the processes whose application closes streams
    Quitters,           \* the processes whose application calls shutdown
    Batch,              \* the reports, and the messages, of one turn: 100 in the code
    Breaks,             \* the clients whose connections the network may break
    MayFail             \* whether listen and connect may return an error

Clients == Peers \ {Server}

ASSUME GnsAssumption ==
    /\ Server \in Peers
    /\ MaxDials \in Nat /\ MaxSends \in [{"dial", "accept"} -> Nat]
    /\ Kinds \subseteq Reliability /\ Batch \in Nat \ {0}
    /\ Creators \subseteq Peers /\ Closers \subseteq Peers /\ Quitters \subseteq Peers
    /\ Breaks \subseteq Clients /\ MayFail \in BOOLEAN

\* A connection: the client and the number of its dial.
Ends == (Clients \X (1 .. MaxDials)) \X {"dial", "accept"}

Owner(e) == IF e[2] = "dial" THEN e[1][1] ELSE Server
Other(e) == <<e[1], IF e[2] = "dial" THEN "accept" ELSE "dial">>
EndsOf(p) == {e \in Ends : Owner(e) = p}

Packet == [stream : StreamId, n : UNION {1 .. MaxSends[s] : s \in {"dial", "accept"}}]

VARIABLES
    socket,             \* the ends whose reports and messages the process's socket has
    mapped,             \* handle_to_uuid and uuid_to_handle, which change together
    known_streams,
    turn,               \* where a loop is in its turn, and how many items are left there
    dials,              \* the dials of a client so far
    link,               \* the library: the state of an end
    reports,            \* the library: status reports not handled yet
    inbox,              \* the library: messages received and not handled yet
    wire,               \* the library: reliable messages an end sent, on their way
    loose,              \* the library: unreliable messages on their way
    sent,               \* history: Sends called on an end
    accepted,           \* history: reliable packets the library took on an end
    delivered           \* history: reliable packets an end's application got

backendVars == <<socket, mapped, known_streams, dials>>
libraryVars == <<link, reports, inbox, wire, loose>>
historyVars == <<sent, accepted, delivered>>
vars == <<peerVars, backendVars, turn, libraryVars, historyVars>>

Commands == [p \in Peers |-> Command(EndsOf(p), Packet)]
Events == [p \in Peers |-> Event(EndsOf(p), Packet)]

LinkState == {"none", "connecting", "up", "gone", "closed"}

\* The new state of an end; the backend tells the old one by it.
Report(S) == [end : S, state : {"connecting", "up", "gone"}]
Received(S) == [end : S, packet : Packet]

\* Mutant: a poll is taken to hand out all it may.
PolledBatch(queue) == Batch

\* What one poll of a queue hands out.
Polled(queue) == IF Len(queue) < Batch THEN Len(queue) ELSE Batch

Commanding == [phase |-> "commands", left |-> 0]

SocketTypeOK ==
    /\ DOMAIN socket = Peers /\ \A p \in Peers : socket[p] \subseteq EndsOf(p)
    /\ mapped \subseteq Ends
    /\ known_streams \in [Ends -> SUBSET StreamId]
    /\ dials \in [Clients -> 0 .. MaxDials]

LibraryTypeOK ==
    /\ link \in [Ends -> LinkState]
    /\ DOMAIN reports = Peers /\ DOMAIN inbox = Peers
    /\ \A p \in Peers :
          reports[p] \in Seq(Report(EndsOf(p))) /\ inbox[p] \in Seq(Received(EndsOf(p)))
    /\ wire \in [Ends -> Seq(Packet)] /\ loose \subseteq Received(Ends)

TurnTypeOK ==
    /\ turn \in [Peers -> [phase : {"commands", "reports", "messages"}, left : Nat]]
    /\ \A p \in Peers :
          /\ turn[p].left <= Len(IF turn[p].phase = "reports" THEN reports[p] ELSE inbox[p])
          /\ turn[p].phase = "commands" \/ thread[p] = "exited" => turn[p] = Commanding

HistoryTypeOK ==
    /\ sent \in [Ends -> Nat] /\ \A e \in Ends : sent[e] <= MaxSends[e[2]]
    /\ accepted \in [Ends -> Seq(Packet)] /\ delivered \in [Ends -> Seq(Packet)]

\* Every queue and map holds what it may, and a thread that has ended is in no turn.
TypeOK ==
    PeerTypeOK(Commands, Events) /\ SocketTypeOK /\ LibraryTypeOK /\ TurnTypeOK /\ HistoryTypeOK

Init ==
    /\ PeerInit
    /\ socket = [p \in Peers |-> {}]
    /\ mapped = {}
    /\ known_streams = [e \in Ends |-> {}]
    /\ turn = [p \in Peers |-> Commanding]
    /\ dials = [c \in Clients |-> 0]
    /\ link = [e \in Ends |-> "none"]
    /\ reports = [p \in Peers |-> <<>>]
    /\ inbox = [p \in Peers |-> <<>>]
    /\ wire = [e \in Ends |-> <<>>]
    /\ loose = {}
    /\ sent = [e \in Ends |-> 0]
    /\ accepted = [e \in Ends |-> <<>>]
    /\ delivered = [e \in Ends |-> <<>>]

-------------------------------------------------------------------------------
(* The applications *)

AppCall(p) ==
    /\ \/ /\ p = Server /\ socket[p] = {} /\ ~Contains(cmds[p], BindCmd)
          /\ Listen(p)
       \/ /\ p \in Clients /\ dials[p] < MaxDials /\ ~Contains(cmds[p], ConnectCmd)
          /\ Dial(p)
       \/ \E e \in EndsOf(p), r \in Kinds : p \in Creators /\ CreateStream(p, e, r)
       \/ \E e \in EndsOf(p) : \E stream \in KnownStreams(p, e) :
             p \in Closers /\ CloseStream(p, e, stream)
       \/ p \in Quitters /\ Shutdown(p)
    /\ UNCHANGED <<backendVars, turn, libraryVars, historyVars>>

AppSend(e, stream) ==
    /\ sent[e] < MaxSends[e[2]]
    /\ Send(Owner(e), e, [stream |-> stream, n |-> sent[e] + 1])
    /\ sent' = [sent EXCEPT ![e] = @ + 1]
    /\ UNCHANGED <<backendVars, turn, libraryVars, accepted, delivered>>

AppWaits(p) ==
    /\ Poll(p) \/ Join(p)
    /\ UNCHANGED <<backendVars, turn, libraryVars, historyVars>>

-------------------------------------------------------------------------------
(* The library.  Its threads run whatever the backend does.                 *)

Reports(e, state) ==
    reports' = [reports EXCEPT ![Owner(e)] = Append(@, [end |-> e, state |-> state])]

\* A dial arrives at a socket that listens.
Arrive(e) ==
    /\ link[e] = "none" /\ link[Other(e)] = "connecting" /\ e \in socket[Server]
    /\ link' = [link EXCEPT ![e] = "connecting"]
    /\ Reports(e, "connecting")
    /\ UNCHANGED <<inbox, wire, loose>>

\* The other side has accepted the dial.
Complete(e) ==
    /\ e[2] = "dial" /\ link[e] = "connecting" /\ link[Other(e)] = "up"
    /\ link' = [link EXCEPT ![e] = "up"]
    /\ Reports(e, "up")
    /\ UNCHANGED <<inbox, wire, loose>>

\* Reliable messages arrive in order, messages from all of a listening
\* socket's connections in one queue.
Carry(e) ==
    /\ wire[e] # <<>> /\ link[e] = "up" /\ link[Other(e)] = "up"
    /\ inbox' = [inbox EXCEPT ![Owner(Other(e))] =
                     Append(@, [end |-> Other(e), packet |-> Head(wire[e])])]
    /\ wire' = [wire EXCEPT ![e] = Tail(@)]
    /\ UNCHANGED <<link, reports, loose>>

\* Unreliable ones overtake each other and the reliable ones; what is not
\* carried is lost.
CarryLoose(m) ==
    /\ link[m.end] = "up" /\ link[Other(m.end)] = "up"
    /\ inbox' = [inbox EXCEPT ![Owner(Other(m.end))] =
                     Append(@, [end |-> Other(m.end), packet |-> m.packet])]
    /\ loose' = loose \ {m}
    /\ UNCHANGED <<link, reports, wire>>

Lose(e) ==
    /\ link[e] \in {"connecting", "up"}
    /\ link' = [link EXCEPT ![e] = "gone"]
    /\ Reports(e, "gone")
    /\ UNCHANGED <<inbox, wire, loose>>

Break(e) == e[1][1] \in Breaks /\ Lose(e)

\* A close that arrives, or no answer for so long.
Notice(e) ==
    /\ \/ link[Other(e)] \in {"gone", "closed"}
       \/ link[Other(e)] = "none" /\ Other(e) \notin socket[Server]
    /\ Lose(e)

\* What stays of a queue.  (SelectSeq, written so that it can be proved about.)
Without(queue, S) ==
    LET kept[i \in 0 .. Len(queue)] ==
            IF i = 0 THEN <<>>
            ELSE IF queue[i].end \in S THEN kept[i - 1] ELSE Append(kept[i - 1], queue[i])
    IN kept[Len(queue)]

\* Ends of p that are closed drop what they had sent and what they had received.
Closing(p, S) ==
    /\ wire' = [e \in Ends |-> IF e \in S THEN <<>> ELSE wire[e]]
    /\ loose' = {m \in loose : m.end \notin S}
    /\ inbox' = [inbox EXCEPT ![p] = Without(@, S)]

CloseEnds(p, S) ==
    /\ Closing(p, S)
    /\ link' = [e \in Ends |-> IF e \in S THEN "closed" ELSE link[e]]

-------------------------------------------------------------------------------
(* The commands: the loop handles all that wait before it looks for news.   *)

Handles(p, type) ==
    /\ turn[p].phase = "commands"
    /\ Receives(p, type)

HandlesQuietly(p, type) ==
    /\ Handles(p, type)
    /\ TakeCommand(p)
    /\ UNCHANGED <<polled, next_stream_id, app, thread, turn>>

Bind ==
    /\ HandlesQuietly(Server, "Bind")
    /\ socket' = [socket EXCEPT ![Server] = EndsOf(Server)]
    /\ UNCHANGED <<events, mapped, known_streams, dials, libraryVars, historyVars>>

(***************************************************************************)
(* The new socket takes the place of the one before, which is dropped with *)
(* its connection and all that was queued in it; the maps keep the old     *)
(* handle.  The library may report an own dial like one that arrives.      *)
(***************************************************************************)
Connect(c) ==
    LET e == <<<<c, dials[c] + 1>>, "dial">>
        old == socket[c]
    IN
    /\ HandlesQuietly(c, "Connect")
    /\ dials' = [dials EXCEPT ![c] = @ + 1]
    /\ socket' = [socket EXCEPT ![c] = {e}]
    /\ Closing(c, old)
    /\ link' = [d \in Ends |-> IF d = e THEN "connecting" ELSE IF d \in old THEN "closed" ELSE link[d]]
    /\ \E news \in {<<>>, <<[end |-> e, state |-> "connecting"]>>} : reports' = [reports EXCEPT ![c] = news]
    /\ UNCHANGED <<events, mapped, known_streams, historyVars>>

\* Nobody is told.  Bound: the attempt counts as a dial.
ConnectFails(c) ==
    /\ HandlesQuietly(c, "Connect") /\ MayFail
    /\ dials' = [dials EXCEPT ![c] = @ + 1]
    /\ UNCHANGED <<events, socket, mapped, known_streams, libraryVars, historyVars>>

HeadConn(p) == Head(cmds[p]).conn
HeadPacket(p) == Head(cmds[p]).packet

\* The backend does not know the connection, or the library has lost it:
\* dropped without a word.
SendDropped(p) ==
    /\ HandlesQuietly(p, "Send")
    /\ HeadConn(p) \notin mapped \/ link[HeadConn(p)] \notin {"connecting", "up"}
    /\ UNCHANGED <<events, backendVars, libraryVars, historyVars>>

\* Mutant: every message with the flag of the unreliable ones.
DispatchUnreliable(e, packet) ==
    /\ loose' = loose \cup {[end |-> e, packet |-> packet]}
    /\ accepted' = IF IsReliable(packet.stream)
                   THEN [accepted EXCEPT ![e] = Append(@, packet)] ELSE accepted
    /\ UNCHANGED wire

\* The kind of the stream is the message's flag and its lane.
Dispatch(e, packet) ==
    IF IsReliable(packet.stream)
    THEN /\ wire' = [wire EXCEPT ![e] = Append(@, packet)]
         /\ accepted' = [accepted EXCEPT ![e] = Append(@, packet)]
         /\ UNCHANGED loose
    ELSE /\ loose' = loose \cup {[end |-> e, packet |-> packet]}
         /\ UNCHANGED <<wire, accepted>>

SendTaken(p) ==
    LET e == HeadConn(p) IN
    /\ HandlesQuietly(p, "Send")
    /\ e \in mapped /\ link[e] \in {"connecting", "up"}
    /\ Dispatch(e, HeadPacket(p))
    /\ UNCHANGED <<events, backendVars, link, reports, inbox, sent, delivered>>

\* create_stream and close_stream are answered from the command alone.
AnswerStream(p) ==
    LET cmd == Head(cmds[p]) IN
    /\ \/ /\ HandlesQuietly(p, "CreateStream")
          /\ Emit(p, <<StreamCreated(cmd.conn, NewStream(cmd.index, cmd.reliability))>>)
       \/ /\ HandlesQuietly(p, "CloseStream")
          /\ Emit(p, <<StreamClosed(cmd.conn, cmd.stream)>>)
    /\ UNCHANGED <<backendVars, libraryVars, historyVars>>

\* The thread returns: the socket is dropped, and its connections with it.
Stop(p) ==
    /\ ThreadExits(p)
    /\ socket' = [socket EXCEPT ![p] = {}]
    /\ mapped' = mapped \ EndsOf(p)
    /\ known_streams' = [e \in Ends |-> IF Owner(e) = p THEN {} ELSE known_streams[e]]
    /\ CloseEnds(p, {e \in socket[p] : link[e] # "none"})
    /\ reports' = [reports EXCEPT ![p] = <<>>]
    /\ UNCHANGED <<events, polled, next_stream_id, app, turn, dials, historyVars>>

BackendShutdown(p) == Handles(p, "Shutdown") /\ Stop(p)

\* A port that is taken ends the thread, and nobody is told.
BindFails == Handles(Server, "Bind") /\ MayFail /\ Stop(Server)

-------------------------------------------------------------------------------
(* The reports and the messages of a turn *)

\* The socket is polled for its reports first: those there now are of this turn.
PollReports(p) ==
    /\ thread[p] = "running" /\ turn[p].phase = "commands" /\ cmds[p] = <<>>
    /\ socket[p] # {}
    /\ turn' = [turn EXCEPT ![p] = [phase |-> "reports", left |-> Polled(reports[p])]]
    /\ UNCHANGED <<peerVars, backendVars, libraryVars, historyVars>>

HandlesReport(p, state) ==
    /\ turn[p].phase = "reports" /\ turn[p].left > 0
    /\ Head(reports[p]).state = state
    /\ turn' = [turn EXCEPT ![p].left = @ - 1]
    /\ UNCHANGED <<cmds, polled, next_stream_id, app, thread, socket, dials, historyVars>>

ReportDone(p) == reports' = [reports EXCEPT ![p] = Tail(@)]

\* The handle gets a uuid, and the application is told.
Registers(p, e) ==
    /\ mapped' = mapped \cup {e}
    /\ Emit(p, <<Connected(e)>>)
    /\ UNCHANGED known_streams

RegistersIfNew(p, e) ==
    /\ mapped' = mapped \cup {e}
    /\ Emit(p, IF e \in mapped THEN <<>> ELSE <<Connected(e)>>)
    /\ UNCHANGED known_streams

\* None to Connecting: accept, which does nothing for a dial of its own and
\* fails when the connection has ended meanwhile.  The handle is taken to be new.
HandleConnecting(p) ==
    LET e == Head(reports[p]).end IN
    /\ HandlesReport(p, "connecting")
    /\ IF e[2] = "dial"
       THEN Registers(p, e) /\ ReportDone(p) /\ UNCHANGED link
       ELSE IF link[e] = "connecting"
       THEN /\ Registers(p, e)
            /\ link' = [link EXCEPT ![e] = "up"]
            /\ reports' = [reports EXCEPT ![p] = Append(Tail(@), [end |-> e, state |-> "up"])]
       ELSE ReportDone(p) /\ UNCHANGED <<events, mapped, known_streams, link>>
    /\ UNCHANGED <<inbox, wire, loose>>

\* Connecting to Connected: the end is registered if it is not yet.
HandleConnected(p) ==
    /\ HandlesReport(p, "up")
    /\ RegistersIfNew(p, Head(reports[p]).end)
    /\ ReportDone(p)
    /\ UNCHANGED <<link, inbox, wire, loose>>

\* Mutant: the handle stays in its map.
ForgetsHalf(p, e) ==
    /\ mapped' = mapped
    /\ known_streams' = [known_streams EXCEPT ![e] = {}]
    /\ Emit(p, <<Disconnected(e)>>)

\* Mutant: the uuid is looked up after it has been removed.
ForgetsQuietly(p, e) ==
    /\ mapped' = mapped \ {e}
    /\ known_streams' = [known_streams EXCEPT ![e] = {}]
    /\ UNCHANGED events

Forgets(p, e) ==
    /\ mapped' = mapped \ {e}
    /\ known_streams' = [known_streams EXCEPT ![e] = {}]
    /\ Emit(p, <<Disconnected(e)>>)

\* To ClosedByPeer or ProblemDetectedLocally: an end that is known is
\* forgotten, and messages that had come before are dropped with it.
HandleEnded(p) ==
    LET e == Head(reports[p]).end IN
    /\ HandlesReport(p, "gone")
    /\ IF e \in mapped THEN Forgets(p, e) ELSE UNCHANGED <<events, mapped, known_streams>>
    /\ CloseEnds(p, {e})
    /\ ReportDone(p)

\* Then for its messages, which may have come after the reports were polled.
PollMessages(p) ==
    /\ turn[p] = [phase |-> "reports", left |-> 0]
    /\ turn' = [turn EXCEPT ![p] =
                    IF inbox[p] = <<>> THEN Commanding
                    ELSE [phase |-> "messages", left |-> Polled(inbox[p])]]
    /\ UNCHANGED <<peerVars, backendVars, libraryVars, historyVars>>

\* The first message of a stream announces it.
Announces(p, e, packet) ==
    /\ known_streams' = [known_streams EXCEPT ![e] = @ \cup {packet.stream}]
    /\ Emit(p, (IF packet.stream \in known_streams[e] THEN <<>>
                ELSE <<StreamCreated(e, packet.stream)>>) \o <<Message(e, packet)>>)

\* A message on a handle without a uuid is dropped.
HandleMessage(p) ==
    LET e == Head(inbox[p]).end
        packet == Head(inbox[p]).packet
    IN
    /\ turn[p].phase = "messages"
    /\ turn' = [turn EXCEPT ![p] =
                    IF @.left = 1 THEN Commanding ELSE [phase |-> "messages", left |-> @.left - 1]]
    /\ inbox' = [inbox EXCEPT ![p] = Tail(@)]
    /\ IF e \in mapped
       THEN /\ Announces(p, e, packet)
            /\ delivered' = IF IsReliable(packet.stream)
                            THEN [delivered EXCEPT ![e] = Append(@, packet)] ELSE delivered
       ELSE UNCHANGED <<events, known_streams, delivered>>
    /\ UNCHANGED <<cmds, polled, next_stream_id, app, thread, socket, mapped, dials, link,
                   reports, wire, loose, sent, accepted>>

-------------------------------------------------------------------------------
HandleCommand(p) ==
    \/ p = Server /\ (Bind \/ BindFails)
    \/ p \in Clients /\ (Connect(p) \/ ConnectFails(p))
    \/ SendDropped(p) \/ SendTaken(p) \/ AnswerStream(p) \/ BackendShutdown(p)

HandleEvent(p) == HandleConnecting(p) \/ HandleConnected(p) \/ HandleEnded(p)

BackendStep(p) ==
    HandleCommand(p) \/ PollReports(p) \/ HandleEvent(p) \/ PollMessages(p) \/ HandleMessage(p)

Library(A) == A /\ UNCHANGED <<peerVars, backendVars, turn, historyVars>>

LibraryServes(e) == Library(Arrive(e) \/ Complete(e) \/ Carry(e) \/ Notice(e))

Next ==
    \/ \E p \in Peers : AppCall(p) \/ AppWaits(p) \/ BackendStep(p)
    \/ \E e \in Ends : \E stream \in KnownStreams(Owner(e), e) : AppSend(e, stream)
    \/ \E e \in Ends : LibraryServes(e) \/ Library(Break(e))
    \/ \E m \in loose : Library(CarryLoose(m))

Spec == Init /\ [][Next]_vars

(***************************************************************************)
(* The thread spins, the game loop polls.  The library completes what it   *)
(* can, carries reliable messages, and notices that the other side is gone *)
(* (its keep-alives time out).  Unreliable messages, applications and the  *)
(* network have no fairness.                                               *)
(***************************************************************************)
Fairness ==
    /\ \A p \in Peers : WF_vars(BackendStep(p)) /\ WF_vars(AppWaits(p))
    /\ \A e \in Ends : WF_vars(LibraryServes(e))

FairSpec == Spec /\ Fairness

-------------------------------------------------------------------------------
(* Safety *)

(***************************************************************************)
(* What an application sees of a connection begins with its one Connected, *)
(* after its one Disconnected come no more than a StreamClosed or the      *)
(* StreamCreated of a stream it created, and a stream is announced before  *)
(* its first message, although connections are completed, refused and lost *)
(* between the reports of a turn and its messages.                         *)
(***************************************************************************)
EventsInOrder == ConnectedOnceAndFirst /\ NothingAfterEnd /\ MessagesAnnounced

ReportWaits(e) == \E i \in DOMAIN reports[Owner(e)] : reports[Owner(e)][i].end = e

(***************************************************************************)
(* The backend's maps follow the library: while a socket is there, every   *)
(* connection it has made or lost is in the maps or about to be reported,  *)
(* and the maps have none that was closed.                                 *)
(***************************************************************************)
MapsFollowLibrary ==
    \A p \in Peers : \A e \in socket[p] :
        /\ link[e] \in {"up", "gone"} => e \in mapped \/ ReportWaits(e)
        /\ e \in mapped => link[e] \in {"connecting", "up"} \/ ReportWaits(e)

(***************************************************************************)
(* The reliable streams of a connection share one lane, which is a         *)
(* reliable link while the dialing side creates the streams: what the      *)
(* library took reaches the application in order, once, with none left     *)
(* out before the end, however the turns of the two loops fall.            *)
(***************************************************************************)
Links == INSTANCE ReliableLinks WITH
    Opposite <- [e \in Ends |-> Other(e)],
    gone <- {e \in Ends : link[e] = "closed"}

ImplementsLinks == Links!Spec

-------------------------------------------------------------------------------
(* Liveness *)

(***************************************************************************)
(* A connection that has ended is reported: an application that knows of   *)
(* it hears of its end, unless its own side has given the socket up.       *)
(***************************************************************************)
LossIsReported ==
    []<>(\A p \in Peers : \A e \in socket[p] :
            link[e] = "gone" \/ link[Other(e)] = "closed" =>
                (KnowsConnection(p, e) => Disconnected(e) \in Seen(p)))

===============================================================================
