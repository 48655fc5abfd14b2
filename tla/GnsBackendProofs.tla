--------------------------- MODULE GnsBackendProofs ---------------------------
(***************************************************************************)
(* Theorems about GnsBackend, for any number of clients and dials and any  *)
(* size of a batch: the types, that the backend's maps follow the library  *)
(* (MapsFollowLibrary), the order in which an application hears of a       *)
(* connection that is reported, replaced, refused or lost at any moment    *)
(* (EventsInOrder), and, if the server creates no streams, that the        *)
(* reliable lanes implement ReliableLinks (ImplementsLinks).               *)
(***************************************************************************)
EXTENDS GnsBackend, GamePeerProofs

-------------------------------------------------------------------------------
(* Ends, commands and events *)

LEMMA EndFacts ==
    ASSUME NEW e \in Ends
    PROVE  /\ Owner(e) \in Peers /\ e \in EndsOf(Owner(e))
           /\ Other(e) \in Ends /\ Other(Other(e)) = e /\ Other(e) # e
           /\ e[2] \in {"dial", "accept"} /\ (e[2] = "accept" => Owner(e) = Server)
           /\ e[2] = "dial" => Owner(e) = e[1][1] /\ e[1][1] \in Clients
BY GnsAssumption DEF Ends, Clients, Owner, Other, EndsOf

LEMMA EndsOfFacts ==
    ASSUME NEW p \in Peers, NEW e \in EndsOf(p)
    PROVE  e \in Ends /\ Owner(e) = p
BY DEF EndsOf

LEMMA DialEnd ==
    ASSUME NEW c \in Clients, NEW k \in 1 .. MaxDials
    PROVE  /\ <<<<c, k>>, "dial">> \in Ends /\ <<<<c, k>>, "dial">> \in EndsOf(c)
           /\ Owner(<<<<c, k>>, "dial">>) = c /\ c \in Peers /\ c # Server
BY DEF Ends, EndsOf, Owner, Clients

\* A client has the dialing ends, the server the accepting ones.
LEMMA Sides ==
    ASSUME NEW e \in Ends
    PROVE  Owner(e) = Server <=> e[2] = "accept"
BY DEF Ends, Clients, Owner

-------------------------------------------------------------------------------
(* What stays of a queue *)

\* kept is the function Without computes, on the first n messages.
Keeps(kept, queue, S, n) ==
    kept = [i \in 0 .. n |->
               IF i = 0 THEN <<>>
               ELSE IF queue[i].end \in S THEN kept[i - 1] ELSE Append(kept[i - 1], queue[i])]

LEMMA KeepsExists ==
    ASSUME NEW queue, NEW S
    PROVE  \A n \in Nat : \E kept : Keeps(kept, queue, S, n)
<1> DEFINE T == {n \in Nat : \E kept : Keeps(kept, queue, S, n)}
<1>1. 0 \in T
  <2>1. Keeps([i \in 0 .. 0 |-> <<>>], queue, S, 0)
    BY DEF Keeps
  <2>. QED
    BY <2>1
<1>2. ASSUME NEW n \in Nat, n \in T PROVE n + 1 \in T
  <2>1. PICK g : Keeps(g, queue, S, n)
    BY <1>2
  <2> DEFINE h == [i \in 0 .. (n + 1) |->
                      IF i # n + 1 THEN g[i]
                      ELSE IF queue[i].end \in S THEN g[n] ELSE Append(g[n], queue[i])]
  <2>2. \A i \in 0 .. n : h[i] = g[i]
    OBVIOUS
  <2>3. ASSUME NEW i \in 0 .. (n + 1)
        PROVE  h[i] = IF i = 0 THEN <<>>
                      ELSE IF queue[i].end \in S THEN h[i - 1] ELSE Append(h[i - 1], queue[i])
    <3>1. CASE i = n + 1
      <4>1. i # 0 /\ i - 1 = n /\ n \in 0 .. n
        BY <3>1
      <4>. QED
        BY <2>2, <3>1, <4>1
    <3>2. CASE i # n + 1
      <4>1. i \in 0 .. n /\ (i # 0 => i - 1 \in 0 .. n)
        BY <3>2
      <4>2. g[i] = IF i = 0 THEN <<>>
                   ELSE IF queue[i].end \in S THEN g[i - 1] ELSE Append(g[i - 1], queue[i])
        BY <2>1, <4>1 DEF Keeps
      <4>. QED
        BY <2>2, <4>1, <4>2
    <3>. QED
      BY <3>1, <3>2
  <2>4. Keeps(h, queue, S, n + 1)
    BY <2>3 DEF Keeps
  <2>. QED
    BY <2>4
<1> HIDE DEF T
<1>3. Nat \subseteq T
  BY <1>1, <1>2, AllNat
<1>. QED
  BY <1>3 DEF T

LEMMA WithoutKeeps ==
    ASSUME NEW M, NEW queue \in Seq(M), NEW S
    PROVE  \E kept : Keeps(kept, queue, S, Len(queue)) /\ Without(queue, S) = kept[Len(queue)]
<1> DEFINE n == Len(queue)
           g == CHOOSE kept : Keeps(kept, queue, S, n)
<1>1. n \in Nat
  OBVIOUS
<1>2. \E kept : Keeps(kept, queue, S, n)
  BY <1>1, KeepsExists
<1>3. Keeps(g, queue, S, n)
  BY <1>2
<1>4. Without(queue, S) = g[n]
  BY DEF Without, Keeps
<1> HIDE DEF g
<1>. QED
  BY <1>3, <1>4

\* It is a queue of the same kind.
LEMMA WithoutType ==
    ASSUME NEW M, NEW queue \in Seq(M), NEW S
    PROVE  Without(queue, S) \in Seq(M)
<1>1. PICK kept : Keeps(kept, queue, S, Len(queue)) /\ Without(queue, S) = kept[Len(queue)]
  BY WithoutKeeps
<1> DEFINE T == {n \in Nat : n <= Len(queue) => kept[n] \in Seq(M)}
<1>2. 0 \in T
  BY <1>1 DEF Keeps
<1>3. ASSUME NEW n \in Nat, n \in T PROVE n + 1 \in T
  <2> SUFFICES ASSUME n + 1 <= Len(queue) PROVE kept[n + 1] \in Seq(M)
    OBVIOUS
  <2>1. /\ n <= Len(queue) /\ n + 1 \in 1 .. Len(queue) /\ n + 1 \in 0 .. Len(queue)
        /\ n + 1 # 0 /\ (n + 1) - 1 = n
    OBVIOUS
  <2>2. kept[n] \in Seq(M) /\ queue[n + 1] \in M
    BY <1>3, <2>1
  <2>3. kept[n + 1] = IF queue[n + 1].end \in S THEN kept[n] ELSE Append(kept[n], queue[n + 1])
    BY <1>1, <2>1 DEF Keeps
  <2>4. Append(kept[n], queue[n + 1]) \in Seq(M)
    BY <2>2
  <2>. QED
    BY <2>2, <2>3, <2>4
<1> HIDE DEF T
<1>4. Nat \subseteq T
  BY <1>2, <1>3, AllNat
<1>. QED
  BY <1>1, <1>4 DEF T

-------------------------------------------------------------------------------
(* The types of the parts *)

LEMMA QueueTypes ==
    ASSUME TypeOK, NEW p \in Peers
    PROVE  /\ cmds[p] \in Seq(Commands[p]) /\ events[p] \in Seq(Events[p])
           /\ reports[p] \in Seq(Report(EndsOf(p))) /\ inbox[p] \in Seq(Received(EndsOf(p)))
           /\ Commands[p] = Command(EndsOf(p), Packet) /\ Events[p] = Event(EndsOf(p), Packet)
           /\ CommandsTypeOK(Commands) /\ EventsTypeOK(Events) /\ ThreadsTypeOK
BY DEF TypeOK, PeerTypeOK, CommandsTypeOK, EventsTypeOK, LibraryTypeOK, Commands, Events

\* A report more, at the end.
LEMMA ReportsType ==
    ASSUME LibraryTypeOK, NEW e \in Ends, NEW state \in {"connecting", "up", "gone"},
           Reports(e, state)
    PROVE  /\ DOMAIN reports' = Peers
           /\ \A p \in Peers : /\ reports'[p] \in Seq(Report(EndsOf(p)))
                               /\ Len(reports'[p]) >= Len(reports[p])
<1>1. PICK x : x = [end |-> e, state |-> state]
  OBVIOUS
<1>2. PICK o \in Peers : o = Owner(e) /\ x \in Report(EndsOf(o))
  BY <1>1, EndFacts DEF Report
<1>3. reports' = [reports EXCEPT ![o] = Append(@, x)] /\ DOMAIN reports = Peers
  BY <1>1, <1>2 DEF Reports, LibraryTypeOK
<1>4. reports[o] \in Seq(Report(EndsOf(o)))
  BY DEF LibraryTypeOK
<1>5. /\ Append(reports[o], x) \in Seq(Report(EndsOf(o)))
      /\ Len(Append(reports[o], x)) = Len(reports[o]) + 1 /\ Len(reports[o]) \in Nat
  BY <1>2, <1>4, AppendType, LenProperties
<1>6. ASSUME NEW p \in Peers
      PROVE  reports'[p] \in Seq(Report(EndsOf(p))) /\ Len(reports'[p]) >= Len(reports[p])
  <2>1. reports[p] \in Seq(Report(EndsOf(p))) /\ Len(reports[p]) \in Nat
    BY LenProperties DEF LibraryTypeOK
  <2>2. CASE p = o
    BY <1>3, <1>5, <2>2
  <2>3. CASE p # o
    BY <1>3, <2>1, <2>3
  <2>. QED
    BY <2>2, <2>3
<1>. QED
  BY <1>3, <1>6

\* A message more, at the end of an inbox.
LEMMA ArrivesType ==
    ASSUME LibraryTypeOK, NEW e \in Ends, NEW m \in Packet,
           inbox' = [inbox EXCEPT ![Owner(e)] = Append(@, [end |-> e, packet |-> m])]
    PROVE  /\ DOMAIN inbox' = Peers
           /\ \A p \in Peers : /\ inbox'[p] \in Seq(Received(EndsOf(p)))
                               /\ Len(inbox'[p]) >= Len(inbox[p])
<1>1. PICK x : x = [end |-> e, packet |-> m]
  OBVIOUS
<1>2. PICK o \in Peers : o = Owner(e) /\ x \in Received(EndsOf(o))
  BY <1>1, EndFacts DEF Received
<1>3. inbox' = [inbox EXCEPT ![o] = Append(@, x)] /\ DOMAIN inbox = Peers
  BY <1>1, <1>2 DEF LibraryTypeOK
<1>4. inbox[o] \in Seq(Received(EndsOf(o)))
  BY DEF LibraryTypeOK
<1>5. /\ Append(inbox[o], x) \in Seq(Received(EndsOf(o)))
      /\ Len(Append(inbox[o], x)) = Len(inbox[o]) + 1 /\ Len(inbox[o]) \in Nat
  BY <1>2, <1>4, AppendType, LenProperties
<1>6. ASSUME NEW p \in Peers
      PROVE  inbox'[p] \in Seq(Received(EndsOf(p))) /\ Len(inbox'[p]) >= Len(inbox[p])
  <2>1. inbox[p] \in Seq(Received(EndsOf(p))) /\ Len(inbox[p]) \in Nat
    BY LenProperties DEF LibraryTypeOK
  <2>2. CASE p = o
    BY <1>3, <1>5, <2>2
  <2>3. CASE p # o
    BY <1>3, <2>1, <2>3
  <2>. QED
    BY <2>2, <2>3
<1>. QED
  BY <1>3, <1>6

LEMMA ClosingType ==
    ASSUME LibraryTypeOK, NEW p \in Peers, NEW S, Closing(p, S)
    PROVE  /\ wire' \in [Ends -> Seq(Packet)] /\ loose' \subseteq Received(Ends)
           /\ DOMAIN inbox' = Peers
           /\ \A q \in Peers : inbox'[q] \in Seq(Received(EndsOf(q)))
           /\ \A q \in Peers \ {p} : inbox'[q] = inbox[q]
<1>1. wire' \in [Ends -> Seq(Packet)] /\ loose' \subseteq Received(Ends)
  BY EmptySeq DEF Closing, LibraryTypeOK
<1>2. inbox' = [inbox EXCEPT ![p] = Without(inbox[p], S)] /\ DOMAIN inbox = Peers
  BY DEF Closing, LibraryTypeOK
<1>3. Without(inbox[p], S) \in Seq(Received(EndsOf(p)))
  BY WithoutType DEF LibraryTypeOK
<1>. QED
  BY <1>1, <1>2, <1>3 DEF LibraryTypeOK

-------------------------------------------------------------------------------
(* What the steps share *)

\* Turns that go on with queues no shorter, and threads that end between turns.
LEMMA TurnFrame ==
    ASSUME TypeOK, LibraryTypeOK', UNCHANGED turn,
           \A p \in Peers : thread'[p] = thread[p] \/ turn[p].phase = "commands",
           \A p \in Peers : \/ turn[p].phase = "commands"
                            \/ /\ Len(reports'[p]) >= Len(reports[p])
                               /\ Len(inbox'[p]) >= Len(inbox[p])
    PROVE  TurnTypeOK'
<1>1. /\ turn \in [Peers -> [phase : {"commands", "reports", "messages"}, left : Nat]]
      /\ turn' = turn
  BY DEF TypeOK, TurnTypeOK
<1>2. ASSUME NEW p \in Peers
      PROVE  turn[p].left <= Len(IF turn[p].phase = "reports" THEN reports'[p] ELSE inbox'[p])
  <2>1. /\ Len(reports[p]) \in Nat /\ Len(inbox[p]) \in Nat
        /\ Len(reports'[p]) \in Nat /\ Len(inbox'[p]) \in Nat
    BY LenProperties DEF TypeOK, LibraryTypeOK
  <2>2. /\ turn[p].left \in Nat
        /\ turn[p].left <= Len(IF turn[p].phase = "reports" THEN reports[p] ELSE inbox[p])
    BY <1>1 DEF TypeOK, TurnTypeOK
  <2>3. CASE turn[p].phase = "commands"
    BY <2>1, <2>3 DEF TypeOK, TurnTypeOK, Commanding
  <2>4. CASE turn[p].phase = "reports"
    BY <2>1, <2>2, <2>4
  <2>5. CASE turn[p].phase \notin {"commands", "reports"}
    BY <2>1, <2>2, <2>5
  <2>. QED
    BY <2>3, <2>4, <2>5
<1>3. ASSUME NEW p \in Peers, turn[p].phase = "commands" \/ thread'[p] = "exited"
      PROVE  turn[p] = Commanding
  BY <1>3 DEF TypeOK, TurnTypeOK
<1>. QED
  BY <1>1, <1>2, <1>3 DEF TurnTypeOK

LEMMA LibraryFrame ==
    ASSUME TypeOK, UNCHANGED <<peerVars, backendVars, turn, historyVars>>, LibraryTypeOK',
           \A p \in Peers : Len(reports'[p]) >= Len(reports[p]) /\ Len(inbox'[p]) >= Len(inbox[p])
    PROVE  TypeOK'
<1>1. TurnTypeOK'
  BY TurnFrame DEF peerVars
<1>2. PeerTypeOK(Commands, Events)'
  BY UnchangedCommandsType, UnchangedEventsType, UnchangedThreadsType
  DEF TypeOK, PeerTypeOK, peerVars
<1>3. SocketTypeOK' /\ HistoryTypeOK'
  BY DEF TypeOK, SocketTypeOK, HistoryTypeOK, backendVars, historyVars
<1>. QED
  BY <1>1, <1>2, <1>3 DEF TypeOK

\* The application's calls: the queues of the GamePeer change, and nothing else.
LEMMA CallFrame ==
    ASSUME TypeOK, PeerTypeOK(Commands, Events)',
           UNCHANGED <<backendVars, turn, libraryVars, thread>>,
           HistoryTypeOK'
    PROVE  TypeOK'
<1>1. SocketTypeOK' /\ LibraryTypeOK'
  BY DEF TypeOK, SocketTypeOK, LibraryTypeOK, backendVars, libraryVars
<1>2. TurnTypeOK'
  BY DEF TypeOK, TurnTypeOK, libraryVars
<1>. QED
  BY <1>1, <1>2 DEF TypeOK

LEMMA SameHistoryType ==
    ASSUME TypeOK, UNCHANGED historyVars
    PROVE  HistoryTypeOK'
BY DEF TypeOK, HistoryTypeOK, historyVars

LEMMA SameSocketType ==
    ASSUME TypeOK, UNCHANGED backendVars
    PROVE  SocketTypeOK'
BY DEF TypeOK, SocketTypeOK, backendVars

LEMMA SameLibraryType ==
    ASSUME TypeOK, UNCHANGED libraryVars
    PROVE  LibraryTypeOK'
BY DEF TypeOK, LibraryTypeOK, libraryVars

\* One command more.
LEMMA CallType ==
    ASSUME TypeOK, NEW p \in Peers, NEW cmd \in Commands[p], SendCommand(p, cmd),
           UNCHANGED <<events, polled>>, ThreadsTypeOK'
    PROVE  PeerTypeOK(Commands, Events)'
BY SendCommandType, UnchangedEventsType DEF TypeOK, PeerTypeOK

\* A command of the backend, taken between two turns.
LEMMA QuietType ==
    ASSUME TypeOK, NEW p \in Peers, NEW type, HandlesQuietly(p, type)
    PROVE  /\ CommandsTypeOK(Commands)' /\ ThreadsTypeOK'
           /\ UNCHANGED <<polled, next_stream_id, app, thread, turn>>
           /\ turn[p].phase = "commands" /\ thread[p] = "running"
           /\ Head(cmds[p]) \in Commands[p] /\ Head(cmds[p]) \in Queued(p)
           /\ Head(cmds[p]).type = type
           /\ Queued(p)' \subseteq Queued(p) /\ \A q \in Peers \ {p} : cmds'[q] = cmds[q]
<1>1. /\ cmds[p] # <<>> /\ TakeCommand(p) /\ Head(cmds[p]).type = type
      /\ turn[p].phase = "commands" /\ thread[p] = "running"
      /\ UNCHANGED <<polled, next_stream_id, app, thread, turn>>
  BY DEF HandlesQuietly, Handles, Receives
<1>2. CommandsTypeOK(Commands) /\ ThreadsTypeOK
  BY DEF TypeOK, PeerTypeOK
<1>3. CommandsTypeOK(Commands)' /\ Head(cmds[p]) \in Commands[p] /\ Head(cmds[p]) \in Queued(p)
  BY <1>1, <1>2, TakeCommandType, HeadCommandType, HeadQueued
<1>4. Queued(p)' \subseteq Queued(p) /\ \A q \in Peers \ {p} : cmds'[q] = cmds[q]
  BY <1>1, <1>2, TakeCommandQueued
<1>5. ThreadsTypeOK'
  BY <1>1, <1>2, UnchangedThreadsType
<1>. QED
  BY <1>1, <1>3, <1>4, <1>5

LEMMA CommandFrame ==
    ASSUME TypeOK, NEW p \in Peers, NEW type, HandlesQuietly(p, type),
           EventsTypeOK(Events)', SocketTypeOK', LibraryTypeOK', HistoryTypeOK',
           \A q \in Peers \ {p} : reports'[q] = reports[q] /\ inbox'[q] = inbox[q]
    PROVE  TypeOK'
<1>1. /\ CommandsTypeOK(Commands)' /\ ThreadsTypeOK' /\ UNCHANGED <<thread, turn>>
      /\ turn[p].phase = "commands"
  BY QuietType
<1>2. \A q \in Peers : Len(reports[q]) \in Nat /\ Len(inbox[q]) \in Nat
  BY LenProperties DEF TypeOK, LibraryTypeOK
<1>3. \A q \in Peers : \/ turn[q].phase = "commands"
                       \/ Len(reports'[q]) >= Len(reports[q]) /\ Len(inbox'[q]) >= Len(inbox[q])
  BY <1>1, <1>2
<1>4. TurnTypeOK'
  BY <1>1, <1>3, TurnFrame
<1>. QED
  BY <1>1, <1>4 DEF TypeOK, PeerTypeOK

LEMMA SameEventsType ==
    ASSUME TypeOK, UNCHANGED <<events, polled>>
    PROVE  EventsTypeOK(Events)'
BY UnchangedEventsType DEF TypeOK, PeerTypeOK

LEMMA EmitOneType ==
    ASSUME TypeOK, NEW p \in Peers, NEW x \in Events[p], Emit(p, <<x>>), UNCHANGED polled
    PROVE  EventsTypeOK(Events)'
BY OneType, EmitType DEF TypeOK, PeerTypeOK

LEMMA EmitNoneType ==
    ASSUME TypeOK, NEW p \in Peers, Emit(p, <<>>), UNCHANGED polled
    PROVE  EventsTypeOK(Events)'
BY EmptySeq, EmitType DEF TypeOK, PeerTypeOK

\* The backend's commands about a connection are about its own.
LEMMA HeadParts ==
    ASSUME TypeOK, NEW p \in Peers, NEW type, HandlesQuietly(p, type)
    PROVE  /\ type = "Send" => HeadConn(p) \in EndsOf(p) /\ HeadPacket(p) \in Packet
           /\ type = "CreateStream" =>
                  /\ Head(cmds[p]).conn \in EndsOf(p) /\ Head(cmds[p]).index \in StreamId
                  /\ Head(cmds[p]).reliability \in Reliability
           /\ type = "CloseStream" =>
                  Head(cmds[p]).conn \in EndsOf(p) /\ Head(cmds[p]).stream \in StreamId
<1>1. Head(cmds[p]) \in Command(EndsOf(p), Packet) /\ Head(cmds[p]).type = type
  BY QuietType DEF Commands
<1>. QED
  BY <1>1, PartsOfCommand DEF HeadConn, HeadPacket

-------------------------------------------------------------------------------
(* The types are kept: the application                                     *)

LEMMA CreateStreamType ==
    ASSUME TypeOK, NEW p \in Peers, NEW e \in EndsOf(p), NEW r \in Reliability,
           CreateStream(p, e, r)
    PROVE  /\ PeerTypeOK(Commands, Events)' /\ UNCHANGED thread
           /\ CreateStreamCmd(e, next_stream_id'[p], r) \in Commands[p]
           /\ SendCommand(p, CreateStreamCmd(e, next_stream_id'[p], r)) \/ UNCHANGED cmds
<1>1. /\ next_stream_id'[p] \in StreamId /\ ThreadsTypeOK' /\ UNCHANGED <<events, polled, thread>>
      /\ SendCommand(p, CreateStreamCmd(e, next_stream_id'[p], r)) \/ UNCHANGED cmds
  BY CreateStreamParts DEF TypeOK, PeerTypeOK
<1>2. CreateStreamCmd(e, next_stream_id'[p], r) \in Commands[p]
  BY <1>1, CommandMembers DEF Commands
<1>3. CASE UNCHANGED cmds
  BY <1>1, <1>2, <1>3, SameEventsType DEF TypeOK, PeerTypeOK, CommandsTypeOK
<1>. QED
  BY <1>1, <1>2, <1>3, CallType

LEMMA AppCallType ==
    ASSUME TypeOK, NEW p \in Peers, AppCall(p)
    PROVE  TypeOK'
<1>1. UNCHANGED <<backendVars, turn, libraryVars, historyVars>>
  BY DEF AppCall
<1>2. \A cmd \in {BindCmd, ConnectCmd, ShutdownCmd} : cmd \in Commands[p]
  BY CommandMembers DEF Commands
<1>3. CASE Listen(p)
  <2>1. SendCommand(p, BindCmd) /\ UNCHANGED <<events, polled, next_stream_id, app, thread>>
    BY <1>3 DEF Listen
  <2>. QED
    BY <1>1, <1>2, <2>1, CallType, UnchangedThreadsType, SameHistoryType, CallFrame
    DEF TypeOK, PeerTypeOK
<1>4. CASE Dial(p)
  <2>1. SendCommand(p, ConnectCmd) /\ UNCHANGED <<events, polled, next_stream_id, app, thread>>
    BY <1>4 DEF Dial
  <2>. QED
    BY <1>1, <1>2, <2>1, CallType, UnchangedThreadsType, SameHistoryType, CallFrame
    DEF TypeOK, PeerTypeOK
<1>5. ASSUME NEW e \in EndsOf(p), NEW r \in Kinds, CreateStream(p, e, r)
      PROVE  TypeOK'
  <2>1. r \in Reliability
    BY GnsAssumption
  <2>. QED
    BY <1>1, <1>5, <2>1, CreateStreamType, SameHistoryType, CallFrame
<1>6. ASSUME NEW e \in EndsOf(p), NEW stream \in KnownStreams(p, e), CloseStream(p, e, stream)
      PROVE  TypeOK'
  <2>1. stream \in StreamId
    BY KnownIsTold, QueueTypes
  <2>2. CloseStreamCmd(e, stream) \in Commands[p]
    BY <2>1, CommandMembers DEF Commands
  <2>3. /\ SendCommand(p, CloseStreamCmd(e, stream))
        /\ UNCHANGED <<events, polled, next_stream_id, app, thread>>
    BY <1>6 DEF CloseStream
  <2>. QED
    BY <1>1, <2>2, <2>3, CallType, UnchangedThreadsType, SameHistoryType, CallFrame
    DEF TypeOK, PeerTypeOK
<1>7. CASE Shutdown(p)
  <2>1. /\ SendCommand(p, ShutdownCmd) /\ UNCHANGED <<events, polled, next_stream_id, thread>>
        /\ app' = [app EXCEPT ![p] = "joining"]
    BY <1>7 DEF Shutdown
  <2>2. ThreadsTypeOK'
    BY <2>1 DEF TypeOK, PeerTypeOK, ThreadsTypeOK
  <2>. QED
    BY <1>1, <1>2, <2>1, <2>2, CallType, SameHistoryType, CallFrame
<1>. QED
  BY <1>3, <1>4, <1>5, <1>6, <1>7 DEF AppCall

LEMMA AppWaitsType ==
    ASSUME TypeOK, NEW p \in Peers, AppWaits(p)
    PROVE  TypeOK'
<1>1. UNCHANGED <<backendVars, turn, libraryVars, historyVars>> /\ HistoryTypeOK'
  BY SameHistoryType DEF AppWaits
<1>2. CASE Poll(p)
  <2>1. UNCHANGED <<cmds, next_stream_id, app, thread>>
    BY <1>2 DEF Poll
  <2>2. PeerTypeOK(Commands, Events)'
    BY <1>2, <2>1, PollType, UnchangedCommandsType, UnchangedThreadsType DEF TypeOK, PeerTypeOK
  <2>. QED
    BY <1>1, <2>1, <2>2, CallFrame
<1>3. CASE Join(p)
  <2>1. /\ UNCHANGED <<cmds, events, polled, next_stream_id, thread>>
        /\ app' = [app EXCEPT ![p] = "joined"]
    BY <1>3 DEF Join
  <2>2. ThreadsTypeOK'
    BY <2>1 DEF TypeOK, PeerTypeOK, ThreadsTypeOK
  <2>3. PeerTypeOK(Commands, Events)'
    BY <2>1, <2>2, UnchangedCommandsType, UnchangedEventsType DEF TypeOK, PeerTypeOK
  <2>. QED
    BY <1>1, <2>1, <2>3, CallFrame
<1>. QED
  BY <1>2, <1>3 DEF AppWaits

LEMMA AppSendParts ==
    ASSUME TypeOK, NEW e \in Ends, NEW stream \in KnownStreams(Owner(e), e), AppSend(e, stream)
    PROVE  /\ [stream |-> stream, n |-> sent[e] + 1] \in Packet
           /\ SendCmd(e, [stream |-> stream, n |-> sent[e] + 1]) \in Commands[Owner(e)]
           /\ SendCommand(Owner(e), SendCmd(e, [stream |-> stream, n |-> sent[e] + 1]))
           /\ KnowsConnection(Owner(e), e)
           /\ UNCHANGED <<events, polled, next_stream_id, app, thread>>
           /\ UNCHANGED <<backendVars, turn, libraryVars, accepted, delivered>>
<1>1. /\ sent[e] < MaxSends[e[2]] /\ KnowsConnection(Owner(e), e)
      /\ SendCommand(Owner(e), SendCmd(e, [stream |-> stream, n |-> sent[e] + 1]))
      /\ UNCHANGED <<events, polled, next_stream_id, app, thread>>
      /\ UNCHANGED <<backendVars, turn, libraryVars, accepted, delivered>>
  BY DEF AppSend, Send
<1>2. stream \in StreamId
  BY EndFacts, KnownIsTold, QueueTypes
<1>3. sent[e] \in Nat /\ e[2] \in {"dial", "accept"} /\ MaxSends[e[2]] \in Nat
  BY EndFacts, GnsAssumption DEF TypeOK, HistoryTypeOK
<1>4. sent[e] + 1 \in 1 .. MaxSends[e[2]]
  BY <1>1, <1>3
<1>5. [stream |-> stream, n |-> sent[e] + 1] \in Packet
  BY <1>2, <1>3, <1>4 DEF Packet
<1>6. SendCmd(e, [stream |-> stream, n |-> sent[e] + 1]) \in Commands[Owner(e)]
  BY <1>5, EndFacts, CommandMembers DEF Commands
<1>. QED
  BY <1>1, <1>5, <1>6

LEMMA AppSendType ==
    ASSUME TypeOK, NEW e \in Ends, NEW stream \in KnownStreams(Owner(e), e), AppSend(e, stream)
    PROVE  TypeOK'
<1>1. PICK cmd \in Commands[Owner(e)] :
          /\ SendCommand(Owner(e), cmd) /\ UNCHANGED <<events, polled, next_stream_id, app, thread>>
          /\ UNCHANGED <<backendVars, turn, libraryVars, accepted, delivered>>
  BY AppSendParts
<1>2. PeerTypeOK(Commands, Events)'
  BY <1>1, EndFacts, CallType, UnchangedThreadsType DEF TypeOK, PeerTypeOK
<1>3. /\ sent[e] < MaxSends[e[2]] /\ sent' = [sent EXCEPT ![e] = @ + 1] /\ sent[e] \in Nat
      /\ MaxSends[e[2]] \in Nat
  BY EndFacts, GnsAssumption DEF AppSend, TypeOK, HistoryTypeOK
<1>4. \A f \in Ends : sent'[f] \in Nat /\ sent'[f] <= MaxSends[f[2]]
  BY <1>3 DEF TypeOK, HistoryTypeOK
<1>5. HistoryTypeOK'
  BY <1>1, <1>3, <1>4 DEF TypeOK, HistoryTypeOK
<1>. QED
  BY <1>1, <1>2, <1>5, CallFrame

-------------------------------------------------------------------------------
(* The types are kept: the library                                         *)

LEMMA SameLengths ==
    ASSUME LibraryTypeOK, NEW p \in Peers
    PROVE  Len(reports[p]) \in Nat /\ Len(inbox[p]) \in Nat
BY LenProperties DEF LibraryTypeOK

\* A step that reports the new state of an end.
LEMMA ReportingType ==
    ASSUME TypeOK, NEW e \in Ends, NEW state \in {"connecting", "up", "gone"}, Reports(e, state),
           link' = [link EXCEPT ![e] = state], UNCHANGED <<inbox, wire, loose>>,
           UNCHANGED <<peerVars, backendVars, turn, historyVars>>
    PROVE  TypeOK'
<1>1. LibraryTypeOK
  BY DEF TypeOK
<1>2. /\ DOMAIN reports' = Peers
      /\ \A p \in Peers : /\ reports'[p] \in Seq(Report(EndsOf(p)))
                          /\ Len(reports'[p]) >= Len(reports[p])
  BY <1>1, ReportsType
<1>3. link' \in [Ends -> LinkState]
  BY <1>1 DEF LibraryTypeOK, LinkState
<1>4. LibraryTypeOK'
  BY <1>1, <1>2, <1>3 DEF LibraryTypeOK
<1>5. \A p \in Peers : Len(inbox'[p]) >= Len(inbox[p])
  BY <1>1, SameLengths
<1>. QED
  BY <1>2, <1>4, <1>5, LibraryFrame

LEMMA LoseType ==
    ASSUME TypeOK, NEW e \in Ends, Library(Lose(e))
    PROVE  TypeOK'
BY ReportingType DEF Library, Lose

\* A message arrives at the other end.
LEMMA CarryType ==
    ASSUME TypeOK, NEW e \in Ends, Library(Carry(e))
    PROVE  TypeOK'
<1>1. LibraryTypeOK
  BY DEF TypeOK
<1>2. /\ wire[e] # <<>> /\ wire' = [wire EXCEPT ![e] = Tail(@)]
      /\ UNCHANGED <<link, reports, loose>>
      /\ inbox' = [inbox EXCEPT ![Owner(Other(e))] =
                       Append(@, [end |-> Other(e), packet |-> Head(wire[e])])]
      /\ UNCHANGED <<peerVars, backendVars, turn, historyVars>>
  BY DEF Library, Carry
<1>3. Head(wire[e]) \in Packet /\ Tail(wire[e]) \in Seq(Packet) /\ Other(e) \in Ends
  BY <1>1, <1>2, EndFacts, HeadTailProperties DEF LibraryTypeOK
<1>4. /\ DOMAIN inbox' = Peers
      /\ \A p \in Peers : /\ inbox'[p] \in Seq(Received(EndsOf(p)))
                          /\ Len(inbox'[p]) >= Len(inbox[p])
  BY <1>1, <1>2, <1>3, ArrivesType
<1>5. LibraryTypeOK'
  BY <1>1, <1>2, <1>3, <1>4 DEF LibraryTypeOK
<1>6. \A p \in Peers : Len(reports'[p]) >= Len(reports[p])
  BY <1>1, <1>2, SameLengths
<1>. QED
  BY <1>2, <1>4, <1>5, <1>6, LibraryFrame

LEMMA CarryLooseType ==
    ASSUME TypeOK, NEW m \in loose, Library(CarryLoose(m))
    PROVE  TypeOK'
<1>1. LibraryTypeOK
  BY DEF TypeOK
<1>2. /\ loose' = loose \ {m} /\ UNCHANGED <<link, reports, wire>>
      /\ inbox' = [inbox EXCEPT ![Owner(Other(m.end))] =
                       Append(@, [end |-> Other(m.end), packet |-> m.packet])]
      /\ UNCHANGED <<peerVars, backendVars, turn, historyVars>>
  BY DEF Library, CarryLoose
<1>3. m.end \in Ends /\ m.packet \in Packet /\ Other(m.end) \in Ends
  BY <1>1, EndFacts DEF LibraryTypeOK, Received
<1>4. /\ DOMAIN inbox' = Peers
      /\ \A p \in Peers : /\ inbox'[p] \in Seq(Received(EndsOf(p)))
                          /\ Len(inbox'[p]) >= Len(inbox[p])
  BY <1>1, <1>2, <1>3, ArrivesType
<1>5. LibraryTypeOK'
  BY <1>1, <1>2, <1>4 DEF LibraryTypeOK
<1>6. \A p \in Peers : Len(reports'[p]) >= Len(reports[p])
  BY <1>1, <1>2, SameLengths
<1>. QED
  BY <1>2, <1>4, <1>5, <1>6, LibraryFrame

LEMMA LibraryType ==
    ASSUME TypeOK, NEW e \in Ends, LibraryServes(e) \/ Library(Break(e))
    PROVE  TypeOK'
<1>1. CASE Library(Arrive(e))
  BY <1>1, ReportingType DEF Library, Arrive
<1>2. CASE Library(Complete(e))
  BY <1>2, ReportingType DEF Library, Complete
<1>3. CASE Library(Carry(e))
  BY <1>3, CarryType
<1>4. CASE Library(Notice(e))
  BY <1>4, LoseType DEF Library, Notice
<1>5. CASE Library(Break(e))
  BY <1>5, LoseType DEF Library, Break
<1>. QED
  BY <1>1, <1>2, <1>3, <1>4, <1>5 DEF LibraryServes, Library

-------------------------------------------------------------------------------
(* A client dials at most MaxDials times: a call of connect waits in the   *)
(* queue, and is not repeated, until the backend has counted it.           *)

Calling(c) == Count(cmds[c], {ConnectCmd})

DialsOK == \A c \in Clients : Calling(c) <= 1 /\ dials[c] + Calling(c) <= MaxDials

LEMMA CallingType ==
    ASSUME TypeOK, NEW c \in Clients
    PROVE  Calling(c) \in Nat /\ dials[c] \in Nat /\ c \in Peers /\ cmds[c] \in Seq(Commands[c])
<1>1. c \in Peers
  BY DEF Clients
<1>2. cmds[c] \in Seq(Commands[c]) /\ dials[c] \in Nat
  BY <1>1, QueueTypes DEF TypeOK, SocketTypeOK
<1>. QED
  BY <1>1, <1>2, CountType DEF Calling

\* Another call does not count.
LEMMA OtherCallDials ==
    ASSUME TypeOK, DialsOK, NEW p \in Peers, NEW cmd \in Commands[p], SendCommand(p, cmd),
           cmd.type # "Connect", UNCHANGED dials
    PROVE  DialsOK'
<1>1. cmds' = [cmds EXCEPT ![p] = Append(@, cmd)] /\ cmd # ConnectCmd
  BY DEF SendCommand, ConnectCmd
<1>2. ASSUME NEW c \in Clients
      PROVE  Count(cmds'[c], {ConnectCmd}) = Calling(c)
  <2>1. Calling(c) \in Nat /\ c \in Peers /\ cmds[c] \in Seq(Commands[c])
    BY CallingType
  <2>2. CASE c = p
    <3>1. Count(Append(cmds[c], cmd), {ConnectCmd}) = Count(cmds[c], {ConnectCmd}) + 0
      BY <1>1, <2>1, <2>2, CountAppend
    <3>2. cmds'[c] = Append(cmds[c], cmd)
      BY <1>1, <2>1, <2>2 DEF TypeOK, PeerTypeOK, CommandsTypeOK
    <3>. QED
      BY <2>1, <3>1, <3>2 DEF Calling
  <2>3. CASE c # p
    <3>1. cmds'[c] = cmds[c]
      BY <1>1, <2>1, <2>3 DEF TypeOK, PeerTypeOK, CommandsTypeOK
    <3>. QED
      BY <3>1 DEF Calling
  <2>. QED
    BY <2>2, <2>3
<1>. QED
  BY <1>2 DEF DialsOK, Calling

LEMMA DialDials ==
    ASSUME TypeOK, DialsOK, NEW p \in Clients, SendCommand(p, ConnectCmd), dials[p] < MaxDials,
           ~Contains(cmds[p], ConnectCmd), UNCHANGED dials
    PROVE  DialsOK'
<1>1. /\ cmds' = [cmds EXCEPT ![p] = Append(@, ConnectCmd)] /\ p \in Peers
      /\ cmds[p] \in Seq(Commands[p]) /\ DOMAIN cmds = Peers
  BY CallingType DEF SendCommand, TypeOK, PeerTypeOK, CommandsTypeOK
<1>2. \A i \in DOMAIN cmds[p] : cmds[p][i] \notin {ConnectCmd}
  BY <1>1 DEF Contains
<1>3. Calling(p) = 0
  BY <1>1, <1>2, CountNone DEF Calling
<1>4. Count(Append(cmds[p], ConnectCmd), {ConnectCmd}) = 1
  <2>1. ConnectCmd \in Commands[p]
    BY <1>1, CommandMembers DEF Commands
  <2>. QED
    BY <1>1, <1>3, <2>1, CountAppend DEF Calling
<1>5. cmds'[p] = Append(cmds[p], ConnectCmd) /\ \A c \in Clients \ {p} : cmds'[c] = cmds[c]
  BY <1>1 DEF Clients
<1>6. dials[p] + 1 <= MaxDials
  BY CallingType, GnsAssumption
<1>7. ASSUME NEW c \in Clients
      PROVE  Calling(c)' <= 1 /\ dials[c] + Calling(c)' <= MaxDials
  <2>1. CASE c = p
    <3>1. Count(cmds'[c], {ConnectCmd}) = 1
      BY <1>4, <1>5, <2>1
    <3>. QED
      BY <1>6, <2>1, <3>1 DEF Calling
  <2>2. CASE c # p
    BY <1>5, <2>2 DEF DialsOK, Calling
  <2>. QED
    BY <2>1, <2>2
<1>. QED
  BY <1>7 DEF DialsOK

\* A command the backend takes; one that counts is counted as a dial.
LEMMA TakenDials ==
    ASSUME TypeOK, DialsOK, NEW p \in Peers, NEW type, HandlesQuietly(p, type),
           \/ type # "Connect" /\ UNCHANGED dials
           \/ p \in Clients /\ type = "Connect" /\ dials' = [dials EXCEPT ![p] = @ + 1]
    PROVE  DialsOK' /\ (p \in Clients /\ type = "Connect" => dials[p] < MaxDials)
<1>1. /\ cmds' = [cmds EXCEPT ![p] = Tail(@)] /\ cmds[p] # <<>> /\ cmds[p] \in Seq(Commands[p])
      /\ Head(cmds[p]) \in Command(EndsOf(p), Packet) /\ Head(cmds[p]).type = type
      /\ DOMAIN cmds = Peers
  BY QuietType, QueueTypes
     DEF HandlesQuietly, Handles, Receives, TakeCommand, Commands, CommandsTypeOK
<1>2. Head(cmds[p]) \in {ConnectCmd} <=> type = "Connect"
  BY <1>1
     DEF Command, BindCmd, ConnectCmd, ShutdownCmd, SendCmd, CreateStreamCmd, CloseStreamCmd
<1>3. /\ cmds'[p] = Tail(cmds[p]) /\ \A c \in Clients \ {p} : cmds'[c] = cmds[c]
      /\ Tail(cmds[p]) \in Seq(Commands[p])
  BY <1>1, HeadTailProperties DEF Clients
<1>4. /\ Count(cmds[p], {ConnectCmd}) =
            Count(Tail(cmds[p]), {ConnectCmd}) + (IF Head(cmds[p]) \in {ConnectCmd} THEN 1 ELSE 0)
      /\ Count(Tail(cmds[p]), {ConnectCmd}) \in Nat
  BY <1>1, <1>3, CountTail, CountType
<1>5. dials \in [Clients -> 0 .. MaxDials] /\ MaxDials \in Nat
  BY GnsAssumption DEF TypeOK, SocketTypeOK
<1>6. CASE type = "Connect" /\ p \in Clients
  <2>1. Calling(p) = Count(cmds'[p], {ConnectCmd}) + 1
    BY <1>2, <1>3, <1>4, <1>6 DEF Calling
  <2>2. Calling(p) <= 1 /\ dials[p] + Calling(p) <= MaxDials /\ dials[p] \in Nat
    BY <1>5, <1>6 DEF DialsOK
  <2>3. dials[p] < MaxDials
    BY <1>3, <1>4, <1>5, <2>1, <2>2
  <2>4. /\ dials' = [dials EXCEPT ![p] = @ + 1]
    BY <1>6
  <2>5. ASSUME NEW c \in Clients
        PROVE  Calling(c)' <= 1 /\ dials'[c] + Calling(c)' <= MaxDials
    <3>1. CASE c = p
      BY <1>3, <1>4, <1>5, <2>1, <2>2, <2>4, <3>1 DEF Calling
    <3>2. CASE c # p
      BY <1>3, <1>5, <2>4, <3>2 DEF DialsOK, Calling
    <3>. QED
      BY <3>1, <3>2
  <2>. QED
    BY <2>3, <2>5 DEF DialsOK
<1>7. CASE type # "Connect"
  <2>1. Count(cmds'[p], {ConnectCmd}) = Count(cmds[p], {ConnectCmd})
    BY <1>2, <1>3, <1>4, <1>7
  <2>. QED
    BY <1>3, <1>7, <2>1 DEF DialsOK, Calling
<1>. QED
  BY <1>6, <1>7

LEMMA ExitDials ==
    ASSUME TypeOK, DialsOK, NEW p \in Peers, ThreadExits(p), UNCHANGED dials
    PROVE  DialsOK'
<1>1. cmds' = [cmds EXCEPT ![p] = <<>>] /\ DOMAIN cmds = Peers
  BY DEF ThreadExits, TypeOK, PeerTypeOK, CommandsTypeOK
<1>2. ASSUME NEW c \in Clients
      PROVE  /\ Count(cmds'[c], {ConnectCmd}) <= 1
             /\ dials[c] + Count(cmds'[c], {ConnectCmd}) <= MaxDials
  <2>1. /\ Calling(c) \in Nat /\ c \in Peers /\ dials[c] \in Nat /\ MaxDials \in Nat
        /\ Calling(c) <= 1 /\ dials[c] + Calling(c) <= MaxDials
    BY CallingType, GnsAssumption DEF DialsOK
  <2>2. CASE c = p
    <3>1. Count(cmds'[c], {ConnectCmd}) = 0
      BY <1>1, <2>1, <2>2, CountEmpty
    <3>. QED
      BY <2>1, <3>1
  <2>3. CASE c # p
    <3>1. Count(cmds'[c], {ConnectCmd}) = Calling(c)
      BY <1>1, <2>1, <2>3 DEF Calling
    <3>. QED
      BY <2>1, <3>1
  <2>. QED
    BY <2>2, <2>3
<1>. QED
  BY <1>2 DEF DialsOK, Calling

LEMMA SameDials ==
    ASSUME DialsOK, UNCHANGED <<cmds, dials>>
    PROVE  DialsOK'
BY DEF DialsOK, Calling

-------------------------------------------------------------------------------
(* The types are kept: the commands                                        *)

LEMMA BindType ==
    ASSUME TypeOK, Bind
    PROVE  TypeOK'
<1>1. /\ HandlesQuietly(Server, "Bind") /\ socket' = [socket EXCEPT ![Server] = EndsOf(Server)]
      /\ UNCHANGED <<events, mapped, known_streams, dials, libraryVars, historyVars>>
  BY DEF Bind
<1>2. SocketTypeOK'
  BY <1>1 DEF TypeOK, SocketTypeOK
<1>3. EventsTypeOK(Events)' /\ LibraryTypeOK' /\ HistoryTypeOK'
  BY <1>1, QuietType, GnsAssumption, SameEventsType, SameLibraryType, SameHistoryType
<1>4. \A q \in Peers \ {Server} : reports'[q] = reports[q] /\ inbox'[q] = inbox[q]
  BY <1>1 DEF libraryVars
<1>. QED
  BY <1>1, <1>2, <1>3, <1>4, GnsAssumption, CommandFrame

LEMMA ConnectFailsType ==
    ASSUME TypeOK, NEW c \in Clients, ConnectFails(c), dials[c] < MaxDials
    PROVE  TypeOK'
<1>1. /\ HandlesQuietly(c, "Connect") /\ dials' = [dials EXCEPT ![c] = @ + 1]
      /\ UNCHANGED <<events, socket, mapped, known_streams, libraryVars, historyVars>>
      /\ c \in Peers
  BY DEF ConnectFails, Clients
<1>2. dials[c] + 1 \in 0 .. MaxDials
  BY GnsAssumption DEF TypeOK, SocketTypeOK
<1>3. SocketTypeOK'
  BY <1>1, <1>2 DEF TypeOK, SocketTypeOK
<1>4. EventsTypeOK(Events)' /\ LibraryTypeOK' /\ HistoryTypeOK'
  BY <1>1, QuietType, SameEventsType, SameLibraryType, SameHistoryType
<1>5. \A q \in Peers \ {c} : reports'[q] = reports[q] /\ inbox'[q] = inbox[q]
  BY <1>1 DEF libraryVars
<1>. QED
  BY <1>1, <1>3, <1>4, <1>5, CommandFrame

LEMMA NewsType ==
    ASSUME NEW c \in Clients, NEW k \in 1 .. MaxDials, NEW e, e = <<<<c, k>>, "dial">>,
           NEW news \in {<<>>, <<[end |-> e, state |-> "connecting"]>>}
    PROVE  news \in Seq(Report(EndsOf(c)))
<1>1. e \in EndsOf(c)
  BY DialEnd
<1>2. [end |-> e, state |-> "connecting"] \in Report(EndsOf(c))
  BY <1>1 DEF Report
<1>3. /\ <<>> \in Seq(Report(EndsOf(c)))
      /\ <<[end |-> e, state |-> "connecting"]>> \in Seq(Report(EndsOf(c)))
  BY <1>2, OneType, EmptySeq
<1>. QED
  BY <1>3

LEMMA ConnectType ==
    ASSUME TypeOK, NEW c \in Clients, Connect(c), dials[c] < MaxDials
    PROVE  TypeOK'
<1> DEFINE dialed == <<<<c, dials[c] + 1>>, "dial">>
<1>a. /\ HandlesQuietly(c, "Connect") /\ dials' = [dials EXCEPT ![c] = @ + 1]
      /\ socket' = [socket EXCEPT ![c] = {dialed}] /\ Closing(c, socket[c])
      /\ link' = [d \in Ends |->
                     IF d = dialed THEN "connecting"
                      ELSE IF d \in socket[c] THEN "closed" ELSE link[d]]
      /\ \E news \in {<<>>, <<[end |-> dialed, state |-> "connecting"]>>} :
             reports' = [reports EXCEPT ![c] = news]
      /\ UNCHANGED <<events, mapped, known_streams, historyVars>>
  BY DEF Connect
<1>b. PICK e, old : e = dialed /\ old = socket[c]
  OBVIOUS
<1> HIDE DEF dialed
<1>1. PICK news \in {<<>>, <<[end |-> e, state |-> "connecting"]>>} :
          /\ HandlesQuietly(c, "Connect") /\ dials' = [dials EXCEPT ![c] = @ + 1]
          /\ socket' = [socket EXCEPT ![c] = {e}] /\ Closing(c, old)
          /\ link' = [d \in Ends |-> IF d = e THEN "connecting"
                                   ELSE IF d \in old THEN "closed" ELSE link[d]]
          /\ reports' = [reports EXCEPT ![c] = news]
          /\ UNCHANGED <<events, mapped, known_streams, historyVars>>
  BY <1>a, <1>b
<1>2. /\ dials[c] + 1 \in 1 .. MaxDials /\ c \in Peers /\ SocketTypeOK /\ LibraryTypeOK
      /\ dials[c] + 1 \in 0 .. MaxDials
  BY GnsAssumption DEF TypeOK, SocketTypeOK, Clients
<1>3. e \in Ends /\ e \in EndsOf(c) /\ news \in Seq(Report(EndsOf(c)))
  BY <1>1, <1>2, <1>b, DialEnd, NewsType DEF dialed
<1>4. SocketTypeOK'
  <2>1. DOMAIN socket' = Peers /\ \A p \in Peers : socket'[p] \subseteq EndsOf(p)
    BY <1>1, <1>2, <1>3 DEF SocketTypeOK
  <2>2. dials' \in [Clients -> 0 .. MaxDials]
    BY <1>1, <1>2 DEF SocketTypeOK
  <2>. QED
    BY <1>1, <1>2, <2>1, <2>2 DEF SocketTypeOK
<1>5. LibraryTypeOK'
  <2>1. link' \in [Ends -> LinkState]
    BY <1>1, <1>2 DEF LibraryTypeOK, LinkState
  <2>2. DOMAIN reports' = Peers /\ \A p \in Peers : reports'[p] \in Seq(Report(EndsOf(p)))
    BY <1>1, <1>2, <1>3 DEF LibraryTypeOK
  <2>. QED
    BY <1>1, <1>2, <2>1, <2>2, ClosingType DEF LibraryTypeOK
<1>6. EventsTypeOK(Events)' /\ HistoryTypeOK'
  BY <1>1, <1>2, QuietType, SameEventsType, SameHistoryType
<1>7. \A q \in Peers \ {c} : reports'[q] = reports[q] /\ inbox'[q] = inbox[q]
  BY <1>1, <1>2, ClosingType DEF LibraryTypeOK
<1>. QED
  BY <1>1, <1>2, <1>4, <1>5, <1>6, <1>7, CommandFrame

LEMMA SendDroppedType ==
    ASSUME TypeOK, NEW p \in Peers, SendDropped(p)
    PROVE  TypeOK'
<1>1. HandlesQuietly(p, "Send") /\ UNCHANGED <<events, backendVars, libraryVars, historyVars>>
  BY DEF SendDropped
<1>2. \A q \in Peers \ {p} : reports'[q] = reports[q] /\ inbox'[q] = inbox[q]
  BY <1>1 DEF libraryVars
<1>. QED
  BY <1>1, <1>2, QuietType, SameEventsType, SameSocketType, SameLibraryType, SameHistoryType,
     CommandFrame

LEMMA DispatchType ==
    ASSUME TypeOK, NEW e \in Ends, NEW m \in Packet, Dispatch(e, m)
    PROVE  /\ wire' \in [Ends -> Seq(Packet)] /\ loose' \subseteq Received(Ends)
           /\ accepted' \in [Ends -> Seq(Packet)]
<1>1. LibraryTypeOK /\ accepted \in [Ends -> Seq(Packet)]
  BY DEF TypeOK, HistoryTypeOK
<1>2. [end |-> e, packet |-> m] \in Received(Ends)
  BY DEF Received
<1>3. Append(wire[e], m) \in Seq(Packet) /\ Append(accepted[e], m) \in Seq(Packet)
  BY <1>1 DEF LibraryTypeOK
<1>. QED
  BY <1>1, <1>2, <1>3 DEF Dispatch, LibraryTypeOK

LEMMA SendTakenType ==
    ASSUME TypeOK, NEW p \in Peers, SendTaken(p)
    PROVE  TypeOK'
<1>1. /\ HandlesQuietly(p, "Send") /\ Dispatch(HeadConn(p), HeadPacket(p))
      /\ UNCHANGED <<events, backendVars, link, reports, inbox, sent, delivered>>
  BY DEF SendTaken
<1>2. HeadConn(p) \in Ends /\ HeadPacket(p) \in Packet
  BY <1>1, HeadParts, EndsOfFacts
<1>3. /\ wire' \in [Ends -> Seq(Packet)] /\ loose' \subseteq Received(Ends)
      /\ accepted' \in [Ends -> Seq(Packet)]
  BY <1>1, <1>2, DispatchType
<1>4. LibraryTypeOK' /\ HistoryTypeOK'
  BY <1>1, <1>3 DEF TypeOK, LibraryTypeOK, HistoryTypeOK
<1>. QED
  BY <1>1, <1>4, QuietType, SameEventsType, SameSocketType, CommandFrame

LEMMA AnswerStreamType ==
    ASSUME TypeOK, NEW p \in Peers, AnswerStream(p)
    PROVE  TypeOK'
<1>1. UNCHANGED <<backendVars, libraryVars, historyVars>>
  BY DEF AnswerStream
<1>2. \A q \in Peers \ {p} : reports'[q] = reports[q] /\ inbox'[q] = inbox[q]
  BY <1>1 DEF libraryVars
<1>3. PICK type \in {"CreateStream", "CloseStream"}, x \in Events[p] :
          HandlesQuietly(p, type) /\ Emit(p, <<x>>)
  <2>1. CASE /\ HandlesQuietly(p, "CreateStream")
             /\ Emit(p, <<StreamCreated(Head(cmds[p]).conn,
                             NewStream(Head(cmds[p]).index, Head(cmds[p]).reliability))>>)
    <3>1. PICK conn \in EndsOf(p), stream \in StreamId :
              /\ conn = Head(cmds[p]).conn
              /\ stream = NewStream(Head(cmds[p]).index, Head(cmds[p]).reliability)
      BY <2>1, HeadParts, NewHandle
    <3>2. PICK x \in Events[p] : x = StreamCreated(conn, stream)
      BY <3>1, EventMembers DEF Events
    <3>3. Emit(p, <<x>>)
      BY <2>1, <3>1, <3>2
    <3>. QED
      BY <2>1, <3>3
  <2>2. CASE /\ HandlesQuietly(p, "CloseStream")
             /\ Emit(p, <<StreamClosed(Head(cmds[p]).conn, Head(cmds[p]).stream)>>)
    <3>1. PICK conn \in EndsOf(p), stream \in StreamId :
              conn = Head(cmds[p]).conn /\ stream = Head(cmds[p]).stream
      BY <2>2, HeadParts
    <3>2. PICK x \in Events[p] : x = StreamClosed(conn, stream)
      BY <3>1, EventMembers DEF Events
    <3>3. Emit(p, <<x>>)
      BY <2>2, <3>1, <3>2
    <3>. QED
      BY <2>2, <3>3
  <2>. QED
    BY <2>1, <2>2 DEF AnswerStream
<1>. QED
  BY <1>1, <1>2, <1>3, QuietType, EmitOneType, SameSocketType, SameLibraryType, SameHistoryType,
     CommandFrame

LEMMA StopType ==
    ASSUME TypeOK, NEW p \in Peers, Stop(p), turn[p].phase = "commands"
    PROVE  TypeOK'
<1>1. /\ ThreadExits(p) /\ socket' = [socket EXCEPT ![p] = {}] /\ mapped' = mapped \ EndsOf(p)
      /\ known_streams' = [e \in Ends |-> IF Owner(e) = p THEN {} ELSE known_streams[e]]
      /\ CloseEnds(p, {e \in socket[p] : link[e] # "none"})
      /\ reports' = [reports EXCEPT ![p] = <<>>]
      /\ UNCHANGED <<events, polled, next_stream_id, app, turn, dials, historyVars>>
  BY DEF Stop
<1>2. PICK S : CloseEnds(p, S)
  BY <1>1
<1>3. SocketTypeOK'
  BY <1>1 DEF TypeOK, SocketTypeOK
<1>4. <<>> \in Seq(Report(EndsOf(p)))
  BY EmptySeq
<1>5. DOMAIN reports' = Peers /\ \A q \in Peers : reports'[q] \in Seq(Report(EndsOf(q)))
  BY <1>1, <1>4 DEF TypeOK, LibraryTypeOK
<1>6. LibraryTypeOK'
  <2>1. link' \in [Ends -> LinkState]
    BY <1>2 DEF CloseEnds, TypeOK, LibraryTypeOK, LinkState
  <2>. QED
    BY <1>2, <1>5, <2>1, ClosingType DEF CloseEnds, TypeOK, LibraryTypeOK
<1>7. /\ CommandsTypeOK(Commands)' /\ EventsTypeOK(Events)' /\ ThreadsTypeOK'
      /\ \A q \in Peers \ {p} : thread'[q] = thread[q]
  <2>1. thread' = [thread EXCEPT ![p] = "exited"] /\ ThreadsTypeOK
    BY <1>1 DEF ThreadExits, TypeOK, PeerTypeOK
  <2>2. ThreadsTypeOK' /\ \A q \in Peers \ {p} : thread'[q] = thread[q]
    BY <1>1, <2>1 DEF ThreadsTypeOK
  <2>. QED
    BY <1>1, <2>2, ThreadExitsType, SameEventsType DEF TypeOK, PeerTypeOK
<1>8. \A q \in Peers \ {p} : reports'[q] = reports[q] /\ inbox'[q] = inbox[q]
  BY <1>1, <1>2, ClosingType DEF CloseEnds, TypeOK, LibraryTypeOK
<1>9. \A q \in Peers : Len(reports[q]) \in Nat /\ Len(inbox[q]) \in Nat
  BY LenProperties DEF TypeOK, LibraryTypeOK
<1>10. /\ \A q \in Peers : \/ turn[q].phase = "commands"
                           \/ Len(reports'[q]) >= Len(reports[q]) /\ Len(inbox'[q]) >= Len(inbox[q])
       /\ \A q \in Peers : thread'[q] = thread[q] \/ turn[q].phase = "commands"
  BY <1>7, <1>8, <1>9
<1>11. TurnTypeOK'
  BY <1>1, <1>6, <1>10, TurnFrame
<1>. QED
  BY <1>1, <1>3, <1>6, <1>7, <1>11, SameHistoryType DEF TypeOK, PeerTypeOK

-------------------------------------------------------------------------------
(* The types are kept: the reports of a turn                               *)

LEMMA HeadReport ==
    ASSUME TypeOK, NEW p \in Peers, NEW state, HandlesReport(p, state)
    PROVE  /\ thread[p] = "running" /\ turn[p].phase = "reports" /\ turn[p].left \in Nat \ {0}
           /\ reports[p] # <<>> /\ turn[p].left <= Len(reports[p]) /\ DOMAIN reports = Peers
           /\ reports[p] \in Seq(Report(EndsOf(p))) /\ Len(reports[p]) \in Nat
           /\ Head(reports[p]) \in Report(EndsOf(p)) /\ Head(reports[p]).state = state
           /\ Head(reports[p]).end \in EndsOf(p) /\ Head(reports[p]).end \in Ends
           /\ Owner(Head(reports[p]).end) = p
           /\ Tail(reports[p]) \in Seq(Report(EndsOf(p)))
           /\ Len(Tail(reports[p])) = Len(reports[p]) - 1
           /\ turn' = [turn EXCEPT ![p].left = @ - 1]
           /\ UNCHANGED <<cmds, polled, next_stream_id, app, thread, socket, dials, historyVars>>
<1>1. /\ turn[p].phase = "reports" /\ turn[p].left > 0 /\ Head(reports[p]).state = state
      /\ turn' = [turn EXCEPT ![p].left = @ - 1]
      /\ UNCHANGED <<cmds, polled, next_stream_id, app, thread, socket, dials, historyVars>>
  BY DEF HandlesReport
<1>2. /\ turn[p].left \in Nat /\ turn[p].left <= Len(reports[p]) /\ turn[p] # Commanding
      /\ thread[p] = "running"
  BY <1>1 DEF TypeOK, TurnTypeOK, Commanding, PeerTypeOK, ThreadsTypeOK
<1>3. reports[p] \in Seq(Report(EndsOf(p))) /\ Len(reports[p]) \in Nat /\ DOMAIN reports = Peers
  BY LenProperties DEF TypeOK, LibraryTypeOK
<1>4. reports[p] # <<>>
  BY <1>1, <1>2, <1>3, EmptySeq
<1>5. /\ Head(reports[p]) \in Report(EndsOf(p)) /\ Tail(reports[p]) \in Seq(Report(EndsOf(p)))
      /\ Len(Tail(reports[p])) = Len(reports[p]) - 1
  BY <1>3, <1>4, HeadTailProperties
<1>6. Head(reports[p]).end \in EndsOf(p)
  BY <1>5 DEF Report
<1>7. Head(reports[p]).end \in Ends /\ Owner(Head(reports[p]).end) = p
  BY <1>6, EndsOfFacts
<1>. QED
  BY <1>1, <1>2, <1>3, <1>4, <1>5, <1>6, <1>7

LEMMA ReportTurn ==
    ASSUME TypeOK, NEW p \in Peers, NEW state, HandlesReport(p, state), LibraryTypeOK',
           Len(reports'[p]) >= Len(reports[p]) - 1,
           \A q \in Peers \ {p} : reports'[q] = reports[q] /\ inbox'[q] = inbox[q]
    PROVE  TurnTypeOK'
<1>1. /\ turn[p].left \in Nat \ {0} /\ turn[p].left <= Len(reports[p]) /\ Len(reports[p]) \in Nat
      /\ turn[p].phase = "reports" /\ thread[p] = "running" /\ UNCHANGED thread
      /\ turn' = [turn EXCEPT ![p].left = @ - 1]
  BY HeadReport
<1>2. turn \in [Peers -> [phase : {"commands", "reports", "messages"}, left : Nat]]
  BY DEF TypeOK, TurnTypeOK
<1>3. turn'[p] = [phase |-> "reports", left |-> turn[p].left - 1]
  BY <1>1, <1>2
<1>4. /\ turn' \in [Peers -> [phase : {"commands", "reports", "messages"}, left : Nat]]
      /\ \A q \in Peers \ {p} : turn'[q] = turn[q]
  BY <1>1, <1>2
<1>5. Len(reports'[p]) \in Nat
  BY LenProperties DEF LibraryTypeOK
<1>6. /\ turn'[p].phase = "reports" /\ turn'[p].left <= Len(reports'[p])
      /\ thread'[p] = "running"
  BY <1>1, <1>3, <1>5
<1>7. ASSUME NEW q \in Peers
      PROVE  /\ turn'[q].left <= Len(IF turn'[q].phase = "reports" THEN reports'[q] ELSE inbox'[q])
             /\ turn'[q].phase = "commands" \/ thread'[q] = "exited" => turn'[q] = Commanding
  <2>1. CASE q = p
    BY <1>6, <2>1
  <2>2. CASE q # p
    BY <1>1, <1>4, <2>2 DEF TypeOK, TurnTypeOK
  <2>. QED
    BY <2>1, <2>2
<1>. QED
  BY <1>4, <1>7 DEF TurnTypeOK, Commanding

LEMMA ReportFrame ==
    ASSUME TypeOK, NEW p \in Peers, NEW state, HandlesReport(p, state), LibraryTypeOK',
           EventsTypeOK(Events)', mapped' \subseteq Ends,
           known_streams' \in [Ends -> SUBSET StreamId],
           Len(reports'[p]) >= Len(reports[p]) - 1,
           \A q \in Peers \ {p} : reports'[q] = reports[q] /\ inbox'[q] = inbox[q]
    PROVE  TypeOK'
<1>1. UNCHANGED <<cmds, polled, next_stream_id, app, thread, socket, dials, historyVars>>
  BY HeadReport
<1>2. TurnTypeOK'
  BY ReportTurn
<1>3. SocketTypeOK'
  BY <1>1 DEF TypeOK, SocketTypeOK
<1>4. CommandsTypeOK(Commands)' /\ ThreadsTypeOK' /\ HistoryTypeOK'
  BY <1>1, UnchangedCommandsType, UnchangedThreadsType, SameHistoryType DEF TypeOK, PeerTypeOK
<1>. QED
  BY <1>2, <1>3, <1>4 DEF TypeOK, PeerTypeOK

LEMMA RegistersType ==
    ASSUME TypeOK, NEW p \in Peers, NEW e \in EndsOf(p), Registers(p, e) \/ RegistersIfNew(p, e),
           UNCHANGED polled
    PROVE  /\ EventsTypeOK(Events)' /\ mapped' \subseteq Ends
           /\ known_streams' \in [Ends -> SUBSET StreamId]
<1>1. /\ mapped' = mapped \cup {e} /\ UNCHANGED known_streams
      /\ Emit(p, <<>>) \/ Emit(p, <<Connected(e)>>)
  BY DEF Registers, RegistersIfNew
<1>2. mapped' \subseteq Ends /\ known_streams' \in [Ends -> SUBSET StreamId]
  BY <1>1, EndsOfFacts DEF TypeOK, SocketTypeOK
<1>3. CASE Emit(p, <<>>)
  BY <1>2, <1>3, EmitNoneType
<1>4. CASE Emit(p, <<Connected(e)>>)
  <2>1. PICK x \in Events[p] : x = Connected(e)
    BY EventMembers DEF Events
  <2>2. Emit(p, <<x>>)
    BY <1>1, <1>4, <2>1
  <2>. QED
    BY <1>2, <2>2, EmitOneType
<1>. QED
  BY <1>1, <1>3, <1>4

\* The report at the head is done, and perhaps one more waits.
LEMMA ReportsShift ==
    ASSUME TypeOK, NEW p \in Peers, NEW state, HandlesReport(p, state),
           NEW news \in Seq(Report(EndsOf(p))),
           reports' = [reports EXCEPT ![p] = Tail(reports[p]) \o news]
    PROVE  /\ DOMAIN reports' = Peers /\ \A q \in Peers : reports'[q] \in Seq(Report(EndsOf(q)))
           /\ Len(reports'[p]) >= Len(reports[p]) - 1
           /\ \A q \in Peers \ {p} : reports'[q] = reports[q]
<1>1. /\ Tail(reports[p]) \in Seq(Report(EndsOf(p))) /\ Len(Tail(reports[p])) = Len(reports[p]) - 1
      /\ DOMAIN reports = Peers /\ Len(reports[p]) \in Nat
  BY HeadReport
<1>2. PICK t : t = Tail(reports[p]) \o news
  OBVIOUS
<1>3. t \in Seq(Report(EndsOf(p))) /\ Len(t) >= Len(reports[p]) - 1
  BY <1>1, <1>2, ConcatProperties, LenProperties
<1>4. reports' = [reports EXCEPT ![p] = t]
  BY <1>2
<1>. QED
  BY <1>1, <1>3, <1>4 DEF TypeOK, LibraryTypeOK

LEMMA DoneShift ==
    ASSUME TypeOK, NEW p \in Peers, NEW state, HandlesReport(p, state), ReportDone(p)
    PROVE  /\ DOMAIN reports' = Peers /\ \A q \in Peers : reports'[q] \in Seq(Report(EndsOf(q)))
           /\ Len(reports'[p]) >= Len(reports[p]) - 1
           /\ \A q \in Peers \ {p} : reports'[q] = reports[q]
<1>1. Tail(reports[p]) \in Seq(Report(EndsOf(p)))
  BY HeadReport
<1>2. PICK news \in Seq(Report(EndsOf(p))) : news = <<>>
  BY EmptySeq
<1>3. /\ reports' = [reports EXCEPT ![p] = Tail(reports[p])]
      /\ Tail(reports[p]) \o news = Tail(reports[p])
  BY <1>1, <1>2, ConcatEmptySeq DEF ReportDone
<1>. QED
  BY <1>3, ReportsShift

LEMMA HandleConnectedType ==
    ASSUME TypeOK, NEW p \in Peers, HandleConnected(p)
    PROVE  TypeOK'
<1>1. /\ HandlesReport(p, "up") /\ RegistersIfNew(p, Head(reports[p]).end) /\ ReportDone(p)
      /\ UNCHANGED <<link, inbox, wire, loose>>
  BY DEF HandleConnected
<1>2. Head(reports[p]).end \in EndsOf(p) /\ UNCHANGED polled
  BY <1>1, HeadReport
<1>3. LibraryTypeOK'
  BY <1>1, DoneShift DEF TypeOK, LibraryTypeOK
<1>. QED
  BY <1>1, <1>2, <1>3, RegistersType, DoneShift, ReportFrame

LEMMA AcceptShift ==
    ASSUME TypeOK, NEW p \in Peers, NEW state, HandlesReport(p, state), NEW e \in EndsOf(p),
           reports' = [reports EXCEPT ![p] = Append(Tail(@), [end |-> e, state |-> "up"])]
    PROVE  /\ DOMAIN reports' = Peers /\ \A q \in Peers : reports'[q] \in Seq(Report(EndsOf(q)))
           /\ Len(reports'[p]) >= Len(reports[p]) - 1
           /\ \A q \in Peers \ {p} : reports'[q] = reports[q]
<1>1. PICK x \in Report(EndsOf(p)) : x = [end |-> e, state |-> "up"]
  BY DEF Report
<1>2. Tail(reports[p]) \in Seq(Report(EndsOf(p)))
  BY HeadReport
<1>3. PICK news \in Seq(Report(EndsOf(p))) : news = <<x>>
  BY OneType
<1>4. Append(Tail(reports[p]), x) = Tail(reports[p]) \o news
  BY <1>2, <1>3, AppendIsConcat
<1>5. reports' = [reports EXCEPT ![p] = Tail(reports[p]) \o news]
  BY <1>1, <1>4
<1>. QED
  BY <1>5, ReportsShift

LEMMA HandleConnectingType ==
    ASSUME TypeOK, NEW p \in Peers, HandleConnecting(p)
    PROVE  TypeOK'
<1>1. HandlesReport(p, "connecting") /\ UNCHANGED <<inbox, wire, loose>>
  BY DEF HandleConnecting
<1>2. PICK e \in EndsOf(p) : e = Head(reports[p]).end /\ e \in Ends
  BY <1>1, HeadReport
<1>3. LibraryTypeOK /\ UNCHANGED polled
  BY <1>1, HeadReport DEF TypeOK
<1>4. CASE Registers(p, e) /\ ReportDone(p) /\ UNCHANGED link
  <2>1. LibraryTypeOK'
    BY <1>1, <1>3, <1>4, DoneShift DEF LibraryTypeOK
  <2>. QED
    BY <1>1, <1>3, <1>4, <2>1, RegistersType, DoneShift, ReportFrame
<1>5. CASE /\ Registers(p, e) /\ link' = [link EXCEPT ![e] = "up"]
           /\ reports' = [reports EXCEPT ![p] = Append(Tail(@), [end |-> e, state |-> "up"])]
  <2>1. link' \in [Ends -> LinkState]
    BY <1>3, <1>5 DEF LibraryTypeOK, LinkState
  <2>2. LibraryTypeOK'
    BY <1>1, <1>3, <1>5, <2>1, AcceptShift DEF LibraryTypeOK
  <2>. QED
    BY <1>1, <1>3, <1>5, <2>2, RegistersType, AcceptShift, ReportFrame
<1>6. CASE ReportDone(p) /\ UNCHANGED <<events, mapped, known_streams, link>>
  <2>1. LibraryTypeOK'
    BY <1>1, <1>3, <1>6, DoneShift DEF LibraryTypeOK
  <2>2. /\ EventsTypeOK(Events)' /\ mapped' \subseteq Ends
        /\ known_streams' \in [Ends -> SUBSET StreamId]
    <3>1. UNCHANGED <<mapped, known_streams>> /\ UNCHANGED <<events, polled>>
      BY <1>3, <1>6
    <3>2. EventsTypeOK(Events)'
      BY <3>1, SameEventsType
    <3>. QED
      BY <3>1, <3>2 DEF TypeOK, SocketTypeOK
  <2>. QED
    BY <1>1, <1>6, <2>1, <2>2, DoneShift, ReportFrame
<1>. QED
  BY <1>2, <1>4, <1>5, <1>6 DEF HandleConnecting

LEMMA HandleEndedType ==
    ASSUME TypeOK, NEW p \in Peers, HandleEnded(p)
    PROVE  TypeOK'
<1>1. PICK e \in EndsOf(p) : e = Head(reports[p]).end /\ e \in Ends
  BY HeadReport DEF HandleEnded
<1>2. /\ HandlesReport(p, "gone") /\ CloseEnds(p, {e}) /\ ReportDone(p)
      /\ IF e \in mapped THEN Forgets(p, e) ELSE UNCHANGED <<events, mapped, known_streams>>
  BY <1>1 DEF HandleEnded
<1>3. LibraryTypeOK /\ UNCHANGED polled /\ Closing(p, {e})
      /\ link' = [d \in Ends |-> IF d \in {e} THEN "closed" ELSE link[d]]
  BY <1>2, HeadReport DEF TypeOK, CloseEnds
<1>4. link' \in [Ends -> LinkState]
  BY <1>3 DEF LibraryTypeOK, LinkState
<1>5. LibraryTypeOK'
  BY <1>2, <1>3, <1>4, DoneShift, ClosingType DEF LibraryTypeOK
<1>6. /\ EventsTypeOK(Events)' /\ mapped' \subseteq Ends
      /\ known_streams' \in [Ends -> SUBSET StreamId]
  <2>1. CASE e \in mapped
    <3>1. PICK x \in Events[p] : x = Disconnected(e)
      BY EventMembers DEF Events
    <3>2. /\ Emit(p, <<x>>) /\ mapped' = mapped \ {e}
          /\ known_streams' = [known_streams EXCEPT ![e] = {}]
      BY <1>2, <2>1, <3>1 DEF Forgets
    <3>. QED
      BY <1>3, <3>2, EmitOneType DEF TypeOK, SocketTypeOK
  <2>2. CASE e \notin mapped
    <3>1. UNCHANGED <<events, mapped, known_streams>> /\ UNCHANGED <<events, polled>>
      BY <1>2, <1>3, <2>2
    <3>2. EventsTypeOK(Events)'
      BY <3>1, SameEventsType
    <3>. QED
      BY <3>1, <3>2 DEF TypeOK, SocketTypeOK
  <2>. QED
    BY <2>1, <2>2
<1>7. \A q \in Peers \ {p} : reports'[q] = reports[q] /\ inbox'[q] = inbox[q]
  BY <1>2, <1>3, DoneShift, ClosingType
<1>. QED
  BY <1>2, <1>5, <1>6, <1>7, DoneShift, ReportFrame

-------------------------------------------------------------------------------
(* The types are kept: the messages of a turn                              *)

LEMMA PolledBound ==
    ASSUME NEW M, NEW queue \in Seq(M)
    PROVE  /\ Polled(queue) \in Nat /\ Polled(queue) <= Len(queue) /\ Polled(queue) <= Batch
           /\ queue # <<>> => Polled(queue) # 0
<1>1. Batch \in Nat \ {0} /\ Len(queue) \in Nat /\ (queue # <<>> => Len(queue) # 0)
  BY GnsAssumption, LenProperties, EmptySeq
<1>. QED
  BY <1>1 DEF Polled

\* A turn of p goes on, within its queues.
LEMMA TurnSteps ==
    ASSUME TypeOK, NEW p \in Peers, NEW t,
           t \in [phase : {"commands", "reports", "messages"}, left : Nat],
           turn' = [turn EXCEPT ![p] = t], UNCHANGED <<thread, reports>>, thread[p] = "running",
           t = Commanding \/ t.phase # "commands",
           t.left <= Len(IF t.phase = "reports" THEN reports[p] ELSE inbox'[p]),
           \A q \in Peers \ {p} : inbox'[q] = inbox[q]
    PROVE  TurnTypeOK'
<1>1. turn \in [Peers -> [phase : {"commands", "reports", "messages"}, left : Nat]]
  BY DEF TypeOK, TurnTypeOK
<1>2. /\ turn' \in [Peers -> [phase : {"commands", "reports", "messages"}, left : Nat]]
      /\ turn'[p] = t /\ \A q \in Peers \ {p} : turn'[q] = turn[q]
  BY <1>1
<1>3. ASSUME NEW q \in Peers
      PROVE  /\ turn'[q].left <= Len(IF turn'[q].phase = "reports" THEN reports[q] ELSE inbox'[q])
             /\ turn'[q].phase = "commands" \/ thread[q] = "exited" => turn'[q] = Commanding
  <2>1. CASE q = p
    BY <1>2, <2>1
  <2>2. CASE q # p
    BY <1>2, <2>2 DEF TypeOK, TurnTypeOK
  <2>. QED
    BY <2>1, <2>2
<1>. QED
  BY <1>2, <1>3 DEF TurnTypeOK, Commanding

LEMMA SamePeerType ==
    ASSUME TypeOK, UNCHANGED peerVars
    PROVE  PeerTypeOK(Commands, Events)'
BY UnchangedCommandsType, UnchangedEventsType, UnchangedThreadsType DEF TypeOK, PeerTypeOK, peerVars

LEMMA PollReportsType ==
    ASSUME TypeOK, NEW p \in Peers, PollReports(p)
    PROVE  TypeOK'
<1>1. /\ thread[p] = "running" /\ UNCHANGED <<peerVars, backendVars, libraryVars, historyVars>>
      /\ turn' = [turn EXCEPT ![p] = [phase |-> "reports", left |-> Polled(reports[p])]]
  BY DEF PollReports
<1>2. Polled(reports[p]) \in Nat /\ Polled(reports[p]) <= Len(reports[p])
  BY PolledBound, QueueTypes
<1>3. UNCHANGED <<thread, reports, inbox>>
  BY <1>1 DEF peerVars, libraryVars
<1>4. TurnTypeOK'
  <2>1. PICK t \in [phase : {"commands", "reports", "messages"}, left : Nat] :
            t = [phase |-> "reports", left |-> Polled(reports[p])]
    BY <1>2
  <2>2. /\ turn' = [turn EXCEPT ![p] = t] /\ t.phase # "commands"
        /\ t.left <= Len(IF t.phase = "reports" THEN reports[p] ELSE inbox'[p])
    BY <1>1, <1>2, <2>1
  <2>. QED
    BY <1>1, <1>3, <2>2, TurnSteps
<1>. QED
  BY <1>1, <1>4, SamePeerType, SameSocketType, SameLibraryType, SameHistoryType DEF TypeOK

LEMMA PollMessagesType ==
    ASSUME TypeOK, NEW p \in Peers, PollMessages(p)
    PROVE  TypeOK'
<1>1. /\ turn[p] = [phase |-> "reports", left |-> 0]
      /\ UNCHANGED <<peerVars, backendVars, libraryVars, historyVars>>
      /\ turn' = [turn EXCEPT ![p] = IF inbox[p] = <<>> THEN Commanding
                                     ELSE [phase |-> "messages", left |-> Polled(inbox[p])]]
  BY DEF PollMessages
<1>2. /\ Polled(inbox[p]) \in Nat /\ Polled(inbox[p]) <= Len(inbox[p]) /\ Len(inbox[p]) \in Nat
      /\ thread[p] = "running"
  BY <1>1, PolledBound, QueueTypes, LenProperties
     DEF TypeOK, TurnTypeOK, Commanding, PeerTypeOK, ThreadsTypeOK
<1>3. UNCHANGED <<thread, reports, inbox>>
  BY <1>1 DEF peerVars, libraryVars
<1>4. TurnTypeOK'
  <2>1. PICK t : t = IF inbox[p] = <<>> THEN Commanding
                       ELSE [phase |-> "messages", left |-> Polled(inbox[p])]
    OBVIOUS
  <2>2. /\ t \in [phase : {"commands", "reports", "messages"}, left : Nat]
        /\ t = Commanding \/ t.phase # "commands"
    BY <1>2, <2>1 DEF Commanding
  <2>3. t.left <= Len(IF t.phase = "reports" THEN reports[p] ELSE inbox'[p])
    BY <1>2, <1>3, <2>1 DEF Commanding
  <2>4. turn' = [turn EXCEPT ![p] = t]
    BY <1>1, <2>1
  <2>. QED
    BY <1>2, <1>3, <2>2, <2>3, <2>4, TurnSteps
<1>. QED
  BY <1>1, <1>4, SamePeerType, SameSocketType, SameLibraryType, SameHistoryType DEF TypeOK

\* A turn is in its messages while there are some left of it.
LeftOK == \A p \in Peers : turn[p].phase = "messages" => turn[p].left # 0

LEMMA HeadMessage ==
    ASSUME TypeOK, LeftOK, NEW p \in Peers, HandleMessage(p)
    PROVE  /\ thread[p] = "running" /\ turn[p].phase = "messages" /\ turn[p].left \in Nat \ {0}
           /\ inbox[p] # <<>> /\ turn[p].left <= Len(inbox[p]) /\ DOMAIN inbox = Peers
           /\ inbox[p] \in Seq(Received(EndsOf(p))) /\ Len(inbox[p]) \in Nat
           /\ Head(inbox[p]) \in Received(EndsOf(p))
           /\ Head(inbox[p]).end \in EndsOf(p) /\ Head(inbox[p]).end \in Ends
           /\ Owner(Head(inbox[p]).end) = p /\ Head(inbox[p]).packet \in Packet
           /\ Tail(inbox[p]) \in Seq(Received(EndsOf(p))) /\ Len(Tail(inbox[p])) = Len(inbox[p]) - 1
           /\ inbox' = [inbox EXCEPT ![p] = Tail(@)]
           /\ turn' = [turn EXCEPT ![p] =
                IF @.left = 1 THEN Commanding ELSE [phase |-> "messages", left |-> @.left - 1]]
           /\ UNCHANGED <<cmds, polled, next_stream_id, app, thread, socket, mapped, dials, link,
                          reports, wire, loose, sent, accepted>>
<1>1. /\ turn[p].phase = "messages" /\ inbox' = [inbox EXCEPT ![p] = Tail(@)]
      /\ turn' = [turn EXCEPT ![p] =
                IF @.left = 1 THEN Commanding ELSE [phase |-> "messages", left |-> @.left - 1]]
      /\ UNCHANGED <<cmds, polled, next_stream_id, app, thread, socket, mapped, dials, link,
                     reports, wire, loose, sent, accepted>>
  BY DEF HandleMessage
<1>2. /\ turn[p].left \in Nat /\ turn[p].left <= Len(inbox[p]) /\ turn[p] # Commanding
      /\ thread[p] = "running"
  <2>1. turn[p].left <= Len(IF turn[p].phase = "reports" THEN reports[p] ELSE inbox[p])
    BY DEF TypeOK, TurnTypeOK
  <2>2. turn[p].left <= Len(inbox[p])
    BY <1>1, <2>1
  <2>3. turn[p] # Commanding
    BY <1>1 DEF Commanding
  <2>. QED
    BY <2>2, <2>3 DEF TypeOK, TurnTypeOK, PeerTypeOK, ThreadsTypeOK
<1>3. inbox[p] \in Seq(Received(EndsOf(p))) /\ Len(inbox[p]) \in Nat /\ DOMAIN inbox = Peers
  BY LenProperties DEF TypeOK, LibraryTypeOK
<1>4. turn[p].left # 0
  BY <1>1 DEF LeftOK
<1>5. inbox[p] # <<>>
  BY <1>2, <1>3, <1>4, EmptySeq
<1>6. /\ Head(inbox[p]) \in Received(EndsOf(p)) /\ Tail(inbox[p]) \in Seq(Received(EndsOf(p)))
      /\ Len(Tail(inbox[p])) = Len(inbox[p]) - 1
  BY <1>3, <1>5, HeadTailProperties
<1>7. Head(inbox[p]).end \in EndsOf(p) /\ Head(inbox[p]).packet \in Packet
  BY <1>6 DEF Received
<1>8. Head(inbox[p]).end \in Ends /\ Owner(Head(inbox[p]).end) = p
  BY <1>7, EndsOfFacts
<1>. QED
  BY <1>1, <1>2, <1>3, <1>4, <1>5, <1>6, <1>7, <1>8

LEMMA AnnouncesType ==
    ASSUME TypeOK, NEW p \in Peers, NEW e \in EndsOf(p), NEW m \in Packet, Announces(p, e, m),
           UNCHANGED polled
    PROVE  EventsTypeOK(Events)' /\ known_streams' \in [Ends -> SUBSET StreamId]
<1>1. /\ known_streams' = [known_streams EXCEPT ![e] = @ \cup {m.stream}]
      /\ Emit(p, (IF m.stream \in known_streams[e] THEN <<>>
                  ELSE <<StreamCreated(e, m.stream)>>) \o <<Message(e, m)>>)
  BY DEF Announces
<1>2. m.stream \in StreamId /\ e \in Ends
  BY EndsOfFacts DEF Packet
<1>3. known_streams' \in [Ends -> SUBSET StreamId]
  BY <1>1, <1>2 DEF TypeOK, SocketTypeOK
<1>4. PICK n \in Events[p], y \in Events[p] : n = StreamCreated(e, m.stream) /\ y = Message(e, m)
  BY <1>2, EventMembers DEF Events
<1>5. PICK a \in Seq(Events[p]), w \in Seq(Events[p]) :
          a = (IF m.stream \in known_streams[e] THEN <<>> ELSE <<n>>) /\ w = <<y>>
  <2>1. <<>> \in Seq(Events[p]) /\ <<n>> \in Seq(Events[p]) /\ <<y>> \in Seq(Events[p])
    BY EmptySeq, OneType
  <2>. QED
    BY <2>1
<1>6. a \o w \in Seq(Events[p])
  BY ConcatProperties
<1>7. Emit(p, a \o w)
  BY <1>1, <1>4, <1>5
<1>. QED
  BY <1>3, <1>6, <1>7, EmitType DEF TypeOK, PeerTypeOK

LEMMA HandleMessageType ==
    ASSUME TypeOK, LeftOK, NEW p \in Peers, HandleMessage(p)
    PROVE  TypeOK'
<1>1. /\ thread[p] = "running" /\ turn[p].left \in Nat \ {0} /\ turn[p].left <= Len(inbox[p])
      /\ DOMAIN inbox = Peers /\ Len(inbox[p]) \in Nat
      /\ Tail(inbox[p]) \in Seq(Received(EndsOf(p))) /\ Len(Tail(inbox[p])) = Len(inbox[p]) - 1
      /\ inbox' = [inbox EXCEPT ![p] = Tail(@)]
      /\ turn' = [turn EXCEPT ![p] =
            IF @.left = 1 THEN Commanding ELSE [phase |-> "messages", left |-> @.left - 1]]
      /\ UNCHANGED <<cmds, polled, next_stream_id, app, thread, socket, mapped, dials, link,
                     reports, wire, loose, sent, accepted>>
  BY HeadMessage
<1>2. PICK e \in EndsOf(p), m \in Packet : e = Head(inbox[p]).end /\ m = Head(inbox[p]).packet
  BY HeadMessage
<1>3. /\ inbox'[p] = Tail(inbox[p]) /\ DOMAIN inbox' = Peers
      /\ \A q \in Peers \ {p} : inbox'[q] = inbox[q]
  BY <1>1
<1>4. LibraryTypeOK'
  BY <1>1, <1>3 DEF TypeOK, LibraryTypeOK
<1>5. TurnTypeOK'
  <2>1. PICK t : t = IF turn[p].left = 1 THEN Commanding
                       ELSE [phase |-> "messages", left |-> turn[p].left - 1]
    OBVIOUS
  <2>2. /\ t \in [phase : {"commands", "reports", "messages"}, left : Nat]
        /\ t = Commanding \/ t.phase # "commands"
    BY <1>1, <2>1 DEF Commanding
  <2>3. t.left <= Len(IF t.phase = "reports" THEN reports[p] ELSE inbox'[p])
    <3>1. t.phase # "reports" /\ t.left <= Len(inbox[p]) - 1
      BY <1>1, <2>1 DEF Commanding
    <3>. QED
      BY <1>1, <1>3, <3>1
  <2>4. turn' = [turn EXCEPT ![p] = t]
    BY <1>1, <2>1
  <2>. QED
    BY <1>1, <1>3, <2>2, <2>3, <2>4, TurnSteps
<1>6. /\ EventsTypeOK(Events)' /\ known_streams' \in [Ends -> SUBSET StreamId]
      /\ delivered' \in [Ends -> Seq(Packet)]
  <2>1. CASE e \in mapped
    <3>1. /\ Announces(p, e, m)
          /\ delivered' = IF IsReliable(m.stream)
                          THEN [delivered EXCEPT ![e] = Append(@, m)] ELSE delivered
      BY <1>2, <2>1 DEF HandleMessage
    <3>2. Append(delivered[e], m) \in Seq(Packet)
      BY EndsOfFacts DEF TypeOK, HistoryTypeOK
    <3>3. delivered' \in [Ends -> Seq(Packet)]
      BY <3>1, <3>2 DEF TypeOK, HistoryTypeOK
    <3>. QED
      BY <1>1, <3>1, <3>3, AnnouncesType
  <2>2. CASE e \notin mapped
    <3>1. UNCHANGED <<known_streams, delivered>> /\ UNCHANGED <<events, polled>>
      BY <1>1, <1>2, <2>2 DEF HandleMessage
    <3>2. EventsTypeOK(Events)'
      BY <3>1, SameEventsType
    <3>. QED
      BY <3>1, <3>2 DEF TypeOK, SocketTypeOK, HistoryTypeOK
  <2>. QED
    BY <2>1, <2>2
<1>7. SocketTypeOK' /\ HistoryTypeOK'
  BY <1>1, <1>6 DEF TypeOK, SocketTypeOK, HistoryTypeOK
<1>8. CommandsTypeOK(Commands)' /\ ThreadsTypeOK'
  BY <1>1, UnchangedCommandsType, UnchangedThreadsType DEF TypeOK, PeerTypeOK
<1>. QED
  BY <1>4, <1>5, <1>6, <1>7, <1>8 DEF TypeOK, PeerTypeOK

-------------------------------------------------------------------------------
(* TypeOK is an invariant, with what bounds the dials and the turns        *)

IndType == TypeOK /\ DialsOK /\ LeftOK

LEMMA SameLeft ==
    ASSUME LeftOK, UNCHANGED turn
    PROVE  LeftOK'
BY DEF LeftOK

LEMMA TurnLeft ==
    ASSUME TypeOK, LeftOK, NEW p \in Peers, NEW t, turn' = [turn EXCEPT ![p] = t],
           t.phase = "messages" => t.left # 0
    PROVE  LeftOK'
BY DEF LeftOK, TypeOK, TurnTypeOK

LEMMA IndTypeInit ==
    ASSUME Init
    PROVE  IndType
<1>1. PeerTypeOK(Commands, Events)
  BY PeerInitType DEF Init
<1>2. SocketTypeOK
  BY GnsAssumption DEF Init, SocketTypeOK
<1>3. LibraryTypeOK
  <2>1. \A p \in Peers : reports[p] = <<>> /\ inbox[p] = <<>>
    BY DEF Init
  <2>2. \A p \in Peers : <<>> \in Seq(Report(EndsOf(p))) /\ <<>> \in Seq(Received(EndsOf(p)))
    BY EmptySeq
  <2>3. wire \in [Ends -> Seq(Packet)]
    BY EmptySeq DEF Init
  <2>. QED
    BY <2>1, <2>2, <2>3 DEF Init, LibraryTypeOK, LinkState
<1>4. TurnTypeOK /\ LeftOK
  <2>1. \A p \in Peers : turn[p] = Commanding /\ reports[p] = <<>> /\ inbox[p] = <<>>
    BY DEF Init
  <2>2. Len(<<>>) = 0
    OBVIOUS
  <2>3. \A p \in Peers : Len(reports[p]) = 0 /\ Len(inbox[p]) = 0
    BY <2>1, <2>2
  <2>. QED
    BY <2>1, <2>3 DEF Init, TurnTypeOK, LeftOK, Commanding
<1>5. HistoryTypeOK
  <2>1. \A e \in Ends : MaxSends[e[2]] \in Nat
    BY EndFacts, GnsAssumption
  <2>2. accepted \in [Ends -> Seq(Packet)] /\ delivered \in [Ends -> Seq(Packet)]
    BY EmptySeq DEF Init
  <2>. QED
    BY <2>1, <2>2 DEF Init, HistoryTypeOK
<1>6. DialsOK
  <2>1. \A c \in Clients : Calling(c) = 0 /\ dials[c] = 0
    BY CountEmpty DEF Init, PeerInit, Calling, Clients
  <2>. QED
    BY <2>1, GnsAssumption DEF DialsOK
<1>. QED
  BY <1>1, <1>2, <1>3, <1>4, <1>5, <1>6 DEF IndType, TypeOK

LEMMA CommandDials ==
    ASSUME IndType, NEW p \in Peers, NEW type, HandlesQuietly(p, type), type # "Connect",
           UNCHANGED dials
    PROVE  DialsOK' /\ LeftOK'
BY TakenDials, QuietType, SameLeft DEF IndType

LEMMA AppCallDials ==
    ASSUME IndType, NEW p \in Peers, AppCall(p)
    PROVE  DialsOK' /\ LeftOK'
<1>1. UNCHANGED <<dials, turn>> /\ LeftOK' /\ TypeOK /\ DialsOK
  BY SameLeft DEF AppCall, IndType, backendVars
<1>2. \A cmd \in {BindCmd, ShutdownCmd} : cmd \in Commands[p] /\ cmd.type # "Connect"
  BY CommandMembers DEF Commands, BindCmd, ShutdownCmd
<1>3. CASE Listen(p)
  BY <1>1, <1>2, <1>3, OtherCallDials DEF Listen
<1>4. CASE p \in Clients /\ dials[p] < MaxDials /\ ~Contains(cmds[p], ConnectCmd) /\ Dial(p)
  BY <1>1, <1>4, DialDials DEF Dial
<1>5. ASSUME NEW e \in EndsOf(p), NEW r \in Kinds, CreateStream(p, e, r)
      PROVE  DialsOK'
  <2>1. PICK cmd \in Commands[p] : /\ cmd = CreateStreamCmd(e, next_stream_id'[p], r)
                                   /\ SendCommand(p, cmd) \/ UNCHANGED cmds
    BY <1>1, <1>5, CreateStreamType, GnsAssumption
  <2>2. cmd.type # "Connect"
    BY <2>1 DEF CreateStreamCmd
  <2>3. CASE UNCHANGED cmds
    BY <1>1, <2>3, SameDials
  <2>. QED
    BY <1>1, <2>1, <2>2, <2>3, OtherCallDials
<1>6. ASSUME NEW e \in EndsOf(p), NEW stream \in KnownStreams(p, e), CloseStream(p, e, stream)
      PROVE  DialsOK'
  <2>1. stream \in StreamId
    BY <1>1, KnownIsTold, QueueTypes
  <2>2. CloseStreamCmd(e, stream) \in Commands[p] /\ CloseStreamCmd(e, stream).type # "Connect"
    BY <2>1, CommandMembers DEF Commands, CloseStreamCmd
  <2>. QED
    BY <1>1, <1>6, <2>2, OtherCallDials DEF CloseStream
<1>7. CASE Shutdown(p)
  BY <1>1, <1>2, <1>7, OtherCallDials DEF Shutdown
<1>. QED
  BY <1>1, <1>3, <1>4, <1>5, <1>6, <1>7 DEF AppCall

LEMMA CommandType ==
    ASSUME IndType, NEW p \in Peers, HandleCommand(p)
    PROVE  IndType'
<1>1. TypeOK /\ DialsOK /\ LeftOK
  BY DEF IndType
<1>2. CASE p = Server /\ Bind
  <2>1. HandlesQuietly(Server, "Bind") /\ UNCHANGED dials
    BY <1>2 DEF Bind
  <2>. QED
    BY <1>1, <1>2, <2>1, BindType, CommandDials DEF IndType
<1>3. CASE p \in Clients /\ (Connect(p) \/ ConnectFails(p))
  <2>1. HandlesQuietly(p, "Connect") /\ dials' = [dials EXCEPT ![p] = @ + 1]
    BY <1>3 DEF Connect, ConnectFails
  <2>2. DialsOK' /\ dials[p] < MaxDials
    BY <1>1, <1>3, <2>1, TakenDials
  <2>3. LeftOK'
    BY <1>1, <2>1, QuietType, SameLeft
  <2>. QED
    BY <1>1, <1>3, <2>2, <2>3, ConnectType, ConnectFailsType DEF IndType
<1>4. CASE SendDropped(p)
  <2>1. HandlesQuietly(p, "Send") /\ UNCHANGED dials
    BY <1>4 DEF SendDropped, backendVars
  <2>. QED
    BY <1>1, <1>4, <2>1, SendDroppedType, CommandDials DEF IndType
<1>5. CASE SendTaken(p)
  <2>1. HandlesQuietly(p, "Send") /\ UNCHANGED dials
    BY <1>5 DEF SendTaken, backendVars
  <2>. QED
    BY <1>1, <1>5, <2>1, SendTakenType, CommandDials DEF IndType
<1>6. CASE AnswerStream(p)
  <2>1. HandlesQuietly(p, "CreateStream") \/ HandlesQuietly(p, "CloseStream")
    BY <1>6 DEF AnswerStream
  <2>2. UNCHANGED dials
    BY <1>6 DEF AnswerStream, backendVars
  <2>. QED
    BY <1>1, <1>6, <2>1, <2>2, AnswerStreamType, CommandDials DEF IndType
<1>7. CASE BackendShutdown(p) \/ (p = Server /\ BindFails)
  <2>1. Stop(p) /\ turn[p].phase = "commands"
    BY <1>7 DEF BackendShutdown, BindFails, Handles
  <2>2. ThreadExits(p) /\ UNCHANGED <<dials, turn>>
    BY <2>1 DEF Stop
  <2>. QED
    BY <1>1, <2>1, <2>2, StopType, ExitDials, SameLeft DEF IndType
<1>. QED
  BY <1>2, <1>3, <1>4, <1>5, <1>6, <1>7 DEF HandleCommand

LEMMA EventType ==
    ASSUME IndType, NEW p \in Peers, HandleEvent(p)
    PROVE  IndType'
<1>1. TypeOK /\ DialsOK /\ LeftOK
  BY DEF IndType
<1>2. PICK state : HandlesReport(p, state)
  BY DEF HandleEvent, HandleConnecting, HandleConnected, HandleEnded
<1>3. DialsOK'
  BY <1>1, <1>2, HeadReport, SameDials
<1>4. LeftOK'
  <2>1. turn' = [turn EXCEPT ![p].left = @ - 1] /\ turn[p].phase = "reports"
    BY <1>1, <1>2, HeadReport
  <2>. QED
    BY <1>1, <2>1 DEF LeftOK, TypeOK, TurnTypeOK
<1>. QED
  BY <1>1, <1>3, <1>4, HandleConnectingType, HandleConnectedType, HandleEndedType
     DEF IndType, HandleEvent

LEMMA PollsType ==
    ASSUME IndType, NEW p \in Peers, PollReports(p) \/ PollMessages(p) \/ HandleMessage(p)
    PROVE  IndType'
<1>1. TypeOK /\ DialsOK /\ LeftOK
  BY DEF IndType
<1>2. CASE PollReports(p)
  <2>1. /\ UNCHANGED <<cmds, dials>>
        /\ turn' = [turn EXCEPT ![p] = [phase |-> "reports", left |-> Polled(reports[p])]]
    BY <1>2 DEF PollReports, peerVars, backendVars
  <2>. QED
    BY <1>1, <1>2, <2>1, PollReportsType, SameDials, TurnLeft DEF IndType
<1>3. CASE PollMessages(p)
  <2>1. /\ UNCHANGED <<cmds, dials>>
        /\ turn' = [turn EXCEPT ![p] = IF inbox[p] = <<>> THEN Commanding
                                       ELSE [phase |-> "messages", left |-> Polled(inbox[p])]]
    BY <1>3 DEF PollMessages, peerVars, backendVars
  <2>2. inbox[p] # <<>> => Polled(inbox[p]) # 0
    BY <1>1, PolledBound, QueueTypes
  <2>3. PICK t : t = IF inbox[p] = <<>> THEN Commanding
                       ELSE [phase |-> "messages", left |-> Polled(inbox[p])]
    OBVIOUS
  <2>4. turn' = [turn EXCEPT ![p] = t] /\ (t.phase = "messages" => t.left # 0)
    BY <2>1, <2>2, <2>3 DEF Commanding
  <2>5. LeftOK'
    BY <1>1, <2>4, TurnLeft
  <2>. QED
    BY <1>1, <1>3, <2>1, <2>5, PollMessagesType, SameDials DEF IndType
<1>4. CASE HandleMessage(p)
  <2>1. /\ UNCHANGED <<cmds, dials>> /\ turn[p].left \in Nat \ {0}
        /\ turn' = [turn EXCEPT ![p] =
              IF @.left = 1 THEN Commanding ELSE [phase |-> "messages", left |-> @.left - 1]]
    BY <1>1, <1>4, HeadMessage
  <2>2. PICK t : t = IF turn[p].left = 1 THEN Commanding
                       ELSE [phase |-> "messages", left |-> turn[p].left - 1]
    OBVIOUS
  <2>3. turn' = [turn EXCEPT ![p] = t] /\ (t.phase = "messages" => t.left # 0)
    BY <2>1, <2>2 DEF Commanding
  <2>4. LeftOK'
    BY <1>1, <2>3, TurnLeft
  <2>. QED
    BY <1>1, <1>4, <2>1, <2>4, HandleMessageType, SameDials DEF IndType
<1>. QED
  BY <1>2, <1>3, <1>4

LEMMA IndTypeStep ==
    ASSUME IndType, [Next]_vars
    PROVE  IndType'
<1>1. TypeOK /\ DialsOK /\ LeftOK
  BY DEF IndType
<1>2. ASSUME NEW p \in Peers, AppCall(p)
      PROVE  IndType'
  BY <1>1, <1>2, AppCallType, AppCallDials DEF IndType
<1>3. ASSUME NEW p \in Peers, AppWaits(p)
      PROVE  IndType'
  <2>1. UNCHANGED <<cmds, dials>> /\ UNCHANGED turn
    BY <1>3 DEF AppWaits, Poll, Join, backendVars
  <2>. QED
    BY <1>1, <1>3, <2>1, AppWaitsType, SameDials, SameLeft DEF IndType
<1>4. ASSUME NEW p \in Peers, BackendStep(p)
      PROVE  IndType'
  BY <1>4, CommandType, EventType, PollsType DEF BackendStep
<1>5. ASSUME NEW e \in Ends, NEW stream \in KnownStreams(Owner(e), e), AppSend(e, stream)
      PROVE  IndType'
  <2>1. PICK cmd \in Commands[Owner(e)] :
            cmd.type # "Connect" /\ SendCommand(Owner(e), cmd) /\ UNCHANGED dials /\ UNCHANGED turn
    BY <1>1, <1>5, AppSendParts DEF SendCmd, backendVars
  <2>2. DialsOK' /\ LeftOK'
    BY <1>1, <2>1, EndFacts, OtherCallDials, SameLeft
  <2>. QED
    BY <1>1, <1>5, <2>2, AppSendType DEF IndType
<1>6. ASSUME NEW A, TypeOK', UNCHANGED <<peerVars, backendVars, turn, historyVars>>
      PROVE  IndType'
  <2>1. UNCHANGED <<cmds, dials>> /\ UNCHANGED turn
    BY <1>6 DEF peerVars, backendVars
  <2>. QED
    BY <1>1, <1>6, <2>1, SameDials, SameLeft DEF IndType
<1>7. ASSUME NEW e \in Ends, LibraryServes(e) \/ Library(Break(e))
      PROVE  IndType'
  BY <1>1, <1>6, <1>7, LibraryType DEF LibraryServes, Library
<1>8. ASSUME NEW m \in loose, Library(CarryLoose(m))
      PROVE  IndType'
  BY <1>1, <1>6, <1>8, CarryLooseType DEF Library
<1>9. CASE UNCHANGED vars
  <2>1. UNCHANGED <<peerVars, backendVars, turn, libraryVars, historyVars>>
    BY <1>9 DEF vars
  <2>2. UNCHANGED thread /\ PeerTypeOK(Commands, Events)'
    BY <1>1, <2>1, SamePeerType DEF peerVars
  <2>3. TypeOK'
    BY <1>1, <2>1, <2>2, SameHistoryType, CallFrame
  <2>. QED
    BY <1>6, <2>1, <2>3
<1>. QED
  BY <1>2, <1>3, <1>4, <1>5, <1>7, <1>8, <1>9 DEF Next

(***************************************************************************)
(* Every queue, map and table of the backend and of the library holds what *)
(* it may, a turn never has more left than is in its queue, and a thread   *)
(* that has ended is in no turn: for any number of clients, dials and      *)
(* calls, and any size of a batch.                                         *)
(***************************************************************************)
THEOREM TypeTheorem == Spec => []TypeOK
<1>1. Init => IndType
  BY IndTypeInit
<1>2. IndType /\ [Next]_vars => IndType'
  BY IndTypeStep
<1>3. IndType => TypeOK
  BY DEF IndType
<1>. QED
  BY <1>1, <1>2, <1>3, PTL DEF Spec

-------------------------------------------------------------------------------
(* The reports that wait: of which ends, and which say that it is gone     *)

Waits(s, e) == \E i \in DOMAIN s : s[i].end = e

Gone(s, e) == \E i \in DOMAIN s : s[i].end = e /\ s[i].state = "gone"

\* That an end is gone is the last there is to report of it.
GoneLast(s, e) ==
    \A i \in DOMAIN s : s[i].end = e /\ s[i].state = "gone" =>
        \A j \in DOMAIN s : s[j].end = e => j <= i

LEMMA NoReports ==
    ASSUME NEW e
    PROVE  ~Waits(<<>>, e) /\ ~Gone(<<>>, e) /\ GoneLast(<<>>, e)
BY DEF Waits, Gone, GoneLast

LEMMA OneReport ==
    ASSUME NEW x, NEW e
    PROVE  /\ Waits(<<x>>, e) <=> x.end = e
           /\ Gone(<<x>>, e) <=> x.end = e /\ x.state = "gone"
           /\ GoneLast(<<x>>, e)
<1>1. DOMAIN <<x>> = {1} /\ <<x>>[1] = x
  OBVIOUS
<1>. QED
  BY <1>1 DEF Waits, Gone, GoneLast

LEMMA ReportsAppend ==
    ASSUME NEW S, NEW s \in Seq(S), NEW x \in S, NEW e
    PROVE  /\ Waits(Append(s, x), e) <=> Waits(s, e) \/ x.end = e
           /\ Gone(Append(s, x), e) <=> Gone(s, e) \/ (x.end = e /\ x.state = "gone")
           /\ GoneLast(s, e) /\ (x.end = e => ~Gone(s, e)) => GoneLast(Append(s, x), e)
<1> DEFINE t == Append(s, x)
           n == Len(s) + 1
<1>1. /\ t \in Seq(S) /\ Len(t) = n /\ t[n] = x
      /\ \A i \in 1 .. Len(s) : t[i] = s[i]
  BY AppendProperties
<1>2. DOMAIN s = 1 .. Len(s) /\ Len(s) \in Nat /\ DOMAIN t = 1 .. n /\ n \in Nat
  BY <1>1, LenProperties
<1> HIDE DEF t
<1>3. /\ n \in DOMAIN t /\ n \notin DOMAIN s /\ DOMAIN t = DOMAIN s \cup {n}
      /\ \A i \in DOMAIN s : i \in DOMAIN t /\ t[i] = s[i] /\ i <= n
  BY <1>1, <1>2
<1> HIDE DEF n
<1>4. Waits(t, e) <=> Waits(s, e) \/ x.end = e
  BY <1>1, <1>3 DEF Waits
<1>5. Gone(t, e) <=> Gone(s, e) \/ (x.end = e /\ x.state = "gone")
  BY <1>1, <1>3 DEF Gone
<1>6. ASSUME GoneLast(s, e), x.end = e => ~Gone(s, e)
      PROVE  GoneLast(t, e)
  <2> SUFFICES ASSUME NEW i \in DOMAIN t, t[i].end = e, t[i].state = "gone",
                      NEW j \in DOMAIN t, t[j].end = e
               PROVE  j <= i
    BY DEF GoneLast
  <2>1. CASE i = n
    BY <1>2, <1>3, <2>1
  <2>2. CASE i # n
    <3>1. i \in DOMAIN s /\ s[i].end = e /\ s[i].state = "gone"
      BY <1>3, <2>2
    <3>2. x.end # e
      BY <1>6, <3>1 DEF Gone
    <3>3. j \in DOMAIN s /\ s[j].end = e
      BY <1>1, <1>3, <3>2
    <3>. QED
      BY <1>6, <3>1, <3>3 DEF GoneLast
  <2>. QED
    BY <2>1, <2>2
<1>. QED
  BY <1>4, <1>5, <1>6 DEF t

LEMMA ReportsTail ==
    ASSUME NEW S, NEW s \in Seq(S), s # <<>>, NEW e
    PROVE  /\ Waits(s, e) <=> Waits(Tail(s), e) \/ Head(s).end = e
           /\ Gone(s, e) <=> Gone(Tail(s), e) \/ (Head(s).end = e /\ Head(s).state = "gone")
           /\ GoneLast(s, e) => GoneLast(Tail(s), e)
           /\ GoneLast(s, e) /\ Head(s).end = e /\ Head(s).state = "gone" => ~Waits(Tail(s), e)
<1> DEFINE t == Tail(s)
<1>1. /\ t \in Seq(S) /\ Len(t) = Len(s) - 1
      /\ \A i \in 1 .. Len(t) : t[i] = s[i + 1]
      /\ Head(s) = s[1]
  BY HeadTailProperties
<1>2. /\ DOMAIN s = 1 .. Len(s) /\ Len(s) \in Nat /\ DOMAIN t = 1 .. Len(t) /\ Len(t) \in Nat
      /\ 1 \in DOMAIN s
  BY <1>1, LenProperties, EmptySeq
<1> HIDE DEF t
<1>3. /\ \A i \in DOMAIN t : i \in Nat /\ i >= 1 /\ i + 1 \in DOMAIN s /\ s[i + 1] = t[i]
      /\ \A i \in DOMAIN s \ {1} : i \in Nat /\ i - 1 \in DOMAIN t /\ t[i - 1] = s[i]
  BY <1>1, <1>2
<1>4. Waits(s, e) <=> Waits(t, e) \/ Head(s).end = e
  BY <1>1, <1>2, <1>3 DEF Waits
<1>5. Gone(s, e) <=> Gone(t, e) \/ (Head(s).end = e /\ Head(s).state = "gone")
  BY <1>1, <1>2, <1>3 DEF Gone
<1>6. ASSUME GoneLast(s, e) PROVE GoneLast(t, e)
  <2> SUFFICES ASSUME NEW i \in DOMAIN t, t[i].end = e, t[i].state = "gone",
                      NEW j \in DOMAIN t, t[j].end = e
               PROVE  j <= i
    BY DEF GoneLast
  <2>1. j + 1 <= i + 1
    BY <1>3, <1>6 DEF GoneLast
  <2>. QED
    BY <1>3, <2>1
<1>7. ASSUME GoneLast(s, e), Head(s).end = e, Head(s).state = "gone" PROVE ~Waits(t, e)
  <2> SUFFICES ASSUME NEW j \in DOMAIN t, t[j].end = e PROVE FALSE
    BY DEF Waits
  <2>1. j + 1 <= 1
    BY <1>1, <1>2, <1>3, <1>7 DEF GoneLast
  <2>. QED
    BY <1>3, <2>1
<1>. QED
  BY <1>4, <1>5, <1>6, <1>7 DEF t

-------------------------------------------------------------------------------
(* The maps follow the library.  Per end: the state the library has for it *)
(* says whether it is in a socket, in the maps, and what waits of it.      *)

Queue(e) == reports[Owner(e)]

Held(e) == e \in socket[Owner(e)]

LinkOK(e) ==
    /\ link[e] \in {"none", "closed"} => ~Waits(Queue(e), e)
    /\ link[e] \notin {"none", "closed"} => Held(e)
    /\ link[e] = "gone" <=> Gone(Queue(e), e)
    /\ link[e] = "up" => e \in mapped \/ (e[2] = "dial" /\ Waits(Queue(e), e))
    /\ e \in mapped => link[e] # "none"
    /\ e \in mapped /\ link[e] = "closed" => e[2] = "dial" /\ ~Held(e)
    /\ GoneLast(Queue(e), e)

\* A dial that has not been made leaves no trace.
FreshOK(e) == e[2] = "dial" /\ e[1][2] > dials[e[1][1]] => link[e] = "none" /\ ~Held(e)

LinksOK == \A e \in Ends : LinkOK(e) /\ FreshOK(e)

LEMMA GoneWaits ==
    ASSUME NEW s, NEW e, Gone(s, e)
    PROVE  Waits(s, e)
BY DEF Gone, Waits

\* An end a step has nothing to do with.
LEMMA LinkFrame ==
    ASSUME NEW e \in Ends, LinkOK(e), FreshOK(e),
           link'[e] = link[e], e \in mapped' <=> e \in mapped, Held(e)' <=> Held(e),
           Waits(Queue(e)', e) <=> Waits(Queue(e), e), Gone(Queue(e)', e) <=> Gone(Queue(e), e),
           GoneLast(Queue(e)', e), UNCHANGED dials
    PROVE  LinkOK(e)' /\ FreshOK(e)'
BY DEF LinkOK, FreshOK

LEMMA LinkSame ==
    ASSUME NEW e \in Ends, LinkOK(e), FreshOK(e),
           link'[e] = link[e], e \in mapped' <=> e \in mapped, Held(e)' <=> Held(e),
           Queue(e)' = Queue(e), UNCHANGED dials
    PROVE  LinkOK(e)' /\ FreshOK(e)'
BY DEF LinkOK, FreshOK

LEMMA LinksSame ==
    ASSUME LinksOK, UNCHANGED <<link, mapped, socket, reports, dials>>
    PROVE  LinksOK'
BY DEF LinksOK, LinkOK, FreshOK, Queue, Held

\* The library reports the new state of an end it has not given up.
LEMMA ReportingLinks ==
    ASSUME TypeOK, LinksOK, NEW e \in Ends, NEW state \in {"connecting", "up", "gone"},
           Reports(e, state), link' = [link EXCEPT ![e] = state], link[e] \notin {"gone", "closed"},
           Held(e), state = "up" => e[2] = "dial", UNCHANGED <<mapped, socket, dials>>
    PROVE  LinksOK'
<1>a. PICK o \in Peers : o = Owner(e) /\ e \in EndsOf(o)
  BY EndFacts
<1>1. PICK x \in Report(EndsOf(o)) : o = Owner(e) /\ x = [end |-> e, state |-> state]
  BY <1>a DEF Report
<1>2. PICK s : s = reports[o]
  OBVIOUS
<1>3. s \in Seq(Report(EndsOf(o))) /\ DOMAIN reports = Peers
  BY <1>2 DEF TypeOK, LibraryTypeOK
<1>4. reports' = [reports EXCEPT ![o] = Append(s, x)]
  BY <1>1, <1>2, <1>3 DEF Reports
<1>5. ASSUME NEW d \in Ends, d # e
      PROVE  LinkOK(d)' /\ FreshOK(d)'
  <2>1. LinkOK(d) /\ FreshOK(d) /\ link'[d] = link[d] /\ Owner(d) \in Peers
    BY <1>5, EndFacts DEF LinksOK, TypeOK, LibraryTypeOK
  <2>2. CASE Owner(d) = o
    <3>1. Queue(d) = s /\ Queue(d)' = Append(s, x) /\ x.end # d
      BY <1>1, <1>2, <1>3, <1>4, <1>5, <2>2 DEF Queue
    <3>2. /\ Waits(Append(s, x), d) <=> Waits(s, d)
          /\ Gone(Append(s, x), d) <=> Gone(s, d)
          /\ GoneLast(Append(s, x), d)
      BY <1>3, <2>1, <3>1, ReportsAppend DEF LinkOK
    <3>. QED
      BY <2>1, <3>1, <3>2, LinkFrame DEF Held
  <2>3. CASE Owner(d) # o
    <3>1. Queue(d)' = Queue(d)
      BY <1>3, <1>4, <2>1, <2>3 DEF Queue
    <3>. QED
      BY <2>1, <3>1, LinkSame DEF Held
  <2>. QED
    BY <2>2, <2>3
<1>6. LinkOK(e)' /\ FreshOK(e)'
  <2>1. Queue(e) = s /\ Queue(e)' = Append(s, x) /\ x.end = e /\ x.state = state
    BY <1>1, <1>2, <1>3, <1>4 DEF Queue
  <2>2. LinkOK(e) /\ FreshOK(e) /\ link'[e] = state /\ Held(e)' /\ ~Gone(s, e)
    BY <2>1 DEF LinksOK, LinkOK, TypeOK, LibraryTypeOK, Held
  <2>3. /\ Waits(Append(s, x), e) /\ (Gone(Append(s, x), e) <=> state = "gone")
        /\ GoneLast(Append(s, x), e)
    BY <1>3, <2>1, <2>2, ReportsAppend DEF LinkOK
  <2>. QED
    BY <2>1, <2>2, <2>3 DEF LinkOK, FreshOK
<1>. QED
  BY <1>5, <1>6 DEF LinksOK

LEMMA LoseLinks ==
    ASSUME TypeOK, LinksOK, NEW e \in Ends, Library(Lose(e))
    PROVE  LinksOK'
<1>1. /\ link[e] \in {"connecting", "up"} /\ link' = [link EXCEPT ![e] = "gone"]
      /\ Reports(e, "gone")
      /\ UNCHANGED <<mapped, socket, dials>>
  BY DEF Library, Lose, backendVars
<1>2. Held(e)
  BY <1>1 DEF LinksOK, LinkOK
<1>. QED
  BY <1>1, <1>2, ReportingLinks

LEMMA LibraryLinks ==
    ASSUME TypeOK, LinksOK, NEW e \in Ends, LibraryServes(e) \/ Library(Break(e))
    PROVE  LinksOK'
<1>1. CASE Library(Arrive(e))
  <2>1. /\ link[e] = "none" /\ e \in socket[Server] /\ link' = [link EXCEPT ![e] = "connecting"]
        /\ Reports(e, "connecting") /\ UNCHANGED <<mapped, socket, dials>>
    BY <1>1 DEF Library, Arrive, backendVars
  <2>2. Held(e)
    BY <2>1, GnsAssumption DEF TypeOK, SocketTypeOK, EndsOf, Held
  <2>. QED
    BY <2>1, <2>2, ReportingLinks
<1>2. CASE Library(Complete(e))
  <2>1. /\ e[2] = "dial" /\ link[e] = "connecting" /\ link' = [link EXCEPT ![e] = "up"]
        /\ Reports(e, "up") /\ UNCHANGED <<mapped, socket, dials>>
    BY <1>2 DEF Library, Complete, backendVars
  <2>2. Held(e)
    BY <2>1 DEF LinksOK, LinkOK
  <2>. QED
    BY <2>1, <2>2, ReportingLinks
<1>3. CASE Library(Carry(e))
  BY <1>3, LinksSame DEF Library, Carry, backendVars
<1>4. CASE Library(Notice(e))
  BY <1>4, LoseLinks DEF Library, Notice
<1>5. CASE Library(Break(e))
  BY <1>5, LoseLinks DEF Library, Break
<1>. QED
  BY <1>1, <1>2, <1>3, <1>4, <1>5 DEF LibraryServes, Library

LEMMA BindLinks ==
    ASSUME TypeOK, LinksOK, Bind
    PROVE  LinksOK'
<1>1. /\ socket' = [socket EXCEPT ![Server] = EndsOf(Server)]
      /\ UNCHANGED <<link, mapped, reports, dials>> /\ DOMAIN socket = Peers /\ Server \in Peers
  BY GnsAssumption DEF Bind, libraryVars, TypeOK, SocketTypeOK
<1>2. ASSUME NEW e \in Ends
      PROVE  LinkOK(e)' /\ FreshOK(e)'
  <2>1. LinkOK(e) /\ FreshOK(e) /\ Queue(e)' = Queue(e) /\ e[2] \in {"dial", "accept"}
    BY <1>1, EndFacts DEF LinksOK, Queue
  <2>2. CASE Owner(e) = Server
    <3>1. e[2] = "accept" /\ Held(e)'
      BY <1>1, <2>2, Sides DEF Held, EndsOf
    <3>. QED
      BY <1>1, <2>1, <3>1 DEF LinkOK, FreshOK
  <2>3. CASE Owner(e) # Server
    <3>1. Held(e)' <=> Held(e)
      BY <1>1, <2>3, EndFacts DEF Held
    <3>. QED
      BY <1>1, <2>1, <3>1, LinkSame
  <2>. QED
    BY <2>2, <2>3
<1>. QED
  BY <1>2 DEF LinksOK

LEMMA ConnectFailsLinks ==
    ASSUME TypeOK, LinksOK, NEW c \in Clients, ConnectFails(c)
    PROVE  LinksOK'
<1>1. /\ UNCHANGED <<link, mapped, reports, socket>> /\ dials' = [dials EXCEPT ![c] = @ + 1]
      /\ dials \in [Clients -> Nat]
  BY DEF ConnectFails, libraryVars, TypeOK, SocketTypeOK
<1>2. ASSUME NEW e \in Ends
      PROVE  LinkOK(e)' /\ FreshOK(e)'
  <2>1. LinkOK(e) /\ FreshOK(e)
    BY DEF LinksOK
  <2>2. LinkOK(e)'
    BY <1>1, <2>1 DEF LinkOK, Queue, Held
  <2>3. e[1][1] \in Clients /\ e[1][2] \in Nat
    BY GnsAssumption DEF Ends
  <2>4. dials'[e[1][1]] >= dials[e[1][1]] /\ dials'[e[1][1]] \in Nat /\ dials[e[1][1]] \in Nat
    BY <1>1, <2>3
  <2>5. FreshOK(e)'
    BY <1>1, <2>1, <2>3, <2>4 DEF FreshOK, Held
  <2>. QED
    BY <2>2, <2>5
<1>. QED
  BY <1>2 DEF LinksOK

\* The new socket has the new dial; what the old one had is closed.
LEMMA ConnectLinks ==
    ASSUME TypeOK, LinksOK, NEW c \in Clients, Connect(c), dials[c] < MaxDials
    PROVE  LinksOK'
<1> DEFINE dialed == <<<<c, dials[c] + 1>>, "dial">>
<1>a. /\ dials' = [dials EXCEPT ![c] = @ + 1] /\ socket' = [socket EXCEPT ![c] = {dialed}]
      /\ link' = [d \in Ends |->
                     IF d = dialed THEN "connecting"
                      ELSE IF d \in socket[c] THEN "closed" ELSE link[d]]
      /\ \E news \in {<<>>, <<[end |-> dialed, state |-> "connecting"]>>} :
             reports' = [reports EXCEPT ![c] = news]
      /\ UNCHANGED mapped
  BY DEF Connect
<1>b. /\ dials \in [Clients -> 0 .. MaxDials] /\ c \in Peers /\ dials[c] + 1 \in 1 .. MaxDials
      /\ DOMAIN socket = Peers /\ DOMAIN reports = Peers /\ socket[c] \subseteq EndsOf(c)
      /\ link \in [Ends -> LinkState]
  BY GnsAssumption DEF TypeOK, SocketTypeOK, LibraryTypeOK, Clients
<1>c. /\ dialed \in Ends /\ Owner(dialed) = c /\ dialed[2] = "dial" /\ dialed[1][1] = c
      /\ dialed[1][2] = dials[c] + 1
  BY <1>b, DialEnd
<1>d. PICK e, old : e = dialed /\ old = socket[c]
  OBVIOUS
<1> HIDE DEF dialed
<1>1. PICK news \in {<<>>, <<[end |-> e, state |-> "connecting"]>>} :
          reports' = [reports EXCEPT ![c] = news]
  BY <1>a, <1>d
<1>2. \A d : /\ Waits(news, d) => d = e
             /\ ~Gone(news, d) /\ GoneLast(news, d)
  BY NoReports, OneReport
<1>3. LinkOK(e) /\ FreshOK(e) /\ link[e] = "none" /\ e \in Ends /\ Owner(e) = c /\ e \notin old
  <2>1. LinkOK(e) /\ FreshOK(e) /\ e \in Ends /\ Owner(e) = c
    BY <1>c, <1>d DEF LinksOK
  <2>2. e[2] = "dial" /\ e[1][2] > dials[e[1][1]]
    BY <1>b, <1>c, <1>d
  <2>. QED
    BY <1>d, <2>1, <2>2 DEF FreshOK, Held
<1>4. LinkOK(e)' /\ FreshOK(e)'
  <2>1. Queue(e)' = news /\ Held(e)' /\ link'[e] = "connecting"
    BY <1>1, <1>3, <1>a, <1>b, <1>d DEF Queue, Held
  <2>2. ~(e[1][2] > dials'[e[1][1]])
    BY <1>a, <1>b, <1>c, <1>d
  <2>. QED
    BY <1>2, <2>1, <2>2 DEF LinkOK, FreshOK
<1>5. ASSUME NEW d \in Ends, d # e
      PROVE  LinkOK(d)' /\ FreshOK(d)'
  <2>1. /\ LinkOK(d) /\ FreshOK(d) /\ Owner(d) \in Peers
        /\ link'[d] = IF d \in old THEN "closed" ELSE link[d]
    BY <1>5, <1>a, <1>d, EndFacts DEF LinksOK
  <2>2. CASE Owner(d) = c
    <3>1. Queue(d)' = news /\ ~Held(d)' /\ (Held(d) <=> d \in old)
      BY <1>1, <1>5, <1>a, <1>b, <1>d, <2>2 DEF Queue, Held
    <3>2. d[2] = "dial" /\ d[1][1] = c /\ d[1][2] \in Nat
      BY <2>2, Sides, EndFacts, GnsAssumption DEF Clients, Ends
    <3>3. link'[d] \in {"none", "closed"} /\ (link[d] # "none" => link'[d] = "closed")
      BY <1>b, <2>1, <3>1 DEF LinkOK, LinkState
    <3>4. LinkOK(d)'
      BY <1>2, <1>5, <1>a, <2>1, <3>1, <3>2, <3>3 DEF LinkOK
    <3>5. d[1][2] > dials'[c] => d[1][2] > dials[c]
      BY <1>a, <1>b, <3>2
    <3>6. FreshOK(d)'
      BY <2>1, <3>1, <3>2, <3>5 DEF FreshOK
    <3>. QED
      BY <3>4, <3>6
  <2>3. CASE Owner(d) # c
    <3>1. d \notin old
      BY <1>b, <1>d, <2>3 DEF EndsOf
    <3>2. Queue(d)' = Queue(d) /\ (Held(d)' <=> Held(d))
      BY <1>1, <1>a, <1>b, <2>1, <2>3 DEF Queue, Held
    <3>3. LinkOK(d)'
      BY <1>a, <2>1, <3>1, <3>2 DEF LinkOK
    <3>4. FreshOK(d)'
      <4>1. d[2] = "dial" => d[1][1] # c /\ d[1][1] \in Clients
        BY <2>3, EndFacts
      <4>. QED
        BY <1>a, <1>b, <2>1, <3>1, <3>2, <4>1 DEF FreshOK
    <3>. QED
      BY <3>3, <3>4
  <2>. QED
    BY <2>2, <2>3
<1>. QED
  BY <1>4, <1>5 DEF LinksOK

LEMMA StopLinks ==
    ASSUME TypeOK, LinksOK, NEW p \in Peers, Stop(p)
    PROVE  LinksOK'
<1>1. /\ socket' = [socket EXCEPT ![p] = {}] /\ mapped' = mapped \ EndsOf(p)
      /\ CloseEnds(p, {e \in socket[p] : link[e] # "none"})
      /\ reports' = [reports EXCEPT ![p] = <<>>]
      /\ UNCHANGED dials
  BY DEF Stop
<1>2. PICK S : S = {e \in socket[p] : link[e] # "none"}
  OBVIOUS
<1>3. link' = [e \in Ends |-> IF e \in S THEN "closed" ELSE link[e]]
  BY <1>1, <1>2 DEF CloseEnds
<1>4. PICK empty : empty = <<>>
  OBVIOUS
<1>5. \A d : ~Waits(empty, d) /\ ~Gone(empty, d) /\ GoneLast(empty, d)
  BY <1>4, NoReports
<1>6. /\ DOMAIN socket = Peers /\ DOMAIN reports = Peers /\ socket[p] \subseteq EndsOf(p)
      /\ link \in [Ends -> LinkState] /\ reports' = [reports EXCEPT ![p] = empty]
  BY <1>1, <1>4 DEF TypeOK, SocketTypeOK, LibraryTypeOK
<1>7. ASSUME NEW d \in Ends
      PROVE  LinkOK(d)' /\ FreshOK(d)'
  <2>1. LinkOK(d) /\ FreshOK(d) /\ Owner(d) \in Peers
    BY EndFacts DEF LinksOK
  <2>2. CASE Owner(d) = p
    <3>1. Queue(d)' = empty /\ ~Held(d)' /\ (Held(d) <=> d \in socket[p]) /\ d \notin mapped'
      BY <1>1, <1>6, <2>2 DEF Queue, Held, EndsOf
    <3>2. link'[d] \in {"none", "closed"} /\ (link[d] = "none" => link'[d] = "none")
      BY <1>2, <1>3, <1>6, <2>1, <3>1 DEF LinkOK, LinkState
    <3>. QED
      BY <1>1, <1>5, <2>1, <3>1, <3>2 DEF LinkOK, FreshOK
  <2>3. CASE Owner(d) # p
    <3>1. d \notin S /\ (d \in mapped' <=> d \in mapped)
      BY <1>1, <1>2, <1>6, <2>3 DEF EndsOf
    <3>2. Queue(d)' = Queue(d) /\ (Held(d)' <=> Held(d)) /\ link'[d] = link[d]
      BY <1>1, <1>3, <1>6, <2>1, <2>3, <3>1 DEF Queue, Held
    <3>. QED
      BY <1>1, <2>1, <3>1, <3>2, LinkSame
  <2>. QED
    BY <2>2, <2>3
<1>. QED
  BY <1>7 DEF LinksOK

\* What the queue of p says of the other ends, when a report is done.
LEMMA DoneLinks ==
    ASSUME TypeOK, LinksOK, NEW p \in Peers, NEW state, HandlesReport(p, state), ReportDone(p),
           NEW e \in Ends, e = Head(reports[p]).end,
           \A d \in Ends \ {e} : link'[d] = link[d] /\ (d \in mapped' <=> d \in mapped),
           LinkOK(e)'
    PROVE  LinksOK'
<1>1. PICK s : s = reports[p] /\ s \in Seq(Report(EndsOf(p))) /\ s # <<>> /\ DOMAIN reports = Peers
  BY HeadReport
<1>2. /\ reports' = [reports EXCEPT ![p] = Tail(s)] /\ Head(s).end = e /\ Head(s).state = state
      /\ UNCHANGED <<socket, dials>> /\ Owner(e) = p
  BY <1>1, HeadReport DEF ReportDone
<1>3. ASSUME NEW d \in Ends, d # e
      PROVE  LinkOK(d)' /\ FreshOK(d)'
  <2>1. LinkOK(d) /\ FreshOK(d) /\ Owner(d) \in Peers /\ (Held(d)' <=> Held(d))
    BY <1>2, EndFacts DEF LinksOK, Held
  <2>2. CASE Owner(d) = p
    <3>1. Queue(d) = s /\ Queue(d)' = Tail(s)
      BY <1>1, <1>2, <2>2 DEF Queue
    <3>2. /\ Waits(Tail(s), d) <=> Waits(s, d)
          /\ Gone(Tail(s), d) <=> Gone(s, d)
          /\ GoneLast(Tail(s), d)
      BY <1>1, <1>2, <1>3, <2>1, <3>1, ReportsTail DEF LinkOK
    <3>. QED
      BY <1>2, <1>3, <2>1, <3>1, <3>2, LinkFrame
  <2>3. CASE Owner(d) # p
    <3>1. Queue(d)' = Queue(d)
      BY <1>1, <1>2, <2>1, <2>3 DEF Queue
    <3>. QED
      BY <1>2, <1>3, <2>1, <3>1, LinkSame
  <2>. QED
    BY <2>2, <2>3
<1>4. FreshOK(e)'
  <2>1. Waits(s, e) /\ Queue(e) = s
    BY <1>1, <1>2, ReportsTail DEF Queue
  <2>2. ~(e[2] = "dial" /\ e[1][2] > dials[e[1][1]])
    BY <2>1 DEF LinksOK, LinkOK, FreshOK
  <2>. QED
    BY <1>2, <2>2 DEF FreshOK
<1>. QED
  BY <1>3, <1>4 DEF LinksOK

\* The end that is reported, before and after its report is done.
LEMMA HeadLink ==
    ASSUME TypeOK, LinksOK, NEW p \in Peers, NEW state, HandlesReport(p, state),
           NEW e, e = Head(reports[p]).end
    PROVE  /\ e \in Ends /\ Owner(e) = p /\ e \in EndsOf(p) /\ LinkOK(e) /\ FreshOK(e)
           /\ link[e] \in {"connecting", "up", "gone"} /\ Held(e) /\ (Held(e)' <=> Held(e))
           /\ Queue(e) = reports[p] /\ Waits(Queue(e), e) /\ (state = "gone" => link[e] = "gone")
           /\ state # "gone" => (Gone(Tail(reports[p]), e) <=> Gone(Queue(e), e))
           /\ GoneLast(Tail(reports[p]), e)
           /\ ReportDone(p) => Queue(e)' = Tail(reports[p])
<1>1. PICK s : s = reports[p] /\ s \in Seq(Report(EndsOf(p))) /\ s # <<>> /\ DOMAIN reports = Peers
  BY HeadReport
<1>2. /\ Head(s).end = e /\ Head(s).state = state /\ UNCHANGED <<socket, dials>> /\ Owner(e) = p
      /\ e \in Ends /\ e \in EndsOf(p)
  BY <1>1, HeadReport
<1>3. LinkOK(e) /\ FreshOK(e) /\ Queue(e) = s
  BY <1>1, <1>2 DEF LinksOK, Queue
<1>4. Waits(s, e) /\ (state = "gone" => Gone(s, e)) /\ GoneLast(Tail(s), e)
      /\ (state # "gone" => (Gone(Tail(s), e) <=> Gone(s, e)))
  BY <1>1, <1>2, <1>3, ReportsTail DEF LinkOK
<1>5. /\ link[e] \in LinkState /\ link[e] \notin {"none", "closed"}
      /\ state = "gone" => link[e] = "gone"
  BY <1>2, <1>3, <1>4 DEF LinkOK, TypeOK, LibraryTypeOK
<1>6. Held(e) /\ (Held(e)' <=> Held(e))
  BY <1>2, <1>3, <1>5 DEF LinkOK, Held
<1>7. ReportDone(p) => Queue(e)' = Tail(s)
  BY <1>1, <1>2 DEF ReportDone, Queue
<1>. QED
  BY <1>1, <1>2, <1>3, <1>4, <1>5, <1>6, <1>7 DEF LinkState

LEMMA RegisteredLinks ==
    ASSUME TypeOK, LinksOK, NEW p \in Peers, NEW state \in {"connecting", "up"},
           HandlesReport(p, state), ReportDone(p),
           Registers(p, Head(reports[p]).end) \/ RegistersIfNew(p, Head(reports[p]).end),
           UNCHANGED link
    PROVE  LinksOK'
<1>1. PICK e : e = Head(reports[p]).end
  OBVIOUS
<1>2. mapped' = mapped \cup {e} /\ link' = link
  BY <1>1 DEF Registers, RegistersIfNew
<1>3. /\ e \in Ends /\ LinkOK(e) /\ link[e] \in {"connecting", "up", "gone"} /\ Held(e)'
      /\ (Gone(Tail(reports[p]), e) <=> Gone(Queue(e), e)) /\ GoneLast(Tail(reports[p]), e)
  BY <1>1, HeadLink
<1>4. Queue(e)' = Tail(reports[p])
  BY <1>1, HeadLink
<1>5. LinkOK(e)'
  BY <1>2, <1>3, <1>4 DEF LinkOK
<1>. QED
  BY <1>1, <1>2, <1>3, <1>5, DoneLinks

\* accept, when it does something: the end is up, and that is reported.
LEMMA AcceptedLinks ==
    ASSUME TypeOK, LinksOK, NEW p \in Peers, HandlesReport(p, "connecting"),
           NEW e, e = Head(reports[p]).end, e[2] = "accept", link[e] = "connecting",
           Registers(p, e), link' = [link EXCEPT ![e] = "up"],
           reports' = [reports EXCEPT ![p] = Append(Tail(@), [end |-> e, state |-> "up"])]
    PROVE  LinksOK'
<1>1. PICK s : s = reports[p] /\ s \in Seq(Report(EndsOf(p))) /\ s # <<>> /\ DOMAIN reports = Peers
  BY HeadReport
<1>2. /\ Head(s).end = e /\ Head(s).state = "connecting" /\ UNCHANGED <<socket, dials>>
      /\ Owner(e) = p
      /\ e \in Ends /\ e \in EndsOf(p) /\ Tail(s) \in Seq(Report(EndsOf(p)))
  BY <1>1, HeadReport
<1>3. PICK x \in Report(EndsOf(p)) : x = [end |-> e, state |-> "up"]
  BY <1>2 DEF Report
<1>4. PICK t : t = Tail(s) /\ t \in Seq(Report(EndsOf(p)))
  BY <1>2
<1>5. reports' = [reports EXCEPT ![p] = Append(t, x)] /\ x.end = e /\ x.state = "up"
  BY <1>1, <1>3, <1>4
<1>6. mapped' = mapped \cup {e} /\ link \in [Ends -> LinkState]
  BY DEF Registers, TypeOK, LibraryTypeOK
<1>7. ASSUME NEW d \in Ends, d # e
      PROVE  LinkOK(d)' /\ FreshOK(d)'
  <2>1. LinkOK(d) /\ FreshOK(d) /\ Owner(d) \in Peers /\ (Held(d)' <=> Held(d))
    BY <1>2, EndFacts DEF LinksOK, Held
  <2>2. link'[d] = link[d] /\ (d \in mapped' <=> d \in mapped)
    BY <1>6, <1>7
  <2>3. CASE Owner(d) = p
    <3>1. Queue(d) = s /\ Queue(d)' = Append(t, x)
      BY <1>1, <1>5, <2>3 DEF Queue
    <3>2. GoneLast(s, d)
      BY <2>1, <3>1 DEF LinkOK
    <3>3. (Waits(t, d) <=> Waits(s, d)) /\ (Gone(t, d) <=> Gone(s, d)) /\ GoneLast(t, d)
      BY <1>1, <1>2, <1>4, <1>7, <3>2, ReportsTail
    <3>4. /\ Waits(Append(t, x), d) <=> Waits(s, d)
          /\ Gone(Append(t, x), d) <=> Gone(s, d)
          /\ GoneLast(Append(t, x), d)
      BY <1>4, <1>5, <1>7, <3>3, ReportsAppend
    <3>. QED
      BY <1>2, <2>1, <2>2, <3>1, <3>4, LinkFrame
  <2>4. CASE Owner(d) # p
    <3>1. Queue(d)' = Queue(d)
      BY <1>1, <1>5, <2>1, <2>4 DEF Queue
    <3>. QED
      BY <1>2, <2>1, <2>2, <3>1, LinkSame
  <2>. QED
    BY <2>3, <2>4
<1>8. LinkOK(e)' /\ FreshOK(e)'
  <2>1. /\ LinkOK(e) /\ Queue(e) = s /\ Held(e)' /\ GoneLast(t, e) /\ ~Gone(t, e)
    <3>1. LinkOK(e) /\ Queue(e) = s /\ Held(e) /\ (Held(e)' <=> Held(e)) /\ GoneLast(Tail(s), e)
          /\ (Gone(Tail(s), e) <=> Gone(Queue(e), e))
      BY <1>1, HeadLink
    <3>2. ~Gone(Queue(e), e)
      BY <3>1 DEF LinkOK
    <3>. QED
      BY <1>4, <3>1, <3>2
  <2>2. Queue(e)' = Append(t, x) /\ link'[e] = "up" /\ e \in mapped'
    BY <1>1, <1>2, <1>5, <1>6 DEF Queue
  <2>3. ~Gone(Append(t, x), e) /\ GoneLast(Append(t, x), e)
    BY <1>4, <1>5, <2>1, ReportsAppend
  <2>. QED
    BY <2>1, <2>2, <2>3 DEF LinkOK, FreshOK
<1>. QED
  BY <1>7, <1>8 DEF LinksOK

LEMMA HandleConnectingLinks ==
    ASSUME TypeOK, LinksOK, NEW p \in Peers, HandleConnecting(p)
    PROVE  LinksOK'
<1>1. HandlesReport(p, "connecting")
  BY DEF HandleConnecting
<1>2. PICK e : e = Head(reports[p]).end
  OBVIOUS
<1>3. e \in Ends /\ e[2] \in {"dial", "accept"}
  BY <1>1, <1>2, HeadLink, EndFacts
<1>4. CASE e[2] = "dial"
  BY <1>1, <1>2, <1>4, RegisteredLinks DEF HandleConnecting
<1>5. CASE e[2] = "accept" /\ link[e] = "connecting"
  BY <1>1, <1>2, <1>5, AcceptedLinks DEF HandleConnecting
<1>6. CASE e[2] = "accept" /\ link[e] # "connecting"
  <2>1. ReportDone(p) /\ UNCHANGED <<mapped, link>>
    BY <1>2, <1>6 DEF HandleConnecting
  <2>2. LinkOK(e)'
    <3>1. /\ LinkOK(e) /\ link[e] \in {"connecting", "up", "gone"} /\ Held(e)'
          /\ (Gone(Tail(reports[p]), e) <=> Gone(Queue(e), e)) /\ GoneLast(Tail(reports[p]), e)
      BY <1>1, <1>2, HeadLink
    <3>2. Queue(e)' = Tail(reports[p])
      BY <1>1, <1>2, <2>1, HeadLink
    <3>. QED
      BY <1>6, <2>1, <3>1, <3>2 DEF LinkOK
  <2>. QED
    BY <1>1, <1>2, <1>3, <2>1, <2>2, DoneLinks
<1>. QED
  BY <1>3, <1>4, <1>5, <1>6

LEMMA HandleEndedLinks ==
    ASSUME TypeOK, LinksOK, NEW p \in Peers, HandleEnded(p)
    PROVE  LinksOK'
<1>1. PICK e : e = Head(reports[p]).end
  OBVIOUS
<1>2. /\ HandlesReport(p, "gone") /\ CloseEnds(p, {e}) /\ ReportDone(p)
      /\ mapped' = mapped \ {e}
  BY <1>1 DEF HandleEnded, Forgets
<1>3. /\ e \in Ends /\ Queue(e) = reports[p] /\ LinkOK(e) /\ GoneLast(Tail(reports[p]), e)
      /\ reports[p] \in Seq(Report(EndsOf(p))) /\ reports[p] # <<>>
      /\ Head(reports[p]).end = e /\ Head(reports[p]).state = "gone"
  BY <1>1, <1>2, HeadLink, HeadReport
<1>4. Queue(e)' = Tail(reports[p])
  <2>1. /\ reports' = [reports EXCEPT ![p] = Tail(reports[p])] /\ DOMAIN reports = Peers
        /\ Owner(e) = p
    BY <1>1, <1>2, HeadReport DEF ReportDone
  <2>. QED
    BY <2>1 DEF Queue
<1>5. ~Waits(Tail(reports[p]), e)
  BY <1>3, ReportsTail DEF LinkOK
<1>6. link'[e] = "closed" /\ \A d \in Ends \ {e} : link'[d] = link[d]
  BY <1>2, <1>3 DEF CloseEnds
<1>7. ~Gone(Tail(reports[p]), e)
  BY <1>5, GoneWaits
<1>8. LinkOK(e)'
  BY <1>2, <1>3, <1>4, <1>5, <1>6, <1>7 DEF LinkOK
<1>. QED
  BY <1>1, <1>2, <1>3, <1>6, <1>8, DoneLinks

LEMMA LinksInit ==
    ASSUME Init
    PROVE  LinksOK
<1>1. ASSUME NEW e \in Ends
      PROVE  Queue(e) = <<>> /\ ~Held(e) /\ link[e] = "none" /\ e \notin mapped
  BY EndFacts DEF Init, Queue, Held
<1>2. \A e \in Ends : ~Waits(Queue(e), e) /\ ~Gone(Queue(e), e) /\ GoneLast(Queue(e), e)
  BY <1>1, NoReports
<1>. QED
  BY <1>1, <1>2 DEF LinksOK, LinkOK, FreshOK

LEMMA LinksStep ==
    ASSUME IndType, LinksOK, [Next]_vars
    PROVE  LinksOK'
<1>1. TypeOK /\ DialsOK
  BY DEF IndType
<1>2. ASSUME NEW p \in Peers, AppCall(p) \/ AppWaits(p)
      PROVE  LinksOK'
  BY <1>2, LinksSame DEF AppCall, AppWaits, backendVars, libraryVars
<1>3. ASSUME NEW p \in Peers, HandleCommand(p)
      PROVE  LinksOK'
  <2>1. CASE p = Server /\ Bind
    BY <1>1, <2>1, BindLinks
  <2>2. CASE p \in Clients /\ (Connect(p) \/ ConnectFails(p))
    <3>1. HandlesQuietly(p, "Connect") /\ dials' = [dials EXCEPT ![p] = @ + 1]
      BY <2>2 DEF Connect, ConnectFails
    <3>2. dials[p] < MaxDials
      BY <1>1, <2>2, <3>1, TakenDials
    <3>. QED
      BY <1>1, <2>2, <3>2, ConnectLinks, ConnectFailsLinks
  <2>3. CASE SendDropped(p) \/ SendTaken(p) \/ AnswerStream(p)
    BY <2>3, LinksSame DEF SendDropped, SendTaken, AnswerStream, backendVars, libraryVars
  <2>4. CASE BackendShutdown(p) \/ (p = Server /\ BindFails)
    BY <1>1, <2>4, StopLinks DEF BackendShutdown, BindFails
  <2>. QED
    BY <1>3, <2>1, <2>2, <2>3, <2>4 DEF HandleCommand
<1>4. ASSUME NEW p \in Peers, PollReports(p) \/ PollMessages(p) \/ HandleMessage(p)
      PROVE  LinksOK'
  BY <1>4, LinksSame DEF PollReports, PollMessages, HandleMessage, backendVars, libraryVars
<1>5. ASSUME NEW p \in Peers, HandleEvent(p)
      PROVE  LinksOK'
  BY <1>1, <1>5, HandleConnectingLinks, RegisteredLinks, HandleEndedLinks
     DEF HandleEvent, HandleConnected
<1>6. ASSUME NEW e \in Ends, NEW stream \in KnownStreams(Owner(e), e), AppSend(e, stream)
      PROVE  LinksOK'
  BY <1>6, LinksSame DEF AppSend, backendVars, libraryVars
<1>7. ASSUME NEW e \in Ends, LibraryServes(e) \/ Library(Break(e))
      PROVE  LinksOK'
  BY <1>1, <1>7, LibraryLinks
<1>8. ASSUME NEW m \in loose, Library(CarryLoose(m))
      PROVE  LinksOK'
  BY <1>8, LinksSame DEF Library, CarryLoose, backendVars
<1>9. CASE UNCHANGED vars
  BY <1>9, LinksSame DEF vars, backendVars, libraryVars
<1>. QED
  BY <1>2, <1>3, <1>4, <1>5, <1>6, <1>7, <1>8, <1>9 DEF Next, BackendStep

(***************************************************************************)
(* The backend's maps follow the library: a connection of a socket that    *)
(* the library has made or lost is in the maps or about to be reported,    *)
(* and none in the maps was closed, whenever the library's threads run.    *)
(***************************************************************************)
THEOREM MapsTheorem == Spec => []MapsFollowLibrary
<1>1. Init => IndType /\ LinksOK
  BY IndTypeInit, LinksInit
<1>2. (IndType /\ LinksOK) /\ [Next]_vars => (IndType /\ LinksOK)'
  BY IndTypeStep, LinksStep
<1>3. IndType /\ LinksOK => MapsFollowLibrary
  <2> SUFFICES ASSUME IndType, LinksOK, NEW p \in Peers, NEW e \in socket[p]
               PROVE  /\ link[e] \in {"up", "gone"} => e \in mapped \/ ReportWaits(e)
                      /\ e \in mapped => link[e] \in {"connecting", "up"} \/ ReportWaits(e)
    BY DEF MapsFollowLibrary
  <2>1. e \in Ends /\ Held(e)
    BY EndsOfFacts DEF IndType, TypeOK, SocketTypeOK, Held
  <2>2. ReportWaits(e) <=> Waits(Queue(e), e)
    BY DEF ReportWaits, Waits, Queue
  <2>3. LinkOK(e) /\ link[e] \in LinkState
    BY <2>1 DEF LinksOK, IndType, TypeOK, LibraryTypeOK
  <2>. QED
    BY <2>1, <2>2, <2>3, GoneWaits DEF LinkOK, LinkState
<1>. QED
  BY <1>1, <1>2, <1>3, PTL DEF Spec

-------------------------------------------------------------------------------
(* That an end connects is the first that is reported of it, and it is not  *)
(* in the maps before: so the handle of such a report is new.               *)

Connects(s, e) == \E i \in DOMAIN s : s[i].end = e /\ s[i].state = "connecting"

ConnectsFirst(s, e) ==
    \A i \in DOMAIN s : s[i].end = e /\ s[i].state = "connecting" =>
        \A j \in DOMAIN s : s[j].end = e => i <= j

FirstOK(e) == ConnectsFirst(Queue(e), e) /\ (e \in mapped => ~Connects(Queue(e), e))

FirstsOK == \A e \in Ends : FirstOK(e)

LEMMA ConnectsAppend ==
    ASSUME NEW S, NEW s \in Seq(S), NEW x \in S, NEW e
    PROVE  /\ Connects(Append(s, x), e) <=> Connects(s, e) \/ (x.end = e /\ x.state = "connecting")
           /\ ConnectsFirst(s, e) /\ (x.end = e /\ x.state = "connecting" => ~Waits(s, e))
                  => ConnectsFirst(Append(s, x), e)
<1> DEFINE t == Append(s, x)
           n == Len(s) + 1
<1>1. /\ t \in Seq(S) /\ Len(t) = n /\ t[n] = x
      /\ \A i \in 1 .. Len(s) : t[i] = s[i]
  BY AppendProperties
<1>2. DOMAIN s = 1 .. Len(s) /\ Len(s) \in Nat /\ DOMAIN t = 1 .. n /\ n \in Nat
  BY <1>1, LenProperties
<1> HIDE DEF t
<1>3. /\ n \in DOMAIN t /\ n \notin DOMAIN s /\ DOMAIN t = DOMAIN s \cup {n}
      /\ \A i \in DOMAIN s : i \in DOMAIN t /\ t[i] = s[i] /\ i <= n
  BY <1>1, <1>2
<1> HIDE DEF n
<1>4. Connects(t, e) <=> Connects(s, e) \/ (x.end = e /\ x.state = "connecting")
  BY <1>1, <1>3 DEF Connects
<1>5. ASSUME ConnectsFirst(s, e), x.end = e /\ x.state = "connecting" => ~Waits(s, e)
      PROVE  ConnectsFirst(t, e)
  <2> SUFFICES ASSUME NEW i \in DOMAIN t, t[i].end = e, t[i].state = "connecting",
                      NEW j \in DOMAIN t, t[j].end = e
               PROVE  i <= j
    BY DEF ConnectsFirst
  <2>1. CASE i = n
    <3>1. j \notin DOMAIN s
      BY <1>1, <1>3, <1>5, <2>1 DEF Waits
    <3>. QED
      BY <1>2, <1>3, <2>1, <3>1
  <2>2. CASE i # n /\ j = n
    BY <1>3, <2>2
  <2>3. CASE i # n /\ j # n
    BY <1>3, <1>5, <2>3 DEF ConnectsFirst
  <2>. QED
    BY <2>1, <2>2, <2>3
<1>. QED
  BY <1>4, <1>5 DEF t

LEMMA ConnectsTail ==
    ASSUME NEW S, NEW s \in Seq(S), s # <<>>, NEW e
    PROVE  /\ Connects(Tail(s), e) => Connects(s, e)
           /\ ConnectsFirst(s, e) => ConnectsFirst(Tail(s), e)
           /\ Head(s).end = e /\ ConnectsFirst(s, e) => ~Connects(Tail(s), e)
           /\ Head(s).end = e /\ Head(s).state = "connecting" => Connects(s, e)
<1> DEFINE t == Tail(s)
<1>1. /\ t \in Seq(S) /\ Len(t) = Len(s) - 1
      /\ \A i \in 1 .. Len(t) : t[i] = s[i + 1]
      /\ Head(s) = s[1]
  BY HeadTailProperties
<1>2. /\ DOMAIN s = 1 .. Len(s) /\ Len(s) \in Nat /\ DOMAIN t = 1 .. Len(t) /\ Len(t) \in Nat
      /\ 1 \in DOMAIN s
  BY <1>1, LenProperties, EmptySeq
<1> HIDE DEF t
<1>3. \A i \in DOMAIN t : i \in Nat /\ i >= 1 /\ i + 1 \in DOMAIN s /\ s[i + 1] = t[i]
  BY <1>1, <1>2
<1>4. Connects(t, e) => Connects(s, e)
  BY <1>3 DEF Connects
<1>5. ASSUME ConnectsFirst(s, e) PROVE ConnectsFirst(t, e)
  <2> SUFFICES ASSUME NEW i \in DOMAIN t, t[i].end = e, t[i].state = "connecting",
                      NEW j \in DOMAIN t, t[j].end = e
               PROVE  i <= j
    BY DEF ConnectsFirst
  <2>1. i + 1 <= j + 1
    BY <1>3, <1>5 DEF ConnectsFirst
  <2>. QED
    BY <1>3, <2>1
<1>6. ASSUME Head(s).end = e, ConnectsFirst(s, e) PROVE ~Connects(t, e)
  <2> SUFFICES ASSUME NEW i \in DOMAIN t, t[i].end = e, t[i].state = "connecting" PROVE FALSE
    BY DEF Connects
  <2>1. i + 1 <= 1
    BY <1>1, <1>2, <1>3, <1>6 DEF ConnectsFirst
  <2>. QED
    BY <1>3, <2>1
<1>7. Head(s).end = e /\ Head(s).state = "connecting" => Connects(s, e)
  BY <1>1, <1>2 DEF Connects
<1>. QED
  BY <1>4, <1>5, <1>6, <1>7 DEF t

LEMMA FirstSame ==
    ASSUME NEW e \in Ends, FirstOK(e), Queue(e)' = Queue(e), e \in mapped' => e \in mapped
    PROVE  FirstOK(e)'
BY DEF FirstOK

LEMMA FirstsSame ==
    ASSUME FirstsOK, UNCHANGED reports, mapped' \subseteq mapped
    PROVE  FirstsOK'
BY FirstSame DEF FirstsOK, Queue

\* The library reports: that an end connects only when it has no state yet.
LEMMA ReportingFirst ==
    ASSUME TypeOK, LinksOK, FirstsOK, NEW e \in Ends, NEW state \in {"connecting", "up", "gone"},
           Reports(e, state), state = "connecting" => link[e] = "none", UNCHANGED mapped
    PROVE  FirstsOK'
<1>1. PICK o \in Peers : o = Owner(e) /\ e \in EndsOf(o)
  BY EndFacts
<1>2. PICK x \in Report(EndsOf(o)) : x = [end |-> e, state |-> state]
  BY <1>1 DEF Report
<1>3. PICK s \in Seq(Report(EndsOf(o))) : s = reports[o] /\ DOMAIN reports = Peers
  BY DEF TypeOK, LibraryTypeOK
<1>4. reports' = [reports EXCEPT ![o] = Append(s, x)]
  BY <1>1, <1>2, <1>3 DEF Reports
<1>5. ASSUME NEW d \in Ends PROVE FirstOK(d)'
  <2>1. FirstOK(d) /\ LinkOK(d) /\ Owner(d) \in Peers
    BY EndFacts DEF FirstsOK, LinksOK
  <2>2. CASE Owner(d) = o
    <3>1. Queue(d) = s /\ Queue(d)' = Append(s, x)
      BY <1>3, <1>4, <2>2 DEF Queue
    <3>2. x.end = d /\ x.state = "connecting" => ~Waits(s, d) /\ d \notin mapped
      BY <1>2, <2>1, <3>1 DEF LinkOK
    <3>3. /\ Connects(Append(s, x), d) <=> Connects(s, d) \/ (x.end = d /\ x.state = "connecting")
          /\ ConnectsFirst(s, d) => ConnectsFirst(Append(s, x), d)
      BY <3>2, ConnectsAppend
    <3>. QED
      BY <2>1, <3>1, <3>2, <3>3 DEF FirstOK
  <2>3. CASE Owner(d) # o
    <3>1. Queue(d)' = Queue(d)
      BY <1>3, <1>4, <2>1, <2>3 DEF Queue
    <3>. QED
      BY <2>1, <3>1, FirstSame
  <2>. QED
    BY <2>2, <2>3
<1>. QED
  BY <1>5 DEF FirstsOK

LEMMA LibraryFirst ==
    ASSUME TypeOK, LinksOK, FirstsOK, NEW e \in Ends, LibraryServes(e) \/ Library(Break(e))
    PROVE  FirstsOK'
<1>1. UNCHANGED mapped
  BY DEF LibraryServes, Library, backendVars
<1>2. CASE Library(Arrive(e))
  BY <1>1, <1>2, ReportingFirst DEF Library, Arrive
<1>3. CASE Library(Complete(e))
  BY <1>1, <1>3, ReportingFirst DEF Library, Complete
<1>4. CASE Library(Carry(e))
  BY <1>1, <1>4, FirstsSame DEF Library, Carry
<1>5. CASE Library(Notice(e)) \/ Library(Break(e))
  BY <1>1, <1>5, ReportingFirst DEF Library, Notice, Break, Lose
<1>. QED
  BY <1>2, <1>3, <1>4, <1>5 DEF LibraryServes, Library

LEMMA ConnectFirst ==
    ASSUME TypeOK, LinksOK, FirstsOK, NEW c \in Clients, Connect(c), dials[c] < MaxDials
    PROVE  FirstsOK'
<1>1. PICK e : e = <<<<c, dials[c] + 1>>, "dial">>
  OBVIOUS
<1>2. PICK news \in {<<>>, <<[end |-> e, state |-> "connecting"]>>} :
          reports' = [reports EXCEPT ![c] = news] /\ UNCHANGED mapped
  BY <1>1 DEF Connect
<1>3. c \in Peers /\ DOMAIN reports = Peers
  BY DEF TypeOK, LibraryTypeOK, Clients
<1>4. e \notin mapped
  <2>1. dials[c] \in 0 .. MaxDials /\ MaxDials \in Nat
    BY GnsAssumption DEF TypeOK, SocketTypeOK
  <2>2. dials[c] + 1 \in 1 .. MaxDials /\ dials[c] + 1 > dials[c]
    BY <2>1
  <2>3. e \in Ends /\ e[2] = "dial" /\ e[1][1] = c /\ e[1][2] = dials[c] + 1
    BY <1>1, <2>2 DEF Ends
  <2>. QED
    BY <2>2, <2>3 DEF LinksOK, LinkOK, FreshOK
<1>5. \A d : ConnectsFirst(news, d) /\ (Connects(news, d) => d = e)
  <2>1. CASE news = <<>>
    BY <2>1 DEF ConnectsFirst, Connects
  <2>2. CASE news = <<[end |-> e, state |-> "connecting"]>>
    <3>1. DOMAIN news = {1} /\ news[1].end = e
      BY <2>2
    <3>. QED
      BY <3>1 DEF ConnectsFirst, Connects
  <2>. QED
    BY <2>1, <2>2
<1>6. ASSUME NEW d \in Ends PROVE FirstOK(d)'
  <2>1. CASE Owner(d) = c
    <3>1. Queue(d)' = news
      BY <1>2, <1>3, <2>1 DEF Queue
    <3>. QED
      BY <1>2, <1>4, <1>5, <3>1 DEF FirstOK
  <2>2. CASE Owner(d) # c
    <3>1. Queue(d)' = Queue(d)
      BY <1>2, <1>3, <2>2, EndFacts DEF Queue
    <3>. QED
      BY <1>2, <3>1, FirstSame DEF FirstsOK
  <2>. QED
    BY <2>1, <2>2
<1>. QED
  BY <1>6 DEF FirstsOK

LEMMA StopFirst ==
    ASSUME TypeOK, FirstsOK, NEW p \in Peers, Stop(p)
    PROVE  FirstsOK'
<1>1. /\ reports' = [reports EXCEPT ![p] = <<>>] /\ mapped' \subseteq mapped /\ DOMAIN reports = Peers
  BY DEF Stop, TypeOK, LibraryTypeOK
<1>2. ASSUME NEW d \in Ends PROVE FirstOK(d)'
  <2>1. CASE Owner(d) = p
    <3>1. Queue(d)' = <<>>
      BY <1>1, <2>1 DEF Queue
    <3>. QED
      BY <3>1 DEF FirstOK, ConnectsFirst, Connects
  <2>2. CASE Owner(d) # p
    <3>1. Queue(d)' = Queue(d)
      BY <1>1, <2>2, EndFacts DEF Queue
    <3>. QED
      BY <1>1, <3>1, FirstSame DEF FirstsOK
  <2>. QED
    BY <2>1, <2>2
<1>. QED
  BY <1>2 DEF FirstsOK

\* The head of the reports is handled: what follows of its end is not that it connects.
LEMMA HandledFirst ==
    ASSUME TypeOK, LinksOK, FirstsOK, NEW p \in Peers, HandleEvent(p)
    PROVE  FirstsOK'
<1>1. PICK e : e = Head(reports[p]).end
  OBVIOUS
<1>2. PICK state : HandlesReport(p, state)
  BY DEF HandleEvent, HandleConnecting, HandleConnected, HandleEnded
<1>3. PICK s \in Seq(Report(EndsOf(p))) : /\ s = reports[p] /\ s # <<>> /\ Head(s).end = e
                                          /\ DOMAIN reports = Peers /\ e \in EndsOf(p)
  BY <1>1, <1>2, HeadReport
<1>4. PICK t : t = Tail(s) /\ t \in Seq(Report(EndsOf(p)))
  BY <1>3, HeadTailProperties
<1>5. PICK x \in Report(EndsOf(p)) : x = [end |-> e, state |-> "up"]
  BY <1>3 DEF Report
<1>6. /\ mapped' \subseteq mapped \cup {e}
      /\ \E u \in {t, Append(t, x)} : reports' = [reports EXCEPT ![p] = u]
  BY <1>1, <1>3, <1>4, <1>5
  DEF HandleEvent, HandleConnecting, HandleConnected, HandleEnded, Registers, RegistersIfNew,
      Forgets, ReportDone
<1>7. PICK u \in {t, Append(t, x)} : reports' = [reports EXCEPT ![p] = u]
  BY <1>6
<1>8. ASSUME NEW d \in Ends PROVE FirstOK(d)'
  <2>1. FirstOK(d)
    BY DEF FirstsOK
  <2>2. CASE Owner(d) = p
    <3>1. Queue(d) = s /\ Queue(d)' = u
      BY <1>3, <1>7, <2>2 DEF Queue
    <3>2. /\ ConnectsFirst(t, d) /\ (Connects(t, d) => Connects(s, d)) /\ (d = e => ~Connects(t, d))
      BY <1>3, <1>4, <2>1, <3>1, ConnectsTail DEF FirstOK
    <3>3. ConnectsFirst(Append(t, x), d) /\ (Connects(Append(t, x), d) <=> Connects(t, d))
      BY <1>4, <1>5, <3>2, ConnectsAppend
    <3>. QED
      BY <1>6, <2>1, <3>1, <3>2, <3>3 DEF FirstOK
  <2>3. CASE Owner(d) # p
    <3>1. Queue(d)' = Queue(d) /\ d # e
      BY <1>3, <1>7, <2>3, EndFacts, EndsOfFacts DEF Queue
    <3>. QED
      BY <1>6, <2>1, <3>1, FirstSame
  <2>. QED
    BY <2>2, <2>3
<1>. QED
  BY <1>8 DEF FirstsOK

\* An end that is reported to connect is not in the maps.
LEMMA HeadFirst ==
    ASSUME TypeOK, FirstsOK, NEW p \in Peers, HandlesReport(p, "connecting"),
           NEW e, e = Head(reports[p]).end
    PROVE  e \notin mapped
<1>1. /\ reports[p] \in Seq(Report(EndsOf(p))) /\ reports[p] # <<>> /\ e \in Ends
      /\ Owner(e) = p /\ Head(reports[p]).state = "connecting"
  BY HeadReport
<1>2. Connects(reports[p], e)
  BY <1>1, ConnectsTail
<1>. QED
  BY <1>1, <1>2 DEF FirstsOK, FirstOK, Queue

LEMMA FirstsInit ==
    ASSUME Init
    PROVE  FirstsOK
<1>1. ASSUME NEW e \in Ends PROVE Queue(e) = <<>>
  BY EndFacts DEF Init, Queue
<1>. QED
  BY <1>1 DEF FirstsOK, FirstOK, ConnectsFirst, Connects

LEMMA FirstsStep ==
    ASSUME IndType, LinksOK, FirstsOK, [Next]_vars
    PROVE  FirstsOK'
<1>1. TypeOK /\ DialsOK
  BY DEF IndType
<1>2. ASSUME NEW p \in Peers, AppCall(p) \/ AppWaits(p) PROVE FirstsOK'
  BY <1>2, FirstsSame DEF AppCall, AppWaits, backendVars, libraryVars
<1>3. ASSUME NEW p \in Peers, HandleCommand(p) PROVE FirstsOK'
  <2>1. CASE p \in Clients /\ Connect(p)
    <3>1. dials[p] < MaxDials
      BY <1>1, <2>1, TakenDials DEF Connect
    <3>. QED
      BY <1>1, <2>1, <3>1, ConnectFirst
  <2>2. CASE (p = Server /\ Bind) \/ ConnectFails(p)
    BY <2>2, FirstsSame DEF Bind, ConnectFails, libraryVars
  <2>3. CASE SendDropped(p) \/ SendTaken(p) \/ AnswerStream(p)
    BY <2>3, FirstsSame DEF SendDropped, SendTaken, AnswerStream, backendVars, libraryVars
  <2>4. CASE BackendShutdown(p) \/ (p = Server /\ BindFails)
    BY <1>1, <2>4, StopFirst DEF BackendShutdown, BindFails
  <2>. QED
    BY <1>3, <2>1, <2>2, <2>3, <2>4 DEF HandleCommand
<1>4. ASSUME NEW p \in Peers, PollReports(p) \/ PollMessages(p) \/ HandleMessage(p) PROVE FirstsOK'
  BY <1>4, FirstsSame DEF PollReports, PollMessages, HandleMessage, backendVars, libraryVars
<1>5. ASSUME NEW e \in Ends, NEW stream \in KnownStreams(Owner(e), e), AppSend(e, stream)
      PROVE  FirstsOK'
  BY <1>5, FirstsSame DEF AppSend, backendVars, libraryVars
<1>6. ASSUME NEW m \in loose, Library(CarryLoose(m)) PROVE FirstsOK'
  BY <1>6, FirstsSame DEF Library, CarryLoose, backendVars
<1>7. CASE UNCHANGED vars
  BY <1>7, FirstsSame DEF vars, backendVars, libraryVars
<1>. QED
  BY <1>1, <1>2, <1>3, <1>4, <1>5, <1>6, <1>7, HandledFirst, LibraryFirst DEF Next, BackendStep

-------------------------------------------------------------------------------
(* What the applications hear.  An end is in the maps from the one event   *)
(* that opens it to the one that ends it, and those it was heard of are in *)
(* the maps or closed; commands are of ends that were heard of.            *)

Heard(p, e) == \E y \in Told(p) : Concerns(y, e)

EndOK(e) ==
    /\ Heard(Owner(e), e) => e \in mapped \/ link[e] = "closed"
    /\ e \in mapped => Heard(Owner(e), e) /\ Disconnected(e) \notin Told(Owner(e))
    /\ \A s \in known_streams[e] : StreamCreated(e, s) \in Told(Owner(e))

OfConnection == {"Send", "CreateStream", "CloseStream"}

CallOK(p, cmd) == cmd.type \in OfConnection => Heard(p, cmd.conn)

EndsOK == \A e \in Ends : EndOK(e)

CallsOK == \A p \in Peers : \A cmd \in Queued(p) : CallOK(p, cmd)

OrderOK == \A p \in Peers : Ordered(events[p])

NewsOK == EndsOK /\ CallsOK /\ OrderOK

LEMMA HeardMore ==
    ASSUME NEW p, NEW e, Heard(p, e), Told(p) \subseteq Told(p)'
    PROVE  Heard(p, e)'
BY DEF Heard, Concerns

\* No command is new, and what was told stays told.
LEMMA CallsFrame ==
    ASSUME CallsOK, \A q \in Peers : Queued(q)' \subseteq Queued(q) /\ Told(q) \subseteq Told(q)'
    PROVE  CallsOK'
<1> SUFFICES ASSUME NEW q \in Peers, NEW cmd \in Queued(q)', cmd.type \in OfConnection
             PROVE  Heard(q, cmd.conn)'
  BY DEF CallsOK, CallOK
<1>1. cmd \in Queued(q) /\ Told(q) \subseteq Told(q)'
  OBVIOUS
<1>2. Heard(q, cmd.conn)
  BY <1>1 DEF CallsOK, CallOK
<1>3. PICK conn : conn = cmd.conn
  OBVIOUS
<1>4. Heard(q, conn)'
  BY <1>1, <1>2, <1>3, HeardMore
<1>. QED
  BY <1>3, <1>4

\* Nothing is told.
LEMMA QuietNews ==
    ASSUME NewsOK, \A q \in Peers : events'[q] = events[q] /\ Queued(q)' \subseteq Queued(q),
           mapped' \subseteq mapped,
           \A d \in Ends : /\ d \in mapped /\ d \notin mapped' => link'[d] = "closed"
                           /\ link[d] = "closed" => link'[d] = "closed"
                           /\ known_streams'[d] \subseteq known_streams[d]
    PROVE  NewsOK'
<1>1. \A q \in Peers : Told(q)' = Told(q)
  BY DEF Told
<1>2. CallsOK'
  BY <1>1, CallsFrame DEF NewsOK
<1>3. ASSUME NEW d \in Ends
      PROVE  EndOK(d)'
  <2>1. EndOK(d) /\ Owner(d) \in Peers /\ Told(Owner(d))' = Told(Owner(d))
    BY <1>1, EndFacts DEF NewsOK, EndsOK
  <2>2. Heard(Owner(d), d)' <=> Heard(Owner(d), d)
    BY <2>1 DEF Heard, Concerns
  <2>. QED
    BY <2>1, <2>2 DEF EndOK
<1>4. ASSUME NEW q \in Peers
      PROVE  Ordered(events[q])'
  <2>1. Ordered(events'[q])
    BY DEF NewsOK, OrderOK
  <2>. QED
    BY <2>1 DEF Ordered, Earlier
<1>. QED
  BY <1>2, <1>3, <1>4 DEF NewsOK, EndsOK, OrderOK

LEMMA SameNews ==
    ASSUME NewsOK, UNCHANGED <<events, mapped, known_streams>>,
           \A q \in Peers : Queued(q)' \subseteq Queued(q),
           \A d \in Ends : link[d] = "closed" => link'[d] = "closed"
    PROVE  NewsOK'
BY QuietNews

\* A call of the application: one command more.
LEMMA CallNews ==
    ASSUME TypeOK, NewsOK, NEW p \in Peers, NEW cmd \in Commands[p], SendCommand(p, cmd),
           CallOK(p, cmd), UNCHANGED <<events, mapped, known_streams, link>>
    PROVE  NewsOK'
<1>1. Queued(p)' = Queued(p) \cup {cmd} /\ \A q \in Peers \ {p} : cmds'[q] = cmds[q]
  BY SendCommandQueued DEF TypeOK, PeerTypeOK
<1>2. \A q \in Peers : Told(q)' = Told(q)
  BY DEF Told
<1>3. ASSUME NEW q \in Peers, NEW c \in Queued(q)', c.type \in OfConnection
      PROVE  Heard(q, c.conn)'
  <2>1. Heard(q, c.conn)
    <3>1. CASE q = p
      BY <1>1, <1>3, <3>1 DEF NewsOK, CallsOK, CallOK
    <3>2. CASE q # p
      BY <1>1, <1>3, <3>2 DEF NewsOK, CallsOK, CallOK, Queued
    <3>. QED
      BY <3>1, <3>2
  <2>2. PICK conn : conn = c.conn
    OBVIOUS
  <2>3. Heard(q, conn)'
    BY <1>2, <2>1, <2>2, HeardMore
  <2>. QED
    BY <2>2, <2>3
<1>4. CallsOK'
  BY <1>3 DEF CallsOK, CallOK
<1>5. EndsOK'
  BY DEF NewsOK, EndsOK, EndOK, Heard, Told, Concerns
<1>6. OrderOK'
  BY DEF NewsOK, OrderOK, Ordered, Earlier
<1>. QED
  BY <1>4, <1>5, <1>6 DEF NewsOK

\* The owner of e is told N, which is of e.
LEMMA TellNews ==
    ASSUME TypeOK, NewsOK, NEW e \in Ends, NEW N,
           Ordered(events'[Owner(e)]), Told(Owner(e))' = Told(Owner(e)) \cup N,
           \A y \in N : "conn" \in DOMAIN y /\ y.conn = e,
           \A q \in Peers \ {Owner(e)} : events'[q] = events[q],
           \A q \in Peers : Queued(q)' \subseteq Queued(q),
           \A d \in Ends \ {e} : /\ d \in mapped' <=> d \in mapped
                                 /\ link[d] = "closed" => link'[d] = "closed"
                                 /\ known_streams'[d] = known_streams[d],
           EndOK(e)'
    PROVE  NewsOK'
<1>1. \A q \in Peers : Told(q) \subseteq Told(q)'
  BY DEF Told
<1>2. CallsOK'
  BY <1>1, CallsFrame DEF NewsOK
<1>3. ASSUME NEW d \in Ends \ {e}
      PROVE  EndOK(d)'
  <2>1. EndOK(d) /\ Owner(d) \in Peers /\ Told(Owner(d)) \subseteq Told(Owner(d))'
    BY <1>1, EndFacts DEF NewsOK, EndsOK
  <2>2. Heard(Owner(d), d)' <=> Heard(Owner(d), d)
    <3>1. CASE Owner(d) = Owner(e)
      BY <1>3, <3>1 DEF Heard, Concerns
    <3>2. CASE Owner(d) # Owner(e)
      BY <2>1, <3>2 DEF Heard, Told, Concerns
    <3>. QED
      BY <3>1, <3>2
  <2>3. Disconnected(d) \in Told(Owner(d))' => Disconnected(d) \in Told(Owner(d))
    <3>1. CASE Owner(d) = Owner(e)
      BY <1>3, <3>1 DEF Disconnected
    <3>2. CASE Owner(d) # Owner(e)
      BY <2>1, <3>2 DEF Told
    <3>. QED
      BY <3>1, <3>2
  <2>. QED
    BY <1>3, <2>1, <2>2, <2>3 DEF EndOK
<1>4. ASSUME NEW q \in Peers
      PROVE  Ordered(events[q])'
  <2>1. Ordered(events'[q])
    BY DEF NewsOK, OrderOK
  <2>. QED
    BY <2>1 DEF Ordered, Earlier
<1>. QED
  BY <1>2, <1>3, <1>4 DEF NewsOK, EndsOK, OrderOK

LEMMA AppCallNews ==
    ASSUME TypeOK, NewsOK, NEW p \in Peers, AppCall(p)
    PROVE  NewsOK'
<1>1. UNCHANGED <<mapped, known_streams, link>>
  BY DEF AppCall, backendVars, libraryVars
<1>2. /\ EventsTypeOK(Events) /\ Events[p] = Event(EndsOf(p), Packet)
      /\ Commands[p] = Command(EndsOf(p), Packet)
  BY DEF TypeOK, PeerTypeOK, Events, Commands
<1>3. BindCmd \in Commands[p] /\ ConnectCmd \in Commands[p] /\ ShutdownCmd \in Commands[p]
  BY <1>2, CommandMembers
<1>4. CallOK(p, BindCmd) /\ CallOK(p, ConnectCmd) /\ CallOK(p, ShutdownCmd)
  BY DEF CallOK, OfConnection, BindCmd, ConnectCmd, ShutdownCmd
<1>5. CASE Listen(p) \/ Dial(p) \/ Shutdown(p)
  <2>1. UNCHANGED events
    BY <1>5 DEF Listen, Dial, Shutdown
  <2>2. CASE Listen(p)
    BY <1>1, <1>3, <1>4, <2>1, <2>2, CallNews DEF Listen
  <2>3. CASE Dial(p)
    BY <1>1, <1>3, <1>4, <2>1, <2>3, CallNews DEF Dial
  <2>4. CASE Shutdown(p)
    BY <1>1, <1>3, <1>4, <2>1, <2>4, CallNews DEF Shutdown
  <2>. QED
    BY <1>5, <2>2, <2>3, <2>4
<1>6. ASSUME NEW e \in EndsOf(p), NEW r \in Kinds, CreateStream(p, e, r)
      PROVE  NewsOK'
  <2>1. PICK cmd \in Commands[p] : /\ cmd = CreateStreamCmd(e, next_stream_id'[p], r)
                                   /\ SendCommand(p, cmd) \/ UNCHANGED cmds
    BY <1>6, CreateStreamType, GnsAssumption
  <2>2. KnowsConnection(p, e) /\ UNCHANGED events
    BY <1>6 DEF CreateStream
  <2>3. CASE UNCHANGED cmds
    BY <1>1, <2>2, <2>3, SameNews DEF Queued
  <2>4. Connected(e) \in Told(p)
    BY <1>2, <2>2, KnownIsTold
  <2>5. Heard(p, e)
    BY <2>4 DEF Heard, Concerns, Connected
  <2>6. CallOK(p, cmd)
    BY <2>1, <2>5 DEF CallOK, CreateStreamCmd
  <2>. QED
    BY <1>1, <2>1, <2>2, <2>3, <2>6, CallNews
<1>7. ASSUME NEW e \in EndsOf(p), NEW stream \in KnownStreams(p, e), CloseStream(p, e, stream)
      PROVE  NewsOK'
  <2>1. stream \in StreamId /\ Heard(p, e)
    BY <1>2, <1>7, KnownIsTold DEF Heard
  <2>2. CloseStreamCmd(e, stream) \in Commands[p]
    BY <1>2, <2>1, CommandMembers
  <2>3. CallOK(p, CloseStreamCmd(e, stream))
    BY <2>1 DEF CallOK, CloseStreamCmd
  <2>4. SendCommand(p, CloseStreamCmd(e, stream)) /\ UNCHANGED events
    BY <1>7 DEF CloseStream
  <2>. QED
    BY <1>1, <2>2, <2>3, <2>4, CallNews
<1>. QED
  BY <1>5, <1>6, <1>7 DEF AppCall

LEMMA AppSendNews ==
    ASSUME TypeOK, NewsOK, NEW e \in Ends, NEW stream \in KnownStreams(Owner(e), e),
           AppSend(e, stream)
    PROVE  NewsOK'
<1>1. PICK p \in Peers : p = Owner(e) /\ e \in EndsOf(p)
  BY EndFacts
<1>2. PICK packet : packet = [stream |-> stream, n |-> sent[e] + 1]
  OBVIOUS
<1>3. SendCommand(p, SendCmd(e, packet)) /\ UNCHANGED <<events, mapped, known_streams, link>>
  BY <1>1, <1>2 DEF AppSend, Send, backendVars, libraryVars
<1>4. packet \in Packet
  BY <1>2, AppSendParts
<1>5. Heard(p, e)
  BY <1>1, KnownIsTold DEF Heard, TypeOK, PeerTypeOK, Events
<1>6. SendCmd(e, packet) \in Commands[p]
  BY <1>1, <1>4, CommandMembers DEF Commands
<1>7. CallOK(p, SendCmd(e, packet))
  BY <1>5 DEF CallOK, SendCmd
<1>. QED
  BY <1>3, <1>6, <1>7, CallNews

\* The commands of which the application hears nothing.
LEMMA QuietCommandNews ==
    ASSUME TypeOK, LinksOK, NewsOK, NEW p \in Peers, NEW type, HandlesQuietly(p, type),
           UNCHANGED <<events, mapped, known_streams>>,
           \A d \in Ends : link[d] = "closed" => link'[d] = "closed"
    PROVE  NewsOK'
<1>1. \A q \in Peers : Queued(q)' \subseteq Queued(q)
  BY QuietType DEF Queued
<1>. QED
  BY <1>1, SameNews

LEMMA ConnectNews ==
    ASSUME TypeOK, LinksOK, NewsOK, NEW c \in Clients, Connect(c), dials[c] < MaxDials
    PROVE  NewsOK'
<1>1. PICK e : e = <<<<c, dials[c] + 1>>, "dial">>
  OBVIOUS
<1>2. /\ HandlesQuietly(c, "Connect") /\ UNCHANGED <<events, mapped, known_streams>>
      /\ \A d \in Ends : link'[d] = IF d = e THEN "connecting"
                                  ELSE IF d \in socket[c] THEN "closed" ELSE link[d]
  BY <1>1 DEF Connect
<1>3. e \in Ends /\ link[e] = "none"
  <2>1. dials[c] \in 0 .. MaxDials /\ MaxDials \in Nat
    BY GnsAssumption DEF TypeOK, SocketTypeOK
  <2>2. dials[c] + 1 \in 1 .. MaxDials /\ dials[c] + 1 > dials[c]
    BY <2>1
  <2>3. e \in Ends /\ e[2] = "dial" /\ e[1][1] = c /\ e[1][2] = dials[c] + 1
    BY <1>1, <2>2 DEF Ends
  <2>. QED
    BY <2>2, <2>3 DEF LinksOK, FreshOK
<1>4. c \in Peers /\ \A d \in Ends : link[d] = "closed" => link'[d] = "closed"
  BY <1>2, <1>3 DEF Clients
<1>. QED
  BY <1>2, <1>4, QuietCommandNews

LEMMA AnswerStreamNews ==
    ASSUME TypeOK, LinksOK, NewsOK, NEW p \in Peers, AnswerStream(p)
    PROVE  NewsOK'
<1>1. PICK cmd : cmd = Head(cmds[p])
  OBVIOUS
<1>2. UNCHANGED <<mapped, known_streams, link>>
  BY DEF AnswerStream, backendVars, libraryVars
<1>3. PICK type, y :
          /\ type \in {"CreateStream", "CloseStream"}
          /\ HandlesQuietly(p, type) /\ Emit(p, <<y>>)
          /\ \/ /\ type = "CreateStream"
                /\ y = StreamCreated(cmd.conn, NewStream(cmd.index, cmd.reliability))
             \/ type = "CloseStream" /\ y = StreamClosed(cmd.conn, cmd.stream)
  BY <1>1 DEF AnswerStream
<1>4. cmd \in Commands[p] /\ cmd \in Queued(p) /\ cmd.type = type
      /\ \A q \in Peers : Queued(q)' \subseteq Queued(q)
  BY <1>1, <1>3, QuietType DEF Queued
<1>5. Commands[p] = Command(EndsOf(p), Packet) /\ Events[p] = Event(EndsOf(p), Packet)
  BY DEF Commands, Events
<1>6. PICK e : e = cmd.conn
  OBVIOUS
<1>7. e \in EndsOf(p)
  BY <1>3, <1>4, <1>5, <1>6, PartsOfCommand
<1>8. e \in Ends /\ Owner(e) = p
  BY <1>7, EndsOfFacts
<1>9. /\ y \in Events[p] /\ "conn" \in DOMAIN y /\ y.conn = e
      /\ y.type \in {"StreamCreated", "StreamClosed"}
      /\ y # Connected(e)
  <2>1. CASE type = "CreateStream"
    <3>1. NewStream(cmd.index, cmd.reliability) \in StreamId
      BY <1>4, <1>5, <2>1, PartsOfCommand, NewHandle
    <3>. QED
      BY <1>3, <1>5, <1>6, <1>7, <2>1, <3>1, EventMembers DEF StreamCreated, Connected
  <2>2. CASE type = "CloseStream"
    <3>1. cmd.stream \in StreamId
      BY <1>4, <1>5, <2>2, PartsOfCommand
    <3>. QED
      BY <1>3, <1>5, <1>6, <1>7, <2>2, <3>1, EventMembers DEF StreamClosed, Connected
  <2>. QED
    BY <1>3, <2>1, <2>2
<1>10. Heard(p, e)
  BY <1>3, <1>4, <1>6 DEF NewsOK, CallsOK, CallOK, OfConnection
<1>11. Fits(y, Told(p))
  BY <1>9, <1>10 DEF Fits, Heard
<1>12. /\ Ordered(events'[p]) /\ Told(p)' = Told(p) \cup {y}
       /\ \A q \in Peers \ {p} : events'[q] = events[q]
  <2>1. EventsTypeOK(Events) /\ Ordered(events[p])
    BY DEF TypeOK, PeerTypeOK, NewsOK, OrderOK
  <2>. QED
    BY <1>3, <1>9, <1>11, <2>1, EmitOneOrdered
<1>13. EndOK(e)'
  <2>1. EndOK(e) /\ Disconnected(e) # y
    BY <1>8, <1>9 DEF NewsOK, EndsOK, Disconnected
  <2>2. Heard(p, e)'
    BY <1>10, <1>12, HeardMore
  <2>. QED
    BY <1>2, <1>8, <1>10, <1>12, <2>1, <2>2 DEF EndOK
<1>14. PICK N : N = {y}
  OBVIOUS
<1>15. \A z \in N : "conn" \in DOMAIN z /\ z.conn = e
  BY <1>9, <1>14
<1>16. /\ Ordered(events'[Owner(e)]) /\ Told(Owner(e))' = Told(Owner(e)) \cup N
       /\ \A q \in Peers \ {Owner(e)} : events'[q] = events[q]
  BY <1>8, <1>12, <1>14
<1>17. \A d \in Ends \ {e} : /\ d \in mapped' <=> d \in mapped
                             /\ link[d] = "closed" => link'[d] = "closed"
                             /\ known_streams'[d] = known_streams[d]
  BY <1>2
<1>. QED
  BY <1>4, <1>8, <1>13, <1>15, <1>16, <1>17, TellNews

LEMMA StopNews ==
    ASSUME TypeOK, LinksOK, NewsOK, NEW p \in Peers, Stop(p)
    PROVE  NewsOK'
<1>1. /\ ThreadExits(p) /\ mapped' = mapped \ EndsOf(p) /\ UNCHANGED events
      /\ known_streams' = [e \in Ends |-> IF Owner(e) = p THEN {} ELSE known_streams[e]]
      /\ link' = [e \in Ends |-> IF e \in {d \in socket[p] : link[d] # "none"}
                              THEN "closed" ELSE link[e]]
  BY DEF Stop, CloseEnds
<1>2. \A q \in Peers : Queued(q)' \subseteq Queued(q)
  <2>1. cmds' = [cmds EXCEPT ![p] = <<>>] /\ DOMAIN cmds = Peers
    BY <1>1 DEF ThreadExits, TypeOK, PeerTypeOK, CommandsTypeOK
  <2>2. cmds'[p] = <<>> /\ \A q \in Peers \ {p} : cmds'[q] = cmds[q]
    BY <2>1
  <2>3. Queued(p)' = {}
    BY <2>2, EmptySeq DEF Queued, Elems
  <2>. QED
    BY <2>2, <2>3 DEF Queued
<1>3. ASSUME NEW d \in Ends
      PROVE  /\ d \in mapped /\ d \notin mapped' => link'[d] = "closed"
             /\ link[d] = "closed" => link'[d] = "closed"
             /\ known_streams'[d] \subseteq known_streams[d]
  <2>1. d \in mapped /\ d \notin mapped' => link'[d] = "closed"
    <3>1. SUFFICES ASSUME d \in mapped, d \notin mapped', link[d] # "closed"
                   PROVE  link'[d] = "closed"
      BY <1>1
    <3>2. Owner(d) = p
      BY <1>1, <3>1, EndsOfFacts
    <3>3. d \in socket[p] /\ link[d] # "none"
      BY <3>1, <3>2 DEF LinksOK, LinkOK, Held
    <3>. QED
      BY <1>1, <3>3
  <2>. QED
    BY <1>1, <2>1
<1>. QED
  BY <1>1, <1>2, <1>3, QuietNews

\* A report is handled: no command is.
LEMMA ReportQueued ==
    ASSUME TypeOK, NEW p \in Peers, NEW state, HandlesReport(p, state)
    PROVE  \A q \in Peers : Queued(q)' \subseteq Queued(q)
BY HeadReport DEF Queued

\* An end that is not in the maps gets into them, and is heard of with that.
LEMMA RegistersNews ==
    ASSUME TypeOK, LinksOK, NewsOK, NEW p \in Peers, NEW state, HandlesReport(p, state),
           NEW e, e = Head(reports[p]).end, RegistersIfNew(p, e),
           \A d \in Ends : link[d] = "closed" => link'[d] = "closed"
    PROVE  NewsOK'
<1>1. /\ e \in Ends /\ Owner(e) = p /\ e \in EndsOf(p) /\ link[e] \in {"connecting", "up", "gone"}
      /\ \A q \in Peers : Queued(q)' \subseteq Queued(q)
  BY HeadLink, ReportQueued
<1>2. EventsTypeOK(Events) /\ Ordered(events[p]) /\ Events[p] = Event(EndsOf(p), Packet) /\ EndOK(e)
  BY <1>1 DEF TypeOK, PeerTypeOK, NewsOK, OrderOK, EndsOK, Events
<1>3. mapped' = mapped \cup {e} /\ UNCHANGED known_streams
  BY DEF RegistersIfNew
<1>4. CASE e \in mapped
  <2>1. Emit(p, <<>>)
    BY <1>4 DEF RegistersIfNew
  <2>2. \A q \in Peers : events'[q] = events[q]
    BY <1>2, <2>1, EmitNone
  <2>3. mapped' \subseteq mapped /\ \A d \in Ends : d \in mapped => d \in mapped'
    BY <1>3, <1>4
  <2>. QED
    BY <1>1, <1>3, <2>2, <2>3, QuietNews
<1>5. CASE e \notin mapped
  <2>1. PICK y \in Events[p] : y = Connected(e)
    BY <1>1, <1>2, EventMembers
  <2>2. "conn" \in DOMAIN y /\ y.conn = e /\ y.type = "Connected" /\ Emit(p, <<y>>)
    BY <1>5, <2>1 DEF Connected, RegistersIfNew
  <2>3. ~Heard(p, e)
    BY <1>1, <1>2, <1>5 DEF EndOK
  <2>4. Fits(y, Told(p))
    BY <2>1, <2>2, <2>3 DEF Fits, Heard
  <2>5. /\ Ordered(events'[p]) /\ Told(p)' = Told(p) \cup {y}
        /\ \A q \in Peers \ {p} : events'[q] = events[q]
    BY <1>2, <2>2, <2>4, EmitOneOrdered
  <2>6. PICK N : N = {y}
    OBVIOUS
  <2>7. \A z \in N : "conn" \in DOMAIN z /\ z.conn = e
    BY <2>2, <2>6
  <2>8. /\ Ordered(events'[Owner(e)]) /\ Told(Owner(e))' = Told(Owner(e)) \cup N
        /\ \A q \in Peers \ {Owner(e)} : events'[q] = events[q]
    BY <1>1, <2>5, <2>6
  <2>9. EndOK(e)'
    <3>1. Heard(p, e)'
      BY <2>2, <2>5 DEF Heard, Concerns
    <3>2. Disconnected(e) \notin Told(p)'
      <4>1. Disconnected(e) # y /\ Concerns(Disconnected(e), e)
        BY <2>2 DEF Disconnected, Concerns
      <4>. QED
        BY <2>3, <2>5, <4>1 DEF Heard
    <3>. QED
      BY <1>1, <1>2, <1>3, <2>5, <3>1, <3>2 DEF EndOK
  <2>10. \A d \in Ends \ {e} : /\ d \in mapped' <=> d \in mapped
                               /\ link[d] = "closed" => link'[d] = "closed"
                               /\ known_streams'[d] = known_streams[d]
    BY <1>3
  <2>. QED
    BY <1>1, <2>7, <2>8, <2>9, <2>10, TellNews
<1>. QED
  BY <1>4, <1>5

LEMMA HandleConnectingNews ==
    ASSUME TypeOK, LinksOK, FirstsOK, NewsOK, NEW p \in Peers, HandleConnecting(p)
    PROVE  NewsOK'
<1>1. PICK e : e = Head(reports[p]).end
  OBVIOUS
<1>2. HandlesReport(p, "connecting") /\ \A q \in Peers : Queued(q)' \subseteq Queued(q)
  BY ReportQueued DEF HandleConnecting
<1>3. CASE Registers(p, e)
  <2>1. UNCHANGED link \/ (link[e] = "connecting" /\ link' = [link EXCEPT ![e] = "up"])
    BY <1>1 DEF HandleConnecting
  <2>2. link \in [Ends -> LinkState]
    BY DEF TypeOK, LibraryTypeOK
  <2>3. \A d \in Ends : link[d] = "closed" => link'[d] = "closed"
    BY <2>1, <2>2
  <2>4. RegistersIfNew(p, e)
    <3>1. e \notin mapped
      BY <1>1, <1>2, HeadFirst
    <3>. QED
      BY <1>3, <3>1 DEF Registers, RegistersIfNew
  <2>. QED
    BY <1>1, <1>2, <2>3, <2>4, RegistersNews
<1>4. CASE UNCHANGED <<events, mapped, known_streams, link>>
  BY <1>2, <1>4, SameNews
<1>. QED
  BY <1>1, <1>3, <1>4 DEF HandleConnecting

LEMMA HandleEndedNews ==
    ASSUME TypeOK, LinksOK, NewsOK, NEW p \in Peers, HandleEnded(p)
    PROVE  NewsOK'
<1>1. PICK e : e = Head(reports[p]).end
  OBVIOUS
<1>2. /\ HandlesReport(p, "gone") /\ CloseEnds(p, {e})
      /\ IF e \in mapped THEN Forgets(p, e) ELSE UNCHANGED <<events, mapped, known_streams>>
  BY <1>1 DEF HandleEnded
<1>3. /\ e \in Ends /\ Owner(e) = p /\ e \in EndsOf(p)
      /\ \A q \in Peers : Queued(q)' \subseteq Queued(q)
  BY <1>1, <1>2, HeadLink, ReportQueued
<1>4. EventsTypeOK(Events) /\ Ordered(events[p]) /\ Events[p] = Event(EndsOf(p), Packet) /\ EndOK(e)
  BY <1>3 DEF TypeOK, PeerTypeOK, NewsOK, OrderOK, EndsOK, Events
<1>5. link'[e] = "closed" /\ \A d \in Ends : link[d] = "closed" => link'[d] = "closed"
  BY <1>2, <1>3 DEF CloseEnds
<1>6. CASE e \notin mapped
  BY <1>2, <1>3, <1>5, <1>6, SameNews
<1>7. CASE e \in mapped
  <2>1. /\ mapped' = mapped \ {e} /\ known_streams' = [known_streams EXCEPT ![e] = {}]
        /\ Emit(p, <<Disconnected(e)>>) /\ known_streams \in [Ends -> SUBSET StreamId]
    BY <1>2, <1>7 DEF Forgets, TypeOK, SocketTypeOK
  <2>2. PICK y \in Events[p] : y = Disconnected(e)
    BY <1>3, <1>4, EventMembers
  <2>3. /\ "conn" \in DOMAIN y /\ y.conn = e /\ y.type = "Disconnected" /\ Emit(p, <<y>>)
        /\ y # Connected(e)
    BY <2>1, <2>2 DEF Disconnected, Connected
  <2>4. Heard(p, e) /\ Disconnected(e) \notin Told(p)
    BY <1>3, <1>4, <1>7 DEF EndOK
  <2>5. Fits(y, Told(p))
    BY <2>3, <2>4 DEF Fits, Heard
  <2>6. /\ Ordered(events'[p]) /\ Told(p)' = Told(p) \cup {y}
        /\ \A q \in Peers \ {p} : events'[q] = events[q]
    BY <1>4, <2>3, <2>5, EmitOneOrdered
  <2>7. PICK N : N = {y}
    OBVIOUS
  <2>8. \A z \in N : "conn" \in DOMAIN z /\ z.conn = e
    BY <2>3, <2>7
  <2>9. /\ Ordered(events'[Owner(e)]) /\ Told(Owner(e))' = Told(Owner(e)) \cup N
        /\ \A q \in Peers \ {Owner(e)} : events'[q] = events[q]
    BY <1>3, <2>6, <2>7
  <2>10. EndOK(e)'
    BY <1>3, <1>5, <2>1 DEF EndOK
  <2>11. \A d \in Ends \ {e} : /\ d \in mapped' <=> d \in mapped
                               /\ link[d] = "closed" => link'[d] = "closed"
                               /\ known_streams'[d] = known_streams[d]
    BY <1>5, <2>1
  <2>. QED
    BY <1>3, <2>8, <2>9, <2>10, <2>11, TellNews
<1>. QED
  BY <1>6, <1>7

LEMMA HandleMessageNews ==
    ASSUME IndType, LinksOK, NewsOK, NEW p \in Peers, HandleMessage(p)
    PROVE  NewsOK'
<1>1. PICK e, packet : e = Head(inbox[p]).end /\ packet = Head(inbox[p]).packet
  OBVIOUS
<1>2. /\ UNCHANGED <<cmds, mapped, link>>
      /\ e \in mapped => Announces(p, e, packet)
      /\ e \notin mapped => UNCHANGED <<events, known_streams>>
  BY <1>1 DEF HandleMessage
<1>3. \A q \in Peers : Queued(q)' \subseteq Queued(q)
  BY <1>2 DEF Queued
<1>4. CASE e \notin mapped
  BY <1>2, <1>3, <1>4, SameNews
<1>5. CASE e \in mapped
  <2>1. /\ e \in EndsOf(p) /\ e \in Ends /\ Owner(e) = p /\ packet \in Packet
        /\ packet.stream \in StreamId
    BY <1>1, HeadMessage DEF IndType, Packet
  <2>2. /\ EventsTypeOK(Events) /\ Ordered(events[p]) /\ Events[p] = Event(EndsOf(p), Packet)
        /\ EndOK(e) /\ TypeOK
    BY <2>1 DEF IndType, TypeOK, PeerTypeOK, NewsOK, OrderOK, EndsOK, Events
  <2>3. PICK told \in BOOLEAN : told <=> packet.stream \in known_streams[e]
    OBVIOUS
  <2>4. PICK n \in Events[p], y \in Events[p] :
            n = StreamCreated(e, packet.stream) /\ y = Message(e, packet)
    BY <2>1, <2>2, EventMembers
  <2>5. /\ known_streams' = [known_streams EXCEPT ![e] = @ \cup {packet.stream}]
        /\ known_streams \in [Ends -> SUBSET StreamId]
    BY <1>2, <1>5, <2>2 DEF Announces, TypeOK, SocketTypeOK
  <2>6. Emit(p, Preceded(n, y, told))
    BY <1>2, <1>5, <2>3, <2>4 DEF Announces, Preceded
  <2>7. /\ "conn" \in DOMAIN n /\ n.conn = e /\ n.type = "StreamCreated" /\ n # Connected(e)
        /\ "conn" \in DOMAIN y /\ y.conn = e /\ y.type = "Message" /\ y # Connected(e)
        /\ y.packet = packet /\ n # Disconnected(e) /\ y # Disconnected(e)
    BY <2>4 DEF StreamCreated, Message, Connected, Disconnected
  <2>8. Heard(p, e) /\ Disconnected(e) \notin Told(p)
    BY <1>5, <2>1, <2>2 DEF EndOK
  <2>9. told => n \in Told(p)
    BY <2>1, <2>2, <2>3, <2>4 DEF EndOK
  <2>10. ~told => Fits(n, Told(p))
    BY <2>7, <2>8 DEF Fits, Heard
  <2>11. \A F : F = Told(p) \cup {n} => Fits(y, F)
    BY <2>4, <2>7, <2>8 DEF Fits, Heard
  <2>12. /\ Ordered(events'[p]) /\ Told(p)' = Told(p) \cup {n, y}
         /\ \A q \in Peers \ {p} : events'[q] = events[q]
    BY <2>2, <2>4, <2>6, <2>9, <2>10, <2>11, EmitPrecededOrdered
  <2>13. PICK N : N = {n, y}
    OBVIOUS
  <2>14. \A z \in N : "conn" \in DOMAIN z /\ z.conn = e
    BY <2>7, <2>13
  <2>15. /\ Ordered(events'[Owner(e)]) /\ Told(Owner(e))' = Told(Owner(e)) \cup N
         /\ \A q \in Peers \ {Owner(e)} : events'[q] = events[q]
    BY <2>1, <2>12, <2>13
  <2>16. EndOK(e)'
    <3>1. Heard(p, e)'
      <4>1. Told(p) \subseteq Told(p)'
        BY <2>12
      <4>. QED
        BY <2>8, <4>1, HeardMore
    <3>2. Disconnected(e) \notin Told(p)'
      BY <2>7, <2>8, <2>12
    <3>3. \A s \in known_streams'[e] : StreamCreated(e, s) \in Told(p)'
      BY <2>1, <2>2, <2>4, <2>5, <2>12 DEF EndOK
    <3>. QED
      BY <1>2, <1>5, <2>1, <3>1, <3>2, <3>3 DEF EndOK
  <2>17. \A d \in Ends \ {e} : /\ d \in mapped' <=> d \in mapped
                               /\ link[d] = "closed" => link'[d] = "closed"
                               /\ known_streams'[d] = known_streams[d]
    BY <1>2, <2>5
  <2>. QED
    BY <1>3, <2>1, <2>2, <2>14, <2>15, <2>16, <2>17, TellNews
<1>. QED
  BY <1>4, <1>5

LEMMA NewsInit ==
    ASSUME Init
    PROVE  NewsOK
<1>1. ASSUME NEW q \in Peers
      PROVE  Queued(q) = {} /\ Told(q) = {} /\ Ordered(events[q])
  <2>1. cmds[q] = <<>> /\ events[q] = <<>>
    BY DEF Init, PeerInit
  <2>. QED
    BY <2>1, EmptySeq DEF Queued, Told, Elems, Ordered
<1>2. ASSUME NEW e \in Ends
      PROVE  EndOK(e)
  <2>1. Told(Owner(e)) = {} /\ e \notin mapped /\ known_streams[e] = {}
    BY <1>1, EndFacts DEF Init
  <2>. QED
    BY <2>1 DEF EndOK, Heard
<1>. QED
  BY <1>1, <1>2 DEF NewsOK, EndsOK, CallsOK, OrderOK

LEMMA CommandNews ==
    ASSUME IndType, LinksOK, NewsOK, NEW p \in Peers, HandleCommand(p)
    PROVE  NewsOK'
<1>1. TypeOK /\ DialsOK
  BY DEF IndType
<1>2. CASE p = Server /\ Bind
  BY <1>1, <1>2, QuietCommandNews DEF Bind, libraryVars
<1>3. CASE p \in Clients /\ Connect(p)
  <2>1. dials[p] < MaxDials
    BY <1>1, <1>3, TakenDials DEF Connect
  <2>. QED
    BY <1>1, <1>3, <2>1, ConnectNews
<1>4. CASE ConnectFails(p)
  BY <1>1, <1>4, QuietCommandNews DEF ConnectFails, libraryVars
<1>5. CASE SendDropped(p) \/ SendTaken(p)
  BY <1>1, <1>5, QuietCommandNews DEF SendDropped, SendTaken, backendVars, libraryVars
<1>6. CASE AnswerStream(p)
  BY <1>1, <1>6, AnswerStreamNews
<1>7. CASE BackendShutdown(p) \/ (p = Server /\ BindFails)
  BY <1>1, <1>7, StopNews DEF BackendShutdown, BindFails
<1>. QED
  BY <1>2, <1>3, <1>4, <1>5, <1>6, <1>7 DEF HandleCommand

LEMMA NewsStep ==
    ASSUME IndType, LinksOK, FirstsOK, NewsOK, [Next]_vars
    PROVE  NewsOK'
<1>1. TypeOK
  BY DEF IndType
<1>2. ASSUME NEW p \in Peers, AppCall(p)
      PROVE  NewsOK'
  BY <1>1, <1>2, AppCallNews
<1>3. ASSUME UNCHANGED <<cmds, events, mapped, known_streams>>,
             \A d \in Ends : link[d] = "closed" => link'[d] = "closed"
      PROVE  NewsOK'
  BY <1>3, SameNews DEF Queued
<1>4. ASSUME NEW p \in Peers, AppWaits(p)
      PROVE  NewsOK'
  BY <1>3, <1>4 DEF AppWaits, Poll, Join, backendVars, libraryVars
<1>5. ASSUME NEW p \in Peers, PollReports(p) \/ PollMessages(p)
      PROVE  NewsOK'
  BY <1>3, <1>5 DEF PollReports, PollMessages, peerVars, backendVars, libraryVars
<1>6. ASSUME NEW p \in Peers, HandleEvent(p)
      PROVE  NewsOK'
  <2>1. CASE HandleConnected(p)
    <3>1. HandlesReport(p, "up") /\ RegistersIfNew(p, Head(reports[p]).end) /\ UNCHANGED link
      BY <2>1 DEF HandleConnected
    <3>. QED
      BY <1>1, <3>1, RegistersNews
  <2>. QED
    BY <1>1, <1>6, <2>1, HandleConnectingNews, HandleEndedNews DEF HandleEvent
<1>7. ASSUME NEW e \in Ends, NEW stream \in KnownStreams(Owner(e), e), AppSend(e, stream)
      PROVE  NewsOK'
  BY <1>1, <1>7, AppSendNews
<1>8. ASSUME NEW e \in Ends, LibraryServes(e) \/ Library(Break(e))
      PROVE  NewsOK'
  <2>1. UNCHANGED <<cmds, events, mapped, known_streams>>
    BY <1>8 DEF LibraryServes, Library, peerVars, backendVars
  <2>2. \A d \in Ends : link[d] = "closed" => link'[d] = "closed"
    <3>1. \/ UNCHANGED link
          \/ \E state \in LinkState : link[e] # "closed" /\ link' = [link EXCEPT ![e] = state]
      BY <1>8 DEF LibraryServes, Library, Arrive, Complete, Carry, Notice, Break, Lose, LinkState
    <3>. QED
      BY <1>1, <3>1 DEF TypeOK, LibraryTypeOK
  <2>. QED
    BY <1>3, <2>1, <2>2
<1>9. ASSUME NEW m \in loose, Library(CarryLoose(m))
      PROVE  NewsOK'
  BY <1>3, <1>9 DEF Library, CarryLoose, peerVars, backendVars
<1>10. CASE UNCHANGED vars
  BY <1>3, <1>10 DEF vars, peerVars, backendVars, libraryVars
<1>. QED
  BY <1>2, <1>4, <1>5, <1>6, <1>7, <1>8, <1>9, <1>10, CommandNews, HandleMessageNews
  DEF Next, BackendStep

-------------------------------------------------------------------------------
(* The end of a connection.  A message announces no stream any more: its    *)
(* end is still in the maps.  The loop announces those whose index          *)
(* create_stream has taken.                                                 *)

LEMMA AppOwn ==
    ASSUME MaxStreams < IdSpace, TypeOK, TypeOK', OwnInv, NEW p \in Peers, AppCall(p)
    PROVE  OwnInv'
<1>1. /\ CommandsTypeOK(Commands) /\ CommandsTypeOK(Commands)' /\ EventsTypeOK(Events)
      /\ ThreadsTypeOK
  BY DEF TypeOK, PeerTypeOK
<1>2. CASE Listen(p)
  BY <1>1, <1>2, OwnCall DEF Listen, BindCmd
<1>3. CASE Dial(p)
  BY <1>1, <1>3, OwnCall DEF Dial, ConnectCmd
<1>4. ASSUME NEW e \in EndsOf(p), NEW r \in Kinds, CreateStream(p, e, r) PROVE OwnInv'
  BY <1>1, <1>4, CreateStreamType, OwnCreate, GnsAssumption
<1>5. ASSUME NEW e \in EndsOf(p), NEW s \in KnownStreams(p, e), CloseStream(p, e, s) PROVE OwnInv'
  BY <1>1, <1>5, OwnCall DEF CloseStream, CloseStreamCmd
<1>6. CASE Shutdown(p)
  BY <1>1, <1>6, OwnCall DEF Shutdown, ShutdownCmd
<1>. QED
  BY <1>2, <1>3, <1>4, <1>5, <1>6 DEF AppCall

\* create_stream and close_stream are answered.
LEMMA AnswerOwn ==
    ASSUME TypeOK, OwnInv, NEW p \in Peers, AnswerStream(p)
    PROVE  OwnInv'
<1>1. PICK cmd : cmd = Head(cmds[p])
  OBVIOUS
<1>2. PICK type, y :
          /\ HandlesQuietly(p, type) /\ Emit(p, <<y>>)
          /\ \/ /\ type = "CreateStream"
                /\ y = StreamCreated(cmd.conn, NewStream(cmd.index, cmd.reliability))
             \/ type = "CloseStream" /\ y = StreamClosed(cmd.conn, cmd.stream)
  BY <1>1 DEF AnswerStream
<1>3. /\ cmd \in Commands[p] /\ cmd \in Queued(p) /\ cmd.type = type
      /\ \A q \in Peers : Queued(q)' \subseteq Queued(q)
  BY <1>1, <1>2, QuietType DEF Queued
<1>4. /\ EventsTypeOK(Events) /\ ThreadsTypeOK /\ UNCHANGED next_stream_id
      /\ Commands[p] = Command(EndsOf(p), Packet) /\ Events[p] = Event(EndsOf(p), Packet)
  BY <1>2 DEF TypeOK, PeerTypeOK, HandlesQuietly, Commands, Events
<1>5. y \in Events[p] /\ (y.type = "StreamCreated" => Created(p, y.stream))
  <2>1. CASE type = "CreateStream"
    <3>1. /\ cmd.conn \in EndsOf(p) /\ cmd.reliability \in Reliability
          /\ NewStream(cmd.index, cmd.reliability) \in StreamId
      BY <1>3, <1>4, <2>1, PartsOfCommand, NewHandle
    <3>2. cmd.index \in 1 .. next_stream_id[p]
      BY <1>3, <2>1 DEF OwnInv, CallCounted
    <3>. QED
      BY <1>2, <1>4, <2>1, <3>1, <3>2, EventMembers DEF Created, StreamCreated
  <2>2. CASE type = "CloseStream"
    <3>1. cmd.conn \in EndsOf(p) /\ cmd.stream \in StreamId
      BY <1>3, <1>4, <2>2, PartsOfCommand
    <3>. QED
      BY <1>2, <1>4, <2>2, <3>1, EventMembers DEF StreamClosed
  <2>. QED
    BY <1>2, <2>1, <2>2
<1>. QED
  BY <1>2, <1>3, <1>4, <1>5, OwnOne

\* A report tells of a connection and of no stream.
LEMMA ReportOwn ==
    ASSUME TypeOK, OwnInv, NEW p \in Peers, HandleEvent(p)
    PROVE  OwnInv'
<1>1. PICK e : e = Head(reports[p]).end
  OBVIOUS
<1>2. PICK state : HandlesReport(p, state)
  BY DEF HandleEvent, HandleConnecting, HandleConnected, HandleEnded
<1>3. /\ e \in EndsOf(p) /\ Events[p] = Event(EndsOf(p), Packet) /\ EventsTypeOK(Events)
      /\ ThreadsTypeOK /\ UNCHANGED next_stream_id
      /\ \A q \in Peers : Queued(q)' \subseteq Queued(q)
  BY <1>1, <1>2, HeadReport, ReportQueued DEF Events, TypeOK, PeerTypeOK
<1>4. PICK c \in Events[p], d \in Events[p] : c = Connected(e) /\ d = Disconnected(e)
  BY <1>3, EventMembers
<1>5. c.type # "StreamCreated" /\ d.type # "StreamCreated"
  BY <1>4 DEF Connected, Disconnected
<1>6. CASE UNCHANGED events
  BY <1>3, <1>6, OwnQuiet
<1>7. CASE Emit(p, <<>>)
  <2>1. PICK news \in Seq(Events[p]) : news = <<>>
    BY EmptySeq
  <2>2. Elems(news) = {}
    BY <2>1 DEF Elems
  <2>3. Emit(p, news)
    BY <1>7, <2>1
  <2>. QED
    BY <1>3, <2>2, <2>3, OwnTold
<1>8. CASE Emit(p, <<c>>)
  BY <1>3, <1>5, <1>8, OwnOne
<1>9. CASE Emit(p, <<d>>)
  BY <1>3, <1>5, <1>9, OwnOne
<1>10. UNCHANGED events \/ Emit(p, <<>>) \/ Emit(p, <<c>>) \/ Emit(p, <<d>>)
  BY <1>1, <1>4
  DEF HandleEvent, HandleConnecting, HandleConnected, HandleEnded, Registers, RegistersIfNew, Forgets
<1>. QED
  BY <1>6, <1>7, <1>8, <1>9, <1>10

\* A message of an end in the maps, which has not been told to have ended.
LEMMA MessageOwn ==
    ASSUME IndType, NewsOK, NewsOK', OwnInv, NEW p \in Peers, HandleMessage(p)
    PROVE  OwnInv'
<1>1. PICK e, packet : e = Head(inbox[p]).end /\ packet = Head(inbox[p]).packet
  OBVIOUS
<1>2. /\ UNCHANGED <<cmds, mapped, next_stream_id>>
      /\ e \in mapped => Announces(p, e, packet)
      /\ e \notin mapped => UNCHANGED events
  BY <1>1 DEF HandleMessage
<1>3. /\ EventsTypeOK(Events) /\ ThreadsTypeOK /\ Events[p] = Event(EndsOf(p), Packet)
      /\ \A q \in Peers : Queued(q)' \subseteq Queued(q)
  BY <1>2 DEF IndType, TypeOK, PeerTypeOK, Events, Queued
<1>4. CASE e \notin mapped
  BY <1>2, <1>3, <1>4, OwnQuiet
<1>5. CASE e \in mapped
  <2>1. /\ e \in EndsOf(p) /\ e \in Ends /\ Owner(e) = p /\ packet \in Packet
        /\ packet.stream \in StreamId
    BY <1>1, HeadMessage DEF IndType, Packet
  <2>2. Disconnected(e) \notin Told(p)'
    BY <1>2, <1>5, <2>1 DEF NewsOK, EndsOK, EndOK
  <2>3. PICK n \in Events[p], y \in Events[p] :
            n = StreamCreated(e, packet.stream) /\ y = Message(e, packet)
    BY <1>3, <2>1, EventMembers
  <2>4. PICK a \in Seq(Events[p]), w \in Seq(Events[p]) :
            /\ a = (IF packet.stream \in known_streams[e] THEN <<>> ELSE <<n>>)
            /\ w = <<y>>
    BY OneType, EmptySeq
  <2>5. Elems(w) = {y}
    BY <2>4 DEF Elems
  <2>6. Elems(a) \subseteq {n}
    <3>1. CASE packet.stream \in known_streams[e]
      BY <2>4, <3>1 DEF Elems
    <3>2. CASE packet.stream \notin known_streams[e]
      BY <2>4, <3>2 DEF Elems
    <3>. QED
      BY <3>1, <3>2
  <2>7. a \o w \in Seq(Events[p]) /\ Elems(a \o w) \subseteq {n, y}
    BY <2>4, <2>5, <2>6, ConcatProperties, ElemsConcat
  <2>8. Emit(p, a \o w)
    BY <1>2, <1>5, <2>3, <2>4 DEF Announces
  <2>9. n.conn = e /\ y.type # "StreamCreated"
    BY <2>3 DEF StreamCreated, Message
  <2>10. \A z \in Elems(a \o w) :
             z.type = "StreamCreated" => Created(p, z.stream) \/ Disconnected(z.conn) \notin Told(p)'
    BY <2>2, <2>7, <2>9
  <2>. QED
    BY <1>2, <1>3, <2>7, <2>8, <2>10, OwnTold
<1>. QED
  BY <1>4, <1>5

LEMMA OwnNext ==
    ASSUME MaxStreams < IdSpace
    PROVE  IndType /\ IndType' /\ NewsOK /\ NewsOK' /\ OwnInv /\ [Next]_vars => OwnInv'
<1> SUFFICES ASSUME IndType, IndType', NewsOK, NewsOK', OwnInv, [Next]_vars PROVE OwnInv'
  OBVIOUS
<1>1. TypeOK /\ TypeOK' /\ EventsTypeOK(Events) /\ ThreadsTypeOK
  BY DEF IndType, TypeOK, PeerTypeOK
<1>2. ASSUME UNCHANGED <<events, next_stream_id>>, \A q \in Peers : Queued(q)' \subseteq Queued(q)
      PROVE  OwnInv'
  BY <1>1, <1>2, OwnQuiet
<1>3. CASE UNCHANGED <<cmds, events, next_stream_id>>
  BY <1>2, <1>3 DEF Queued
<1>4. ASSUME NEW p \in Peers, AppCall(p) PROVE OwnInv'
  BY <1>1, <1>4, AppOwn
<1>5. ASSUME NEW p \in Peers, AppWaits(p) PROVE OwnInv'
  BY <1>3, <1>5 DEF AppWaits, Poll, Join
<1>6. ASSUME NEW p \in Peers, HandleCommand(p) PROVE OwnInv'
  <2>1. CASE AnswerStream(p)
    BY <1>1, <2>1, AnswerOwn
  <2>2. ASSUME NEW type, HandlesQuietly(p, type), UNCHANGED events PROVE OwnInv'
    <3>1. UNCHANGED next_stream_id /\ \A q \in Peers : Queued(q)' \subseteq Queued(q)
      BY <1>1, <2>2, QuietType DEF HandlesQuietly, Queued
    <3>. QED
      BY <1>2, <2>2, <3>1
  <2>3. CASE Stop(p)
    <3>1. /\ cmds' = [cmds EXCEPT ![p] = <<>>] /\ UNCHANGED <<events, next_stream_id>>
          /\ DOMAIN cmds = Peers
      BY <1>1, <2>3 DEF Stop, ThreadExits, TypeOK, PeerTypeOK, CommandsTypeOK
    <3>2. \A q \in Peers : Queued(q)' \subseteq Queued(q)
      BY <3>1 DEF Queued, Elems
    <3>. QED
      BY <1>2, <3>1, <3>2
  <2>4. CASE p = Server /\ Bind
    BY <2>2, <2>4 DEF Bind
  <2>5. CASE Connect(p) \/ ConnectFails(p)
    BY <2>2, <2>5 DEF Connect, ConnectFails
  <2>6. CASE SendDropped(p) \/ SendTaken(p)
    BY <2>2, <2>6 DEF SendDropped, SendTaken
  <2>. QED
    BY <1>6, <2>1, <2>3, <2>4, <2>5, <2>6 DEF HandleCommand, BackendShutdown, BindFails
<1>7. ASSUME NEW p \in Peers, PollReports(p) \/ PollMessages(p) PROVE OwnInv'
  BY <1>3, <1>7 DEF PollReports, PollMessages, peerVars
<1>8. ASSUME NEW e \in Ends, NEW stream \in KnownStreams(Owner(e), e), AppSend(e, stream)
      PROVE  OwnInv'
  <2>1. PICK p \in Peers : p = Owner(e)
    BY EndFacts
  <2>2. PICK cmd : SendCommand(p, cmd) /\ cmd.type # "CreateStream" /\ UNCHANGED <<events, next_stream_id>>
    BY <1>8, <2>1 DEF AppSend, Send, SendCmd
  <2>3. CommandsTypeOK(Commands) /\ CommandsTypeOK(Commands)'
    BY <1>1 DEF TypeOK, PeerTypeOK
  <2>. QED
    BY <1>1, <2>2, <2>3, OwnCall
<1>9. ASSUME NEW e \in Ends, LibraryServes(e) \/ Library(Break(e)) PROVE OwnInv'
  BY <1>3, <1>9 DEF LibraryServes, Library, peerVars
<1>10. ASSUME NEW m \in loose, Library(CarryLoose(m)) PROVE OwnInv'
  BY <1>3, <1>10 DEF Library, peerVars
<1>11. CASE UNCHANGED vars
  BY <1>3, <1>11 DEF vars, peerVars
<1>. QED
  BY <1>1, <1>4, <1>5, <1>6, <1>7, <1>8, <1>9, <1>10, <1>11, ReportOwn, MessageOwn
  DEF Next, BackendStep

(***************************************************************************)
(* What an application hears of a connection begins with its one Connected;*)
(* after its one Disconnected come no more than a StreamClosed or the      *)
(* StreamCreated of a stream it created; a stream is announced before its  *)
(* first message: for any number of clients, dials and calls, any size of  *)
(* a batch, and whatever the library does between the reports of a turn    *)
(* and its messages, while the counters of streams do not come round.      *)
(***************************************************************************)
THEOREM EventsTheorem ==
    ASSUME MaxStreams < IdSpace
    PROVE  Spec => []EventsInOrder
<1>1. Init => IndType /\ LinksOK /\ FirstsOK /\ NewsOK /\ OwnInv
  BY IndTypeInit, LinksInit, FirstsInit, NewsInit, OwnInit DEF Init
<1>2. (IndType /\ LinksOK /\ FirstsOK /\ NewsOK) /\ [Next]_vars
          => (IndType /\ LinksOK /\ FirstsOK /\ NewsOK)'
  BY IndTypeStep, LinksStep, FirstsStep, NewsStep
<1>3. IndType /\ IndType' /\ NewsOK /\ NewsOK' /\ OwnInv /\ [Next]_vars => OwnInv'
  BY OwnNext
<1>4. IndType /\ NewsOK /\ OwnInv => EventsInOrder
  <2>1. \A p \in Peers : \E C, M : Events[p] = Event(C, M)
    BY DEF Events
  <2>2. IndType /\ NewsOK => EventsTypeOK(Events) /\ \A p \in Peers : Ordered(events[p])
    BY DEF IndType, TypeOK, PeerTypeOK, NewsOK, OrderOK
  <2>. QED
    BY <2>1, <2>2, EventsByInvariants DEF EventsInOrder
<1>. QED
  BY <1>1, <1>2, <1>3, <1>4, PTL DEF Spec

-------------------------------------------------------------------------------
(* The reliable messages of an end that wait in an inbox, in their order   *)

Relevant(x, e) == x.end = e /\ IsReliable(x.packet.stream)

\* picked is the function Pick computes, on the first n messages.
Picks(picked, queue, e, n) ==
    picked = [i \in 0 .. n |->
                 IF i = 0 THEN <<>>
                 ELSE IF Relevant(queue[i], e) THEN Append(picked[i - 1], queue[i].packet)
                 ELSE picked[i - 1]]

Pick(queue, e) == (CHOOSE picked : Picks(picked, queue, e, Len(queue)))[Len(queue)]

LEMMA PicksExists ==
    ASSUME NEW queue, NEW e
    PROVE  \A n \in Nat : \E picked : Picks(picked, queue, e, n)
<1> DEFINE T == {n \in Nat : \E picked : Picks(picked, queue, e, n)}
<1>1. 0 \in T
  <2>1. Picks([i \in 0 .. 0 |-> <<>>], queue, e, 0)
    BY DEF Picks
  <2>. QED
    BY <2>1
<1>2. ASSUME NEW n \in Nat, n \in T PROVE n + 1 \in T
  <2>1. PICK g : Picks(g, queue, e, n)
    BY <1>2
  <2> DEFINE h == [i \in 0 .. (n + 1) |->
                      IF i # n + 1 THEN g[i]
                      ELSE IF Relevant(queue[i], e) THEN Append(g[n], queue[i].packet) ELSE g[n]]
  <2>2. \A i \in 0 .. n : h[i] = g[i]
    OBVIOUS
  <2>3. ASSUME NEW i \in 0 .. (n + 1)
        PROVE  h[i] = IF i = 0 THEN <<>>
                      ELSE IF Relevant(queue[i], e) THEN Append(h[i - 1], queue[i].packet)
                      ELSE h[i - 1]
    <3>1. CASE i = n + 1
      <4>1. i # 0 /\ i - 1 = n /\ n \in 0 .. n
        BY <3>1
      <4>. QED
        BY <2>2, <3>1, <4>1
    <3>2. CASE i # n + 1
      <4>1. i \in 0 .. n /\ (i # 0 => i - 1 \in 0 .. n)
        BY <3>2
      <4>2. g[i] = IF i = 0 THEN <<>>
                   ELSE IF Relevant(queue[i], e) THEN Append(g[i - 1], queue[i].packet)
                   ELSE g[i - 1]
        BY <2>1, <4>1 DEF Picks
      <4>. QED
        BY <2>2, <4>1, <4>2
    <3>. QED
      BY <3>1, <3>2
  <2>4. Picks(h, queue, e, n + 1)
    BY <2>3 DEF Picks
  <2>. QED
    BY <2>4
<1> HIDE DEF T
<1>3. Nat \subseteq T
  BY <1>1, <1>2, AllNat
<1>. QED
  BY <1>3 DEF T

LEMMA PickPicks ==
    ASSUME NEW M, NEW queue \in Seq(M), NEW e
    PROVE  \E picked : Picks(picked, queue, e, Len(queue)) /\ Pick(queue, e) = picked[Len(queue)]
<1> DEFINE g == CHOOSE picked : Picks(picked, queue, e, Len(queue))
<1>1. Len(queue) \in Nat
  BY LenProperties
<1>2. \E picked : Picks(picked, queue, e, Len(queue))
  BY <1>1, PicksExists
<1>3. Picks(g, queue, e, Len(queue))
  BY <1>2
<1>4. Pick(queue, e) = g[Len(queue)]
  BY DEF Pick
<1> HIDE DEF g
<1>. QED
  BY <1>3, <1>4

\* Two queues that begin alike are picked from alike.
LEMMA PicksAgree ==
    ASSUME NEW q, NEW r, NEW e, NEW n \in Nat, NEW k \in Nat, n <= k, NEW g, NEW h,
           Picks(g, q, e, n), Picks(h, r, e, k), \A i \in 1 .. n : q[i] = r[i]
    PROVE  g[n] = h[n]
<1> DEFINE T == {i \in Nat : i <= n => g[i] = h[i]}
<1>1. 0 \in T
  BY DEF Picks
<1>2. ASSUME NEW i \in Nat, i \in T PROVE i + 1 \in T
  <2> SUFFICES ASSUME i + 1 <= n PROVE g[i + 1] = h[i + 1]
    OBVIOUS
  <2>1. /\ i + 1 \in 0 .. n /\ i + 1 \in 0 .. k /\ i + 1 \in 1 .. n /\ i + 1 # 0
        /\ (i + 1) - 1 = i /\ i <= n
    OBVIOUS
  <2>2. g[i] = h[i] /\ q[i + 1] = r[i + 1]
    BY <1>2, <2>1
  <2>3. g[i + 1] = IF Relevant(q[i + 1], e) THEN Append(g[i], q[i + 1].packet) ELSE g[i]
    BY <2>1 DEF Picks
  <2>4. h[i + 1] = IF Relevant(r[i + 1], e) THEN Append(h[i], r[i + 1].packet) ELSE h[i]
    BY <2>1 DEF Picks
  <2>. QED
    BY <2>2, <2>3, <2>4
<1> HIDE DEF T
<1>3. Nat \subseteq T
  BY <1>1, <1>2, AllNat
<1>. QED
  BY <1>3 DEF T

LEMMA KeepsAgree ==
    ASSUME NEW q, NEW r, NEW S, NEW n \in Nat, NEW k \in Nat, n <= k, NEW g, NEW h,
           Keeps(g, q, S, n), Keeps(h, r, S, k), \A i \in 1 .. n : q[i] = r[i]
    PROVE  g[n] = h[n]
<1> DEFINE T == {i \in Nat : i <= n => g[i] = h[i]}
<1>1. 0 \in T
  BY DEF Keeps
<1>2. ASSUME NEW i \in Nat, i \in T PROVE i + 1 \in T
  <2> SUFFICES ASSUME i + 1 <= n PROVE g[i + 1] = h[i + 1]
    OBVIOUS
  <2>1. /\ i + 1 \in 0 .. n /\ i + 1 \in 0 .. k /\ i + 1 \in 1 .. n /\ i + 1 # 0
        /\ (i + 1) - 1 = i /\ i <= n
    OBVIOUS
  <2>2. g[i] = h[i] /\ q[i + 1] = r[i + 1]
    BY <1>2, <2>1
  <2>3. g[i + 1] = IF q[i + 1].end \in S THEN g[i] ELSE Append(g[i], q[i + 1])
    BY <2>1 DEF Keeps
  <2>4. h[i + 1] = IF r[i + 1].end \in S THEN h[i] ELSE Append(h[i], r[i + 1])
    BY <2>1 DEF Keeps
  <2>. QED
    BY <2>2, <2>3, <2>4
<1> HIDE DEF T
<1>3. Nat \subseteq T
  BY <1>1, <1>2, AllNat
<1>. QED
  BY <1>3 DEF T

\* What both compute of a queue with a message more at its end.
LEMMA PickAppend ==
    ASSUME NEW M, NEW s \in Seq(M), NEW x \in M, NEW e
    PROVE  Pick(Append(s, x), e) =
               IF Relevant(x, e) THEN Append(Pick(s, e), x.packet) ELSE Pick(s, e)
<1> DEFINE t == Append(s, x)
           n == Len(s)
<1>1. /\ t \in Seq(M) /\ Len(t) = n + 1 /\ n \in Nat /\ t[n + 1] = x
      /\ \A i \in 1 .. n : s[i] = t[i]
  BY AppendProperties, LenProperties
<1>2. PICK g : Picks(g, s, e, n) /\ Pick(s, e) = g[n]
  BY PickPicks
<1> HIDE DEF t, n
<1>3. PICK h : Picks(h, t, e, n + 1) /\ Pick(t, e) = h[n + 1]
  BY <1>1, PickPicks
<1>4. n + 1 \in Nat /\ n <= n + 1 /\ n + 1 \in 0 .. (n + 1) /\ n + 1 # 0 /\ (n + 1) - 1 = n
  BY <1>1
<1>5. g[n] = h[n]
  BY <1>1, <1>2, <1>3, <1>4, PicksAgree
<1>6. h[n + 1] = IF Relevant(t[n + 1], e) THEN Append(h[n], t[n + 1].packet) ELSE h[n]
  BY <1>3, <1>4 DEF Picks
<1>. QED
  BY <1>1, <1>2, <1>3, <1>5, <1>6 DEF t

LEMMA WithoutAppend ==
    ASSUME NEW M, NEW s \in Seq(M), NEW x \in M, NEW S
    PROVE  Without(Append(s, x), S) =
               IF x.end \in S THEN Without(s, S) ELSE Append(Without(s, S), x)
<1> DEFINE t == Append(s, x)
           n == Len(s)
<1>1. /\ t \in Seq(M) /\ Len(t) = n + 1 /\ n \in Nat /\ t[n + 1] = x
      /\ \A i \in 1 .. n : s[i] = t[i]
  BY AppendProperties, LenProperties
<1>2. PICK g : Keeps(g, s, S, n) /\ Without(s, S) = g[n]
  BY WithoutKeeps
<1> HIDE DEF t, n
<1>3. PICK h : Keeps(h, t, S, n + 1) /\ Without(t, S) = h[n + 1]
  BY <1>1, WithoutKeeps
<1>4. n + 1 \in Nat /\ n <= n + 1 /\ n + 1 \in 0 .. (n + 1) /\ n + 1 # 0 /\ (n + 1) - 1 = n
  BY <1>1
<1>5. g[n] = h[n]
  BY <1>1, <1>2, <1>3, <1>4, KeepsAgree
<1>6. h[n + 1] = IF t[n + 1].end \in S THEN h[n] ELSE Append(h[n], t[n + 1])
  BY <1>3, <1>4 DEF Keeps
<1>. QED
  BY <1>1, <1>2, <1>3, <1>5, <1>6 DEF t

LEMMA NothingPicked ==
    ASSUME NEW e, NEW S
    PROVE  Pick(<<>>, e) = <<>> /\ Without(<<>>, S) = <<>>
<1>1. <<>> \in Seq({}) /\ Len(<<>>) = 0 /\ 0 \in 0 .. 0
  BY EmptySeq
<1>2. PICK g : Picks(g, <<>>, e, 0) /\ Pick(<<>>, e) = g[0]
  BY <1>1, PickPicks
<1>3. PICK h : Keeps(h, <<>>, S, 0) /\ Without(<<>>, S) = h[0]
  BY <1>1, WithoutKeeps
<1>. QED
  BY <1>1, <1>2, <1>3 DEF Picks, Keeps


\* Packets are picked.
LEMMA PickType ==
    ASSUME NEW E, NEW s \in Seq(Received(E)), NEW e
    PROVE  Pick(s, e) \in Seq(Packet)
<1> DEFINE T == {q \in Seq(Received(E)) : Pick(q, e) \in Seq(Packet)}
<1>1. <<>> \in T
  BY NothingPicked, EmptySeq
<1>2. ASSUME NEW q \in Seq(Received(E)), NEW x \in Received(E), q \in T PROVE Append(q, x) \in T
  <2>1. Append(q, x) \in Seq(Received(E)) /\ x.packet \in Packet /\ Pick(q, e) \in Seq(Packet)
    BY <1>2, AppendProperties DEF Received
  <2>2. Pick(Append(q, x), e) = IF Relevant(x, e) THEN Append(Pick(q, e), x.packet) ELSE Pick(q, e)
    BY PickAppend
  <2>3. Append(Pick(q, e), x.packet) \in Seq(Packet)
    BY <2>1, AppendProperties
  <2>. QED
    BY <2>1, <2>2, <2>3
<1> HIDE DEF T
<1>3. Seq(Received(E)) \subseteq T
  BY <1>1, <1>2, AllSeq
<1>. QED
  BY <1>3 DEF T

\* The head is picked first, if it is to be picked.
First(x, e) == IF Relevant(x, e) THEN <<x.packet>> ELSE <<>>

LEMMA PickTail ==
    ASSUME NEW E, NEW s \in Seq(Received(E)), s # <<>>, NEW e
    PROVE  Pick(s, e) = First(Head(s), e) \o Pick(Tail(s), e)
<1> DEFINE M == Received(E)
           T == {q \in Seq(M) : q # <<>> => Pick(q, e) = First(Head(q), e) \o Pick(Tail(q), e)}
<1>1. <<>> \in T
  BY EmptySeq
<1>2. \A x \in M : x.packet \in Packet /\ First(x, e) \in Seq(Packet)
  BY EmptySeq DEF Received, First
<1>3. \A q \in Seq(M) : Pick(q, e) \in Seq(Packet)
  BY PickType
<1>4. ASSUME NEW q \in Seq(M), NEW x \in M
      PROVE  Pick(Append(q, x), e) = Pick(q, e) \o First(x, e)
  <2>1. x.packet \in Packet /\ Pick(q, e) \in Seq(Packet)
    BY <1>2, <1>3
  <2>2. Append(Pick(q, e), x.packet) = Pick(q, e) \o <<x.packet>> /\ Pick(q, e) \o <<>> = Pick(q, e)
    BY <2>1, AppendIsConcat, ConcatEmptySeq
  <2>3. Pick(Append(q, x), e) = IF Relevant(x, e) THEN Append(Pick(q, e), x.packet) ELSE Pick(q, e)
    BY PickAppend
  <2>. QED
    BY <2>2, <2>3 DEF First
<1>5. ASSUME NEW q \in Seq(M), NEW x \in M, q \in T PROVE Append(q, x) \in T
  <2>1. /\ Head(Append(q, x)) = IF q = <<>> THEN x ELSE Head(q)
        /\ Tail(Append(q, x)) = IF q = <<>> THEN <<>> ELSE Append(Tail(q), x)
        /\ Append(q, x) \in Seq(M)
    BY HeadTailAppend, AppendProperties
  <2>2. CASE q = <<>>
    <3>1. Pick(q, e) = <<>> /\ First(x, e) \in Seq(Packet)
      BY <1>2, <2>2, NothingPicked
    <3>2. <<>> \o First(x, e) = First(x, e) /\ First(x, e) \o <<>> = First(x, e)
      BY <3>1, ConcatEmptySeq
    <3>3. Pick(Append(q, x), e) = First(Head(Append(q, x)), e) \o Pick(Tail(Append(q, x)), e)
      BY <1>4, <2>1, <2>2, <3>1, <3>2
    <3>. QED
      BY <2>1, <3>3
  <2>3. CASE q # <<>>
    <3>1. Tail(q) \in Seq(M) /\ Head(q) \in M
      BY <2>3, HeadTailProperties
    <3>2. PICK a, b, c : a = First(Head(q), e) /\ b = Pick(Tail(q), e) /\ c = First(x, e)
      OBVIOUS
    <3>3. a \in Seq(Packet) /\ b \in Seq(Packet) /\ c \in Seq(Packet)
      BY <1>2, <1>3, <3>1, <3>2
    <3>4. Pick(Append(q, x), e) = (a \o b) \o c
      BY <1>4, <1>5, <2>3, <3>2
    <3>5. Pick(Append(Tail(q), x), e) = b \o c
      BY <1>4, <3>1, <3>2
    <3>6. (a \o b) \o c = a \o (b \o c)
      BY <3>3, ConcatAssociative
    <3>7. Pick(Append(q, x), e) = First(Head(Append(q, x)), e) \o Pick(Tail(Append(q, x)), e)
      BY <2>1, <2>3, <3>2, <3>4, <3>5, <3>6
    <3>. QED
      BY <2>1, <3>7
  <2>. QED
    BY <2>2, <2>3
<1>6. Seq(M) \subseteq T
  <2> HIDE DEF T
  <2>. QED
    BY <1>1, <1>5, AllSeq
<1>. QED
  BY <1>6

\* What is dropped with other ends changes nothing.
LEMMA PickWithout ==
    ASSUME NEW E, NEW s \in Seq(Received(E)), NEW S, NEW e, e \notin S
    PROVE  Pick(Without(s, S), e) = Pick(s, e)
<1> DEFINE M == Received(E)
           T == {q \in Seq(M) : Pick(Without(q, S), e) = Pick(q, e)}
<1>1. <<>> \in T
  BY NothingPicked, EmptySeq
<1>2. ASSUME NEW q \in Seq(M), NEW x \in M, q \in T PROVE Append(q, x) \in T
  <2>1. Append(q, x) \in Seq(M) /\ Without(q, S) \in Seq(M) /\ Pick(Without(q, S), e) = Pick(q, e)
    BY <1>2, AppendProperties, WithoutType
  <2>2. Without(Append(q, x), S) = IF x.end \in S THEN Without(q, S) ELSE Append(Without(q, S), x)
    BY WithoutAppend
  <2>3. /\ Pick(Append(q, x), e) =
               IF Relevant(x, e) THEN Append(Pick(q, e), x.packet) ELSE Pick(q, e)
        /\ Pick(Append(Without(q, S), x), e) =
               IF Relevant(x, e) THEN Append(Pick(Without(q, S), e), x.packet)
               ELSE Pick(Without(q, S), e)
    BY <2>1, PickAppend
  <2>4. x.end \in S => ~Relevant(x, e)
    BY DEF Relevant
  <2>5. Pick(Append(Without(q, S), x), e) = Pick(Append(q, x), e)
    BY <2>1, <2>3
  <2>6. Pick(Without(Append(q, x), S), e) = Pick(Append(q, x), e)
    <3>1. CASE x.end \in S
      <4>1. Pick(Append(q, x), e) = Pick(q, e)
        BY <2>3, <2>4, <3>1
      <4>. QED
        BY <2>1, <2>2, <3>1, <4>1
    <3>2. CASE x.end \notin S
      <4>1. Without(Append(q, x), S) = Append(Without(q, S), x)
        BY <2>2, <3>2
      <4>. QED
        BY <2>5, <4>1
    <3>. QED
      BY <3>1, <3>2
  <2>. QED
    BY <2>1, <2>6
<1>3. Seq(M) \subseteq T
  <2> HIDE DEF T
  <2>. QED
    BY <1>1, <1>2, AllSeq
<1>. QED
  BY <1>3

\* What stays was there, and is of other ends.
LEMMA ElemsWithout ==
    ASSUME NEW M, NEW s \in Seq(M), NEW S
    PROVE  \A x \in Elems(Without(s, S)) : x \in Elems(s) /\ x.end \notin S
<1> DEFINE T == {q \in Seq(M) : \A x \in Elems(Without(q, S)) : x \in Elems(q) /\ x.end \notin S}
<1>1. <<>> \in T
  <2>1. Elems(<<>>) = {}
    BY DEF Elems
  <2>. QED
    BY <2>1, NothingPicked, EmptySeq
<1>2. ASSUME NEW q \in Seq(M), NEW x \in M, q \in T PROVE Append(q, x) \in T
  <2>1. Append(q, x) \in Seq(M) /\ Without(q, S) \in Seq(M)
    BY AppendProperties, WithoutType
  <2>2. /\ Elems(Append(q, x)) = Elems(q) \cup {x}
        /\ Elems(Append(Without(q, S), x)) = Elems(Without(q, S)) \cup {x}
    BY <2>1, ElemsAppend
  <2>3. Without(Append(q, x), S) = IF x.end \in S THEN Without(q, S) ELSE Append(Without(q, S), x)
    BY WithoutAppend
  <2>4. \A y \in Elems(Without(q, S)) : y \in Elems(q) /\ y.end \notin S
    BY <1>2
  <2>5. \A y \in Elems(Without(Append(q, x), S)) : y \in Elems(Append(q, x)) /\ y.end \notin S
    BY <2>2, <2>3, <2>4
  <2>. QED
    BY <2>1, <2>5
<1>3. Seq(M) \subseteq T
  <2> HIDE DEF T
  <2>. QED
    BY <1>1, <1>2, AllSeq
<1>. QED
  BY <1>3


-------------------------------------------------------------------------------
(* The links.  What was accepted is delivered, waits in the other end's     *)
(* inbox or is on its way, as long as both ends are there; a closed end has *)
(* nothing in its inbox.  Nothing is dropped for want of a uuid: the server *)
(* does not speak before it has heard, so that the dialing end is in the    *)
(* maps, or closed, before anything is on its way to it.                    *)

DialOf(e) == <<e[1], "dial">>

\* The dialing side got its uuid, which it keeps until it closes the end.
Begun(e) == e \in Ends /\ (DialOf(e) \in mapped \/ link[DialOf(e)] = "closed")

CallTrace(p, cmd) ==
    /\ cmd.type = "Send" => Begun(cmd.conn)
    /\ p = Server => cmd.type # "CreateStream"

EventTrace(y) == y.type = "StreamCreated" => Begun(y.conn)

\* Whatever is said on a connection is a trace of its beginning.
TracesOK ==
    /\ \A e \in Ends : wire[e] # <<>> => Begun(e)
    /\ \A m \in loose : Begun(m.end)
    /\ \A p \in Peers : \A x \in Elems(inbox[p]) : Begun(x.end)
    /\ \A p \in Peers : \A cmd \in Queued(p) : CallTrace(p, cmd)
    /\ \A p \in Peers : \A y \in Told(p) : EventTrace(y)

FlagsOK ==
    /\ \A e \in Ends : \A m \in Elems(wire[e]) : IsReliable(m.stream)
    /\ \A m \in loose : ~IsReliable(m.packet.stream)

InboxOK ==
    \A p \in Peers : \A x \in Elems(inbox[p]) : x.end \in mapped /\ link[x.end] # "closed"

\* What is known of the messages to e, in the order they will be delivered.
Under(e) == (delivered[e] \o Pick(inbox[Owner(e)], e)) \o wire[Other(e)]

Delivers(e) ==
    link[e] # "closed" =>
        \E rest \in Seq(Packet) : /\ accepted[Other(e)] = Under(e) \o rest
                                  /\ link[Other(e)] # "closed" => rest = <<>>

DeliversOK == \A e \in Ends : Delivers(e)

CarriedOK == FlagsOK /\ InboxOK /\ DeliversOK

\* An end that is closed stays so, and an end leaves the maps by that.
Endure ==
    \A d \in Ends : /\ link[d] = "closed" => link'[d] = "closed"
                    /\ d \in mapped /\ d \notin mapped' => link'[d] = "closed"

LEMMA EndureSame ==
    ASSUME \A d \in Ends : link[d] = "closed" => link'[d] = "closed", mapped \subseteq mapped'
    PROVE  Endure
BY DEF Endure

LEMMA CommandEndures ==
    ASSUME IndType, LinksOK, NEW p \in Peers, HandleCommand(p)
    PROVE  Endure
<1>1. TypeOK /\ DialsOK
  BY DEF IndType
<1>2. CASE UNCHANGED <<link, mapped>>
  BY <1>2, EndureSame
<1>3. CASE p \in Clients /\ Connect(p)
  <2>1. dials[p] < MaxDials
    BY <1>1, <1>3, TakenDials DEF Connect
  <2>2. PICK e : e = <<<<p, dials[p] + 1>>, "dial">>
    OBVIOUS
  <2>3. /\ UNCHANGED mapped
        /\ \A d \in Ends : link'[d] = IF d = e THEN "connecting"
                                      ELSE IF d \in socket[p] THEN "closed" ELSE link[d]
    BY <1>3, <2>2 DEF Connect
  <2>4. e \in Ends /\ link[e] = "none"
    <3>1. dials[p] \in 0 .. MaxDials /\ MaxDials \in Nat
      BY <1>1, <1>3, GnsAssumption DEF TypeOK, SocketTypeOK
    <3>2. dials[p] + 1 \in 1 .. MaxDials /\ dials[p] + 1 > dials[p]
      BY <2>1, <3>1
    <3>3. e \in Ends /\ e[2] = "dial" /\ e[1][1] = p /\ e[1][2] = dials[p] + 1
      BY <1>3, <2>2, <3>2 DEF Ends
    <3>. QED
      BY <3>2, <3>3 DEF LinksOK, FreshOK
  <2>. QED
    BY <2>3, <2>4, EndureSame
<1>4. CASE Stop(p)
  <2>1. /\ mapped' = mapped \ EndsOf(p)
        /\ link' = [e \in Ends |-> IF e \in {d \in socket[p] : link[d] # "none"}
                                   THEN "closed" ELSE link[e]]
    BY <1>4 DEF Stop, CloseEnds
  <2>2. ASSUME NEW d \in Ends, d \in mapped, d \notin mapped', link[d] # "closed"
        PROVE  link'[d] = "closed"
    <3>1. Owner(d) = p
      BY <2>1, <2>2, EndsOfFacts
    <3>2. d \in socket[p] /\ link[d] # "none"
      BY <2>2, <3>1 DEF LinksOK, LinkOK, Held
    <3>. QED
      BY <2>1, <3>2
  <2>3. \A d \in Ends : link[d] = "closed" => link'[d] = "closed"
    BY <2>1
  <2>. QED
    BY <2>2, <2>3 DEF Endure
<1>. QED
  BY <1>2, <1>3, <1>4
  DEF HandleCommand, Bind, BindFails, ConnectFails, SendDropped, SendTaken, AnswerStream,
      BackendShutdown, libraryVars, backendVars

LEMMA EventEndures ==
    ASSUME IndType, LinksOK, NEW p \in Peers, HandleEvent(p)
    PROVE  Endure
<1>1. TypeOK /\ link \in [Ends -> LinkState]
  BY DEF IndType, TypeOK, LibraryTypeOK
<1>2. PICK e : e = Head(reports[p]).end
  OBVIOUS
<1>3. CASE HandleConnecting(p) \/ HandleConnected(p)
  <2>1. /\ mapped \subseteq mapped'
        /\ UNCHANGED link \/ (link[e] = "connecting" /\ link' = [link EXCEPT ![e] = "up"])
    BY <1>2, <1>3 DEF HandleConnecting, HandleConnected, Registers, RegistersIfNew
  <2>2. \A d \in Ends : link[d] = "closed" => link'[d] = "closed"
    BY <1>1, <2>1
  <2>. QED
    BY <2>1, <2>2, EndureSame
<1>4. CASE HandleEnded(p)
  <2>1. /\ link' = [d \in Ends |-> IF d \in {e} THEN "closed" ELSE link[d]]
        /\ mapped' = mapped \ {e} \/ mapped' = mapped
    BY <1>2, <1>4 DEF HandleEnded, CloseEnds, Forgets
  <2>. QED
    BY <2>1 DEF Endure
<1>. QED
  BY <1>3, <1>4 DEF HandleEvent

LEMMA StepEndures ==
    ASSUME IndType, LinksOK, [Next]_vars
    PROVE  Endure
<1>1. CASE UNCHANGED <<link, mapped>>
  BY <1>1, EndureSame
<1>2. ASSUME NEW e \in Ends, LibraryServes(e) \/ Library(Break(e))
      PROVE  Endure
  <2>1. UNCHANGED mapped
    BY <1>2 DEF LibraryServes, Library, backendVars
  <2>2. \/ UNCHANGED link
        \/ \E state \in LinkState : link[e] # "closed" /\ link' = [link EXCEPT ![e] = state]
    BY <1>2 DEF LibraryServes, Library, Arrive, Complete, Carry, Notice, Break, Lose, LinkState
  <2>3. \A d \in Ends : link[d] = "closed" => link'[d] = "closed"
    BY <2>2 DEF IndType, TypeOK, LibraryTypeOK
  <2>. QED
    BY <2>1, <2>3, EndureSame
<1>3. ASSUME NEW p \in Peers, BackendStep(p)
      PROVE  Endure
  <2>1. CASE PollReports(p) \/ PollMessages(p) \/ HandleMessage(p)
    BY <1>1, <2>1 DEF PollReports, PollMessages, HandleMessage, libraryVars, backendVars
  <2>. QED
    BY <1>3, <2>1, CommandEndures, EventEndures DEF BackendStep
<1>4. ASSUME NEW p \in Peers, AppCall(p) \/ AppWaits(p)
      PROVE  Endure
  BY <1>1, <1>4 DEF AppCall, AppWaits, libraryVars, backendVars
<1>5. ASSUME NEW e \in Ends, NEW stream \in KnownStreams(Owner(e), e), AppSend(e, stream)
      PROVE  Endure
  BY <1>1, <1>5 DEF AppSend, libraryVars, backendVars
<1>6. ASSUME NEW m \in loose, Library(CarryLoose(m))
      PROVE  Endure
  BY <1>1, <1>6 DEF Library, CarryLoose, backendVars
<1>7. CASE UNCHANGED vars
  BY <1>1, <1>7 DEF vars, libraryVars, backendVars
<1>. QED
  BY <1>2, <1>3, <1>4, <1>5, <1>6, <1>7 DEF Next

LEMMA DialOfFacts ==
    ASSUME NEW e \in Ends
    PROVE  /\ DialOf(e) \in Ends /\ DialOf(Other(e)) = DialOf(e)
           /\ e[2] = "dial" => DialOf(e) = e
BY EndFacts DEF DialOf, Ends, Other

LEMMA BegunStays ==
    ASSUME Endure
    PROVE  \A e : Begun(e) => Begun(e)'
BY DialOfFacts DEF Endure, Begun


LEMMA TracesFrame ==
    ASSUME TracesOK, \A e : Begun(e) => Begun(e)',
           \A e \in Ends : wire'[e] # <<>> => wire[e] # <<>> \/ Begun(e),
           \A m \in loose' : m \in loose \/ Begun(m.end),
           \A q \in Peers : \A x \in Elems(inbox'[q]) : x \in Elems(inbox[q]) \/ Begun(x.end),
           \A q \in Peers : \A cmd \in Queued(q)' : cmd \in Queued(q) \/ CallTrace(q, cmd),
           \A q \in Peers : \A y \in Told(q)' : y \in Told(q) \/ EventTrace(y)
    PROVE  TracesOK'
<1>1. ASSUME NEW q \in Peers, NEW cmd \in Queued(q)' PROVE CallTrace(q, cmd)'
  <2>1. CallTrace(q, cmd)
    BY <1>1 DEF TracesOK
  <2>. QED
    BY <2>1 DEF CallTrace
<1>2. ASSUME NEW q \in Peers, NEW y \in Told(q)' PROVE EventTrace(y)'
  <2>1. EventTrace(y)
    BY <1>2 DEF TracesOK
  <2>. QED
    BY <2>1 DEF EventTrace
<1>3. ASSUME NEW q \in Peers, NEW x \in Elems(inbox'[q]) PROVE Begun(x.end)'
  <2>1. Begun(x.end)
    BY <1>3 DEF TracesOK
  <2>. QED
    BY <2>1
<1>4. ASSUME NEW m \in loose' PROVE Begun(m.end)'
  <2>1. Begun(m.end)
    BY <1>4 DEF TracesOK
  <2>. QED
    BY <2>1
<1>5. ASSUME NEW e \in Ends, wire'[e] # <<>> PROVE Begun(e)'
  <2>1. Begun(e)
    BY <1>5 DEF TracesOK
  <2>. QED
    BY <2>1
<1>. QED
  BY <1>1, <1>2, <1>3, <1>4, <1>5 DEF TracesOK, Elems

\* Nothing new is said.
LEMMA QuietTraces ==
    ASSUME TracesOK, \A e : Begun(e) => Begun(e)', wire' = wire, loose' = loose, inbox' = inbox,
           \A q \in Peers : Queued(q)' \subseteq Queued(q),
           \A q \in Peers : \A y \in Told(q)' : y \in Told(q) \/ EventTrace(y)
    PROVE  TracesOK'
BY TracesFrame

LEMMA SilentTraces ==
    ASSUME TracesOK, \A e : Begun(e) => Begun(e)', UNCHANGED <<cmds, events, wire, loose, inbox>>
    PROVE  TracesOK'
BY QuietTraces DEF Queued, Told

LEMMA CallTraces ==
    ASSUME TypeOK, TracesOK, \A e : Begun(e) => Begun(e)', NEW p \in Peers,
           NEW cmd \in Commands[p], SendCommand(p, cmd), CallTrace(p, cmd),
           UNCHANGED <<events, wire, loose, inbox>>
    PROVE  TracesOK'
<1>1. Queued(p)' = Queued(p) \cup {cmd} /\ \A q \in Peers \ {p} : cmds'[q] = cmds[q]
  BY SendCommandQueued DEF TypeOK, PeerTypeOK
<1>2. \A q \in Peers : \A c \in Queued(q)' : c \in Queued(q) \/ CallTrace(q, c)
  BY <1>1 DEF Queued
<1>3. \A q \in Peers : \A y \in Told(q)' : y \in Told(q)
  BY DEF Told
<1>. QED
  BY <1>2, <1>3, TracesFrame

\* The server creates no streams.
LEMMA AppCallTraces ==
    ASSUME Creators \subseteq Clients, TypeOK, TracesOK, \A e : Begun(e) => Begun(e)',
           NEW p \in Peers, AppCall(p)
    PROVE  TracesOK'
<1>1. UNCHANGED <<wire, loose, inbox>> /\ Commands[p] = Command(EndsOf(p), Packet)
  BY DEF AppCall, libraryVars, Commands
<1>2. /\ EventsTypeOK(Events) /\ Events[p] = Event(EndsOf(p), Packet)
  BY DEF TypeOK, PeerTypeOK, Events
<1>3. BindCmd \in Commands[p] /\ ConnectCmd \in Commands[p] /\ ShutdownCmd \in Commands[p]
  BY <1>1, CommandMembers
<1>4. CallTrace(p, BindCmd) /\ CallTrace(p, ConnectCmd) /\ CallTrace(p, ShutdownCmd)
  BY DEF CallTrace, BindCmd, ConnectCmd, ShutdownCmd
<1>5. CASE Listen(p)
  BY <1>1, <1>3, <1>4, <1>5, CallTraces DEF Listen
<1>6. CASE Dial(p)
  BY <1>1, <1>3, <1>4, <1>6, CallTraces DEF Dial
<1>7. CASE Shutdown(p)
  BY <1>1, <1>3, <1>4, <1>7, CallTraces DEF Shutdown
<1>8. ASSUME NEW e \in EndsOf(p), NEW r \in Kinds, p \in Creators, CreateStream(p, e, r)
      PROVE  TracesOK'
  <2>1. PICK cmd \in Commands[p] : /\ cmd = CreateStreamCmd(e, next_stream_id'[p], r)
                                   /\ SendCommand(p, cmd) \/ UNCHANGED cmds
    BY <1>8, CreateStreamType, GnsAssumption
  <2>2. UNCHANGED events
    BY <1>8 DEF CreateStream
  <2>3. CallTrace(p, cmd)
    BY <1>8, <2>1 DEF CallTrace, CreateStreamCmd, Clients
  <2>4. CASE UNCHANGED cmds
    BY <1>1, <2>2, <2>4, QuietTraces DEF Queued, Told
  <2>. QED
    BY <1>1, <2>1, <2>2, <2>3, <2>4, CallTraces
<1>9. ASSUME NEW e \in EndsOf(p), NEW stream \in KnownStreams(p, e), CloseStream(p, e, stream)
      PROVE  TracesOK'
  <2>1. stream \in StreamId
    BY <1>2, <1>9, KnownIsTold
  <2>2. CloseStreamCmd(e, stream) \in Commands[p]
    BY <1>1, <2>1, CommandMembers
  <2>3. CallTrace(p, CloseStreamCmd(e, stream))
    BY DEF CallTrace, CloseStreamCmd
  <2>4. SendCommand(p, CloseStreamCmd(e, stream)) /\ UNCHANGED events
    BY <1>9 DEF CloseStream
  <2>. QED
    BY <1>1, <2>2, <2>3, <2>4, CallTraces
<1>. QED
  BY <1>5, <1>6, <1>7, <1>8, <1>9 DEF AppCall

\* An application sends on streams it was told of.
LEMMA AppSendTraces ==
    ASSUME TypeOK, TracesOK, \A e : Begun(e) => Begun(e)',
           NEW e \in Ends, NEW stream \in KnownStreams(Owner(e), e), AppSend(e, stream)
    PROVE  TracesOK'
<1>1. PICK p \in Peers : p = Owner(e) /\ e \in EndsOf(p)
  BY EndFacts
<1>2. PICK cmd \in Commands[p] : SendCommand(p, cmd) /\ cmd.type = "Send" /\ cmd.conn = e
  BY <1>1, AppSendParts DEF SendCmd
<1>3. UNCHANGED <<events, wire, loose, inbox>>
  BY DEF AppSend, Send, libraryVars
<1>4. PICK y \in Seen(p) : y.type = "StreamCreated" /\ y.conn = e
  BY <1>1 DEF KnownStreams
<1>5. Seen(p) \subseteq Told(p)
  BY SeenTold DEF TypeOK, PeerTypeOK
<1>6. Begun(e)
  BY <1>4, <1>5 DEF TracesOK, EventTrace
<1>7. CallTrace(p, cmd)
  BY <1>2, <1>6 DEF CallTrace
<1>. QED
  BY <1>2, <1>3, <1>7, CallTraces

\* What is queued, in an inbox or on its way goes, and none comes.
LEMMA ClosingTraces ==
    ASSUME TypeOK, TracesOK, \A e : Begun(e) => Begun(e)', NEW p \in Peers, NEW S, Closing(p, S),
           \A q \in Peers : Queued(q)' \subseteq Queued(q),
           \A q \in Peers : \A y \in Told(q)' : y \in Told(q) \/ EventTrace(y)
    PROVE  TracesOK'
<1>1. /\ \A e \in Ends : wire'[e] # <<>> => wire[e] # <<>>
      /\ loose' \subseteq loose /\ inbox' = [inbox EXCEPT ![p] = Without(inbox[p], S)]
  BY DEF Closing
<1>2. DOMAIN inbox = Peers /\ inbox[p] \in Seq(Received(EndsOf(p)))
  BY DEF TypeOK, LibraryTypeOK
<1>3. \A x \in Elems(inbox'[p]) : x \in Elems(inbox[p])
  BY <1>1, <1>2, ElemsWithout
<1>4. \A q \in Peers : \A x \in Elems(inbox'[q]) : x \in Elems(inbox[q])
  <2> SUFFICES ASSUME NEW q \in Peers, q # p PROVE inbox'[q] = inbox[q]
    BY <1>3
  <2>. QED
    BY <1>1, <1>2
<1>. QED
  BY <1>1, <1>4, TracesFrame


LEMMA ElemsOne ==
    ASSUME NEW S, NEW x \in S
    PROVE  <<x>> \in Seq(S) /\ Elems(<<x>>) = {x} /\ Elems(<<>>) = {}
BY DEF Elems

LEMMA EmitTraces ==
    ASSUME TypeOK, NEW p \in Peers, NEW news \in Seq(Events[p]), Emit(p, news),
           \A y \in Elems(news) : EventTrace(y)
    PROVE  \A q \in Peers : \A y \in Told(q)' : y \in Told(q) \/ EventTrace(y)
<1>1. /\ Told(p)' \subseteq Told(p) \cup Elems(news)
      /\ \A q \in Peers \ {p} : events'[q] = events[q]
  BY EmitTold DEF TypeOK, PeerTypeOK
<1>. QED
  BY <1>1 DEF Told

LEMMA EmitOneTraces ==
    ASSUME TypeOK, NEW p \in Peers, NEW y \in Events[p], Emit(p, <<y>>), EventTrace(y)
    PROVE  \A q \in Peers : \A z \in Told(q)' : z \in Told(q) \/ EventTrace(z)
<1>1. <<y>> \in Seq(Events[p]) /\ Elems(<<y>>) = {y}
  BY ElemsOne
<1>. QED
  BY <1>1, EmitTraces

LEMMA AnswerStreamTraces ==
    ASSUME TypeOK, NewsOK, TracesOK, \A e : Begun(e) => Begun(e)', NEW p \in Peers, AnswerStream(p)
    PROVE  TracesOK'
<1>1. UNCHANGED <<wire, loose, inbox>> /\ Events[p] = Event(EndsOf(p), Packet)
  BY DEF AnswerStream, libraryVars, Events
<1>2. PICK cmd : cmd = Head(cmds[p])
  OBVIOUS
<1>3. CASE HandlesQuietly(p, "CreateStream")
           /\ Emit(p, <<StreamCreated(cmd.conn, NewStream(cmd.index, cmd.reliability))>>)
  <2>1. /\ cmd.conn \in EndsOf(p) /\ cmd.index \in StreamId /\ cmd.reliability \in Reliability
        /\ cmd \in Queued(p) /\ cmd.type = "CreateStream"
        /\ \A q \in Peers : Queued(q)' \subseteq Queued(q)
    BY <1>2, <1>3, HeadParts, QuietType DEF Queued
  <2>2. PICK e : e = cmd.conn
    OBVIOUS
  <2>3. p # Server /\ e \in Ends /\ Owner(e) = p /\ e[2] = "dial"
    <3>1. e \in Ends /\ Owner(e) = p
      BY <2>1, <2>2, EndsOfFacts
    <3>2. p # Server
      BY <2>1 DEF TracesOK, CallTrace
    <3>. QED
      BY <3>1, <3>2, EndFacts
  <2>4. Heard(p, e)
    BY <2>1, <2>2 DEF NewsOK, CallsOK, CallOK, OfConnection
  <2>5. Begun(e)
    BY <2>3, <2>4, DialOfFacts DEF NewsOK, EndsOK, EndOK, Begun
  <2>6. PICK y \in Events[p] : y = StreamCreated(e, NewStream(cmd.index, cmd.reliability))
    BY <1>1, <2>1, <2>2, NewHandle, EventMembers
  <2>7. EventTrace(y)
    BY <2>5, <2>6 DEF EventTrace, StreamCreated
  <2>8. Emit(p, <<y>>)
    BY <1>3, <2>2, <2>6
  <2>. QED
    BY <1>1, <2>1, <2>7, <2>8, EmitOneTraces, QuietTraces
<1>4. CASE HandlesQuietly(p, "CloseStream") /\ Emit(p, <<StreamClosed(cmd.conn, cmd.stream)>>)
  <2>1. /\ cmd.conn \in EndsOf(p) /\ cmd.stream \in StreamId
        /\ \A q \in Peers : Queued(q)' \subseteq Queued(q)
    BY <1>2, <1>4, HeadParts, QuietType DEF Queued
  <2>2. PICK y \in Events[p] : y = StreamClosed(cmd.conn, cmd.stream)
    BY <1>1, <2>1, EventMembers
  <2>3. EventTrace(y)
    BY <2>2 DEF EventTrace, StreamClosed
  <2>. QED
    BY <1>1, <1>4, <2>1, <2>2, <2>3, EmitOneTraces, QuietTraces
<1>. QED
  BY <1>2, <1>3, <1>4 DEF AnswerStream

LEMMA SendTakenTraces ==
    ASSUME TypeOK, TracesOK, \A e : Begun(e) => Begun(e)', NEW p \in Peers, SendTaken(p)
    PROVE  TracesOK'
<1>1. PICK e, m : e = HeadConn(p) /\ m = HeadPacket(p)
  OBVIOUS
<1>2. HandlesQuietly(p, "Send") /\ Dispatch(e, m) /\ UNCHANGED <<events, inbox>>
  BY <1>1 DEF SendTaken
<1>3. /\ Head(cmds[p]) \in Queued(p) /\ Head(cmds[p]).type = "Send" /\ Head(cmds[p]).conn = e
      /\ \A q \in Peers : Queued(q)' \subseteq Queued(q)
  BY <1>1, <1>2, QuietType DEF Queued, HeadConn
<1>4. Begun(e)
  BY <1>3 DEF TracesOK, CallTrace
<1>5. /\ \A d \in Ends : wire'[d] # <<>> => wire[d] # <<>> \/ Begun(d)
      /\ \A x \in loose' : x \in loose \/ Begun(x.end)
  <2>1. wire \in [Ends -> Seq(Packet)]
    BY DEF TypeOK, LibraryTypeOK
  <2>2. \A d \in Ends : d # e => wire'[d] = wire[d]
    BY <1>2, <2>1 DEF Dispatch
  <2>3. \A x \in loose' : x \in loose \/ x.end = e
    BY <1>2 DEF Dispatch
  <2>. QED
    BY <1>4, <2>2, <2>3
<1>6. \A q \in Peers : \A y \in Told(q)' : y \in Told(q)
  BY <1>2 DEF Told
<1>. QED
  BY <1>2, <1>3, <1>5, <1>6, TracesFrame

LEMMA CommandTraces ==
    ASSUME TypeOK, NewsOK, TracesOK, \A e : Begun(e) => Begun(e)', NEW p \in Peers, HandleCommand(p)
    PROVE  TracesOK'
<1>1. ASSUME NEW type, HandlesQuietly(p, type)
      PROVE  \A q \in Peers : Queued(q)' \subseteq Queued(q)
  BY <1>1, QuietType DEF Queued
<1>2. ASSUME UNCHANGED events
      PROVE  \A q \in Peers : \A y \in Told(q)' : y \in Told(q)
  BY <1>2 DEF Told
<1>3. CASE p = Server /\ Bind
  BY <1>1, <1>2, <1>3, QuietTraces DEF Bind, libraryVars
<1>4. CASE p \in Clients /\ Connect(p)
  <2>1. HandlesQuietly(p, "Connect") /\ Closing(p, socket[p]) /\ UNCHANGED events
    BY <1>4 DEF Connect
  <2>. QED
    BY <1>1, <1>2, <2>1, ClosingTraces
<1>5. CASE ConnectFails(p)
  BY <1>1, <1>2, <1>5, QuietTraces DEF ConnectFails, libraryVars
<1>6. CASE SendDropped(p)
  BY <1>1, <1>2, <1>6, QuietTraces DEF SendDropped, libraryVars
<1>7. CASE Stop(p)
  <2>1. /\ ThreadExits(p) /\ UNCHANGED events
        /\ Closing(p, {e \in socket[p] : link[e] # "none"})
    BY <1>7 DEF Stop, CloseEnds
  <2>2. \A q \in Peers : Queued(q)' \subseteq Queued(q)
    <3>1. cmds' = [cmds EXCEPT ![p] = <<>>] /\ DOMAIN cmds = Peers
      BY <2>1 DEF ThreadExits, TypeOK, PeerTypeOK, CommandsTypeOK
    <3>2. cmds'[p] = <<>> /\ \A q \in Peers \ {p} : cmds'[q] = cmds[q]
      BY <3>1
    <3>3. Queued(p)' = {}
      BY <3>2, EmptySeq DEF Queued, Elems
    <3>. QED
      BY <3>2, <3>3 DEF Queued
  <2>. QED
    BY <1>2, <2>1, <2>2, ClosingTraces
<1>. QED
  BY <1>3, <1>4, <1>5, <1>6, <1>7, SendTakenTraces, AnswerStreamTraces
  DEF HandleCommand, BindFails, BackendShutdown

LEMMA ReportTraces ==
    ASSUME TypeOK, LinksOK, TracesOK, \A e : Begun(e) => Begun(e)', NEW p \in Peers, HandleEvent(p)
    PROVE  TracesOK'
<1>1. PICK e : e = Head(reports[p]).end
  OBVIOUS
<1>2. PICK state : HandlesReport(p, state)
  BY DEF HandleEvent, HandleConnecting, HandleConnected, HandleEnded
<1>3. /\ e \in EndsOf(p) /\ Events[p] = Event(EndsOf(p), Packet) /\ EventsTypeOK(Events)
      /\ \A q \in Peers : Queued(q)' \subseteq Queued(q)
  BY <1>1, <1>2, HeadLink, ReportQueued DEF Events, TypeOK, PeerTypeOK
<1>4. PICK c \in Events[p], d \in Events[p] : c = Connected(e) /\ d = Disconnected(e)
  BY <1>3, EventMembers
<1>5. EventTrace(c) /\ EventTrace(d)
  BY <1>4 DEF EventTrace, Connected, Disconnected
<1>6. \A q \in Peers : \A y \in Told(q)' : y \in Told(q) \/ EventTrace(y)
  <2>1. CASE UNCHANGED events
    BY <2>1 DEF Told
  <2>2. CASE Emit(p, <<>>)
    <3>1. \A q \in Peers : events'[q] = events[q]
      BY <1>3, <2>2, EmitNone
    <3>. QED
      BY <3>1 DEF Told
  <2>3. CASE Emit(p, <<c>>)
    BY <1>5, <2>3, EmitOneTraces
  <2>4. CASE Emit(p, <<d>>)
    BY <1>5, <2>4, EmitOneTraces
  <2>5. \/ UNCHANGED events \/ Emit(p, <<>>) \/ Emit(p, <<c>>) \/ Emit(p, <<d>>)
    BY <1>1, <1>4
    DEF HandleEvent, HandleConnecting, HandleConnected, HandleEnded, Registers, RegistersIfNew, Forgets
  <2>. QED
    BY <2>1, <2>2, <2>3, <2>4, <2>5
<1>7. CASE UNCHANGED <<wire, loose, inbox>>
  BY <1>3, <1>6, <1>7, QuietTraces
<1>8. CASE CloseEnds(p, {e})
  BY <1>3, <1>6, <1>8, ClosingTraces DEF CloseEnds
<1>. QED
  BY <1>1, <1>7, <1>8 DEF HandleEvent, HandleConnecting, HandleConnected, HandleEnded

\* A message that arrives was on its way.
LEMMA ArrivesTraces ==
    ASSUME TypeOK, TracesOK, \A e : Begun(e) => Begun(e)', NEW e \in Ends, NEW m \in Packet,
           inbox' = [inbox EXCEPT ![Owner(e)] = Append(@, [end |-> e, packet |-> m])],
           Begun(Other(e)), \A d \in Ends : wire'[d] # <<>> => wire[d] # <<>>,
           loose' \subseteq loose, UNCHANGED <<cmds, events>>
    PROVE  TracesOK'
<1>0. PICK o \in Peers : o = Owner(e) /\ e \in EndsOf(o)
  BY EndFacts
<1>1. PICK x \in Received(EndsOf(o)) : o = Owner(e) /\ x = [end |-> e, packet |-> m]
  BY <1>0 DEF Received
<1>2. /\ inbox' = [inbox EXCEPT ![o] = Append(@, x)] /\ DOMAIN inbox = Peers
      /\ inbox[o] \in Seq(Received(EndsOf(o)))
  BY <1>1 DEF TypeOK, LibraryTypeOK
<1>3. Elems(inbox'[o]) = Elems(inbox[o]) \cup {x} /\ \A q \in Peers \ {o} : inbox'[q] = inbox[q]
  BY <1>2, ElemsAppend
<1>4. Begun(x.end)
  BY <1>1, EndFacts, DialOfFacts DEF Begun
<1>5. \A q \in Peers : \A y \in Elems(inbox'[q]) : y \in Elems(inbox[q]) \/ Begun(y.end)
  BY <1>3, <1>4
<1>6. /\ \A q \in Peers : \A c \in Queued(q)' : c \in Queued(q)
      /\ \A q \in Peers : \A y \in Told(q)' : y \in Told(q)
  BY DEF Queued, Told
<1>. QED
  BY <1>5, <1>6, TracesFrame

LEMMA LibraryTraces ==
    ASSUME TypeOK, TracesOK, \A e : Begun(e) => Begun(e)', NEW e \in Ends,
           LibraryServes(e) \/ Library(Break(e))
    PROVE  TracesOK'
<1>1. UNCHANGED <<cmds, events>>
  BY DEF LibraryServes, Library, peerVars
<1>2. CASE Library(Carry(e))
  <2>1. /\ wire[e] # <<>> /\ wire' = [wire EXCEPT ![e] = Tail(@)] /\ loose' = loose
        /\ inbox' = [inbox EXCEPT ![Owner(Other(e))] =
                         Append(@, [end |-> Other(e), packet |-> Head(wire[e])])]
    BY <1>2 DEF Library, Carry
  <2>2. PICK f, m : f = Other(e) /\ m = Head(wire[e])
    OBVIOUS
  <2>3. f \in Ends /\ Other(f) = e /\ m \in Packet /\ wire \in [Ends -> Seq(Packet)]
    BY <2>1, <2>2, EndFacts, HeadTailProperties DEF TypeOK, LibraryTypeOK
  <2>4. \A d \in Ends : wire'[d] # <<>> => wire[d] # <<>>
    BY <2>1, <2>3
  <2>5. inbox' = [inbox EXCEPT ![Owner(f)] = Append(@, [end |-> f, packet |-> m])]
    BY <2>1, <2>2
  <2>6. Begun(Other(f))
    BY <2>1, <2>3 DEF TracesOK
  <2>. QED
    BY <1>1, <2>1, <2>3, <2>4, <2>5, <2>6, ArrivesTraces
<1>3. CASE UNCHANGED <<wire, loose, inbox>>
  BY <1>1, <1>3, SilentTraces
<1>. QED
  BY <1>2, <1>3 DEF LibraryServes, Library, Arrive, Complete, Notice, Break, Lose

LEMMA CarryLooseTraces ==
    ASSUME TypeOK, TracesOK, \A e : Begun(e) => Begun(e)', NEW x \in loose, Library(CarryLoose(x))
    PROVE  TracesOK'
<1>1. PICK e, m : e = Other(x.end) /\ m = x.packet
  OBVIOUS
<1>2. e \in Ends /\ Other(e) = x.end /\ m \in Packet
  BY <1>1, EndFacts DEF TypeOK, LibraryTypeOK, Received
<1>3. /\ inbox' = [inbox EXCEPT ![Owner(e)] = Append(@, [end |-> e, packet |-> m])]
      /\ loose' \subseteq loose /\ wire' = wire /\ UNCHANGED <<cmds, events>>
  BY <1>1 DEF Library, CarryLoose, peerVars
<1>4. Begun(Other(e))
  BY <1>2 DEF TracesOK
<1>. QED
  BY <1>2, <1>3, <1>4, ArrivesTraces

LEMMA HandleMessageTraces ==
    ASSUME IndType, TracesOK, \A e : Begun(e) => Begun(e)', NEW p \in Peers, HandleMessage(p)
    PROVE  TracesOK'
<1>1. PICK e, packet : e = Head(inbox[p]).end /\ packet = Head(inbox[p]).packet
  OBVIOUS
<1>2. /\ UNCHANGED <<cmds, wire, loose>> /\ inbox' = [inbox EXCEPT ![p] = Tail(@)]
      /\ Announces(p, e, packet) \/ UNCHANGED events
  BY <1>1 DEF HandleMessage
<1>3. /\ TypeOK /\ e \in EndsOf(p) /\ packet \in Packet /\ packet.stream \in StreamId
      /\ inbox[p] \in Seq(Received(EndsOf(p))) /\ inbox[p] # <<>> /\ DOMAIN inbox = Peers
      /\ Events[p] = Event(EndsOf(p), Packet)
  BY <1>1, HeadMessage DEF IndType, Events, Packet
<1>4. Elems(Tail(inbox[p])) \subseteq Elems(inbox[p]) /\ Head(inbox[p]) \in Elems(inbox[p])
  BY <1>3, ElemsTail
<1>5. Begun(e)
  BY <1>1, <1>4 DEF TracesOK
<1>6. \A q \in Peers : \A y \in Told(q)' : y \in Told(q) \/ EventTrace(y)
  <2>1. CASE UNCHANGED events
    BY <2>1 DEF Told
  <2>2. CASE Announces(p, e, packet)
    <3>1. PICK told \in BOOLEAN : told <=> packet.stream \in known_streams[e]
      OBVIOUS
    <3>2. PICK n \in Events[p], y \in Events[p] :
              n = StreamCreated(e, packet.stream) /\ y = Message(e, packet)
      BY <1>3, EventMembers
    <3>3. PICK news : news = (IF told THEN <<>> ELSE <<n>>) \o <<y>>
      OBVIOUS
    <3>4. Emit(p, news)
      BY <2>2, <3>1, <3>2, <3>3 DEF Announces
    <3>5. /\ <<y>> \in Seq(Events[p]) /\ <<n>> \in Seq(Events[p]) /\ <<>> \in Seq(Events[p])
          /\ Elems(<<n>>) = {n} /\ Elems(<<y>>) = {y} /\ Elems(<<>>) = {}
      BY <3>2, ElemsOne, EmptySeq
    <3>6. /\ (IF told THEN <<>> ELSE <<n>>) \in Seq(Events[p]) /\ <<y>> \in Seq(Events[p])
          /\ Elems(IF told THEN <<>> ELSE <<n>>) \subseteq {n} /\ Elems(<<y>>) = {y}
      <4>1. CASE told
        BY <3>5, <4>1
      <4>2. CASE ~told
        BY <3>5, <4>2
      <4>. QED
        BY <4>1, <4>2
    <3>7. news \in Seq(Events[p]) /\ Elems(news) \subseteq {n, y}
      BY <3>3, <3>6, ConcatProperties, ElemsConcat
    <3>8. EventTrace(n) /\ EventTrace(y)
      BY <1>5, <3>2 DEF EventTrace, StreamCreated, Message
    <3>. QED
      BY <1>3, <3>4, <3>7, <3>8, EmitTraces
  <2>. QED
    BY <1>2, <2>1, <2>2
<1>7. \A q \in Peers : \A x \in Elems(inbox'[q]) : x \in Elems(inbox[q])
  BY <1>2, <1>3, <1>4
<1>8. \A q \in Peers : \A c \in Queued(q)' : c \in Queued(q)
  BY <1>2 DEF Queued
<1>. QED
  BY <1>2, <1>6, <1>7, <1>8, TracesFrame

LEMMA TracesStep ==
    ASSUME Creators \subseteq Clients, IndType, LinksOK, NewsOK, TracesOK, [Next]_vars
    PROVE  TracesOK'
<1>1. TypeOK /\ \A e : Begun(e) => Begun(e)'
  BY StepEndures, BegunStays DEF IndType
<1>2. ASSUME NEW p \in Peers, AppCall(p)
      PROVE  TracesOK'
  BY <1>1, <1>2, AppCallTraces
<1>3. ASSUME NEW p \in Peers, AppWaits(p) \/ PollReports(p) \/ PollMessages(p)
      PROVE  TracesOK'
  BY <1>1, <1>3, SilentTraces
  DEF AppWaits, Poll, Join, PollReports, PollMessages, peerVars, libraryVars
<1>4. ASSUME NEW p \in Peers, HandleCommand(p)
      PROVE  TracesOK'
  BY <1>1, <1>4, CommandTraces
<1>5. ASSUME NEW p \in Peers, HandleEvent(p)
      PROVE  TracesOK'
  BY <1>1, <1>5, ReportTraces
<1>6. ASSUME NEW p \in Peers, HandleMessage(p)
      PROVE  TracesOK'
  BY <1>1, <1>6, HandleMessageTraces
<1>7. ASSUME NEW e \in Ends, NEW stream \in KnownStreams(Owner(e), e), AppSend(e, stream)
      PROVE  TracesOK'
  BY <1>1, <1>7, AppSendTraces
<1>8. ASSUME NEW e \in Ends, LibraryServes(e) \/ Library(Break(e))
      PROVE  TracesOK'
  BY <1>1, <1>8, LibraryTraces
<1>9. ASSUME NEW m \in loose, Library(CarryLoose(m))
      PROVE  TracesOK'
  BY <1>1, <1>9, CarryLooseTraces
<1>10. CASE UNCHANGED vars
  BY <1>1, <1>10, SilentTraces DEF vars, peerVars, libraryVars
<1>. QED
  BY <1>2, <1>3, <1>4, <1>5, <1>6, <1>7, <1>8, <1>9, <1>10 DEF Next, BackendStep

-------------------------------------------------------------------------------
(* What is carried *)

LEMMA CarriedTypes ==
    ASSUME TypeOK, NEW e \in Ends
    PROVE  /\ Other(e) \in Ends /\ Other(Other(e)) = e /\ Owner(e) \in Peers
           /\ accepted[e] \in Seq(Packet) /\ delivered[e] \in Seq(Packet)
           /\ wire[e] \in Seq(Packet) /\ wire[Other(e)] \in Seq(Packet)
           /\ inbox[Owner(e)] \in Seq(Received(EndsOf(Owner(e))))
           /\ Pick(inbox[Owner(e)], e) \in Seq(Packet)
           /\ delivered[e] \o Pick(inbox[Owner(e)], e) \in Seq(Packet)
           /\ Under(e) \in Seq(Packet)
<1>1. Other(e) \in Ends /\ Other(Other(e)) = e /\ Owner(e) \in Peers
  BY EndFacts
<1>2. /\ accepted[e] \in Seq(Packet) /\ delivered[e] \in Seq(Packet)
      /\ wire[e] \in Seq(Packet) /\ wire[Other(e)] \in Seq(Packet)
      /\ inbox[Owner(e)] \in Seq(Received(EndsOf(Owner(e))))
  BY <1>1 DEF TypeOK, HistoryTypeOK, LibraryTypeOK
<1>3. Pick(inbox[Owner(e)], e) \in Seq(Packet)
  BY <1>2, PickType
<1>4. delivered[e] \o Pick(inbox[Owner(e)], e) \in Seq(Packet)
  BY <1>2, <1>3, ConcatProperties
<1>5. Under(e) \in Seq(Packet)
  BY <1>2, <1>4, ConcatProperties DEF Under
<1>. QED
  BY <1>1, <1>2, <1>3, <1>4, <1>5

\* A message in an inbox is of an end of its owner.
LEMMA InboxEnds ==
    ASSUME TypeOK, NEW p \in Peers, NEW x \in Elems(inbox[p])
    PROVE  x.end \in EndsOf(p) /\ x.end \in Ends /\ Owner(x.end) = p
<1>1. x \in Received(EndsOf(p))
  BY ElemsType DEF TypeOK, LibraryTypeOK
<1>2. PICK e : e = x.end
  OBVIOUS
<1>3. e \in EndsOf(p)
  BY <1>1, <1>2 DEF Received
<1>. QED
  BY <1>2, <1>3, EndsOfFacts

LEMMA DeliversSame ==
    ASSUME NEW e \in Ends, Delivers(e), accepted'[Other(e)] = accepted[Other(e)],
           Under(e)' = Under(e), link[e] = "closed" => link'[e] = "closed",
           link[Other(e)] = "closed" => link'[Other(e)] = "closed"
    PROVE  Delivers(e)'
BY DEF Delivers

\* A step that carries nothing and closes nothing.
LEMMA SameCarried ==
    ASSUME TypeOK, CarriedOK, UNCHANGED <<wire, loose, inbox, accepted, delivered>>,
           mapped \subseteq mapped', \A d \in Ends : link'[d] = "closed" <=> link[d] = "closed"
    PROVE  CarriedOK'
<1>1. FlagsOK'
  BY DEF CarriedOK, FlagsOK
<1>2. InboxOK'
  <2> SUFFICES ASSUME NEW p \in Peers, NEW x \in Elems(inbox[p])
               PROVE  x.end \in mapped' /\ link'[x.end] # "closed"
    BY DEF InboxOK
  <2>1. x.end \in Ends
    BY InboxEnds
  <2>. QED
    BY <2>1 DEF CarriedOK, InboxOK
<1>3. ASSUME NEW e \in Ends PROVE Delivers(e)'
  <2>1. Under(e)' = Under(e) /\ Other(e) \in Ends
    BY EndFacts DEF Under
  <2>. QED
    BY <2>1, DeliversSame DEF CarriedOK, DeliversOK
<1>. QED
  BY <1>1, <1>2, <1>3 DEF CarriedOK, DeliversOK

\* What was on its way from an end that closes was the last from there.
LEMMA DroppedLast ==
    ASSUME NEW u \in Seq(Packet), NEW w \in Seq(Packet), NEW r \in Seq(Packet)
    PROVE  w \o r \in Seq(Packet) /\ (u \o w) \o r = (u \o <<>>) \o (w \o r)
BY ConcatProperties, ConcatAssociative, ConcatEmptySeq

LEMMA ClosingCarried ==
    ASSUME TypeOK, CarriedOK, Endure, NEW p \in Peers, NEW S, S \subseteq EndsOf(p), Closing(p, S),
           UNCHANGED <<accepted, delivered>>,
           \A d \in Ends : link'[d] = "closed" <=> d \in S \/ link[d] = "closed"
    PROVE  CarriedOK'
<1>1. /\ \A e \in Ends : wire'[e] = IF e \in S THEN <<>> ELSE wire[e]
      /\ loose' \subseteq loose
      /\ inbox' = [inbox EXCEPT ![p] = Without(inbox[p], S)]
  BY DEF Closing
<1>2. DOMAIN inbox = Peers /\ inbox[p] \in Seq(Received(EndsOf(p)))
  BY DEF TypeOK, LibraryTypeOK
<1>3. inbox'[p] = Without(inbox[p], S) /\ \A q \in Peers \ {p} : inbox'[q] = inbox[q]
  BY <1>1, <1>2
<1>4. FlagsOK'
  <2>1. Elems(<<>>) = {}
    BY DEF Elems
  <2>2. \A e \in Ends : \A m \in Elems(wire'[e]) : IsReliable(m.stream)
    BY <1>1, <2>1 DEF CarriedOK, FlagsOK
  <2>3. \A m \in loose' : ~IsReliable(m.packet.stream)
    BY <1>1 DEF CarriedOK, FlagsOK
  <2>. QED
    BY <2>2, <2>3 DEF FlagsOK, Elems, IsReliable
<1>5. InboxOK'
  <2>1. ASSUME NEW q \in Peers, NEW x \in Elems(inbox'[q])
        PROVE  x.end \in mapped' /\ link'[x.end] # "closed"
    <3>1. x \in Elems(inbox[q]) /\ x.end \notin S /\ x.end \in Ends
      <4>1. CASE q = p
        BY <1>2, <1>3, <2>1, <4>1, ElemsWithout, InboxEnds
      <4>2. CASE q # p
        <5>1. x \in Elems(inbox[q])
          BY <1>3, <2>1, <4>2
        <5>2. x.end \in Ends /\ Owner(x.end) = q
          BY <5>1, InboxEnds
        <5>. QED
          BY <4>2, <5>1, <5>2, EndsOfFacts
      <4>. QED
        BY <4>1, <4>2
    <3>2. x.end \in mapped /\ link[x.end] # "closed"
      BY <3>1 DEF CarriedOK, InboxOK
    <3>3. link'[x.end] # "closed"
      BY <3>1, <3>2
    <3>. QED
      BY <3>1, <3>2, <3>3 DEF Endure
  <2>. QED
    BY <2>1 DEF InboxOK, Elems
<1>6. ASSUME NEW e \in Ends PROVE Delivers(e)'
  <2> SUFFICES ASSUME link'[e] # "closed"
               PROVE  \E rest \in Seq(Packet) :
                         /\ accepted'[Other(e)] = Under(e)' \o rest
                         /\ link'[Other(e)] # "closed" => rest = <<>>
    BY DEF Delivers
  <2>1. PICK o \in Ends : o = Other(e)
    BY EndFacts
  <2>2. e \notin S /\ link[e] # "closed" /\ Delivers(e)
    BY DEF CarriedOK, DeliversOK
  <2>3. PICK rest \in Seq(Packet) :
            accepted[o] = Under(e) \o rest /\ (link[o] # "closed" => rest = <<>>)
    BY <2>1, <2>2 DEF Delivers
  <2>4. Pick(inbox'[Owner(e)], e) = Pick(inbox[Owner(e)], e)
    <3>1. CASE Owner(e) = p
      BY <1>2, <1>3, <2>2, <3>1, PickWithout
    <3>2. CASE Owner(e) # p
      BY <1>3, <3>2, EndFacts
    <3>. QED
      BY <3>1, <3>2
  <2>5. PICK u \in Seq(Packet), w \in Seq(Packet) :
            u = delivered[e] \o Pick(inbox[Owner(e)], e) /\ w = wire[o]
    BY <2>1, CarriedTypes
  <2>6. Under(e) = u \o w /\ Under(e)' = u \o wire'[o]
    BY <2>1, <2>4, <2>5 DEF Under
  <2>7. CASE o \in S
    <3>1. wire'[o] = <<>> /\ link'[o] = "closed"
      BY <1>1, <2>7
    <3>2. w \o rest \in Seq(Packet) /\ (u \o w) \o rest = (u \o <<>>) \o (w \o rest)
      BY <2>3, <2>5, DroppedLast
    <3>. QED
      BY <2>1, <2>3, <2>6, <3>1, <3>2
  <2>8. CASE o \notin S
    <3>1. wire'[o] = w /\ (link'[o] # "closed" => link[o] # "closed")
      BY <1>1, <2>5, <2>8
    <3>. QED
      BY <2>1, <2>3, <2>6, <3>1
  <2>. QED
    BY <2>7, <2>8
<1>. QED
  BY <1>4, <1>5, <1>6 DEF CarriedOK, DeliversOK


\* A packet goes to the end of what is on its way, which is all that is left.
LEMMA SentLast ==
    ASSUME NEW u \in Seq(Packet), NEW w \in Seq(Packet), NEW m \in Packet
    PROVE  Append((u \o w) \o <<>>, m) = (u \o Append(w, m)) \o <<>>
<1>1. u \o w \in Seq(Packet) /\ <<m>> \in Seq(Packet) /\ Append(w, m) \in Seq(Packet)
  BY ConcatProperties, AppendProperties
<1>2. u \o Append(w, m) \in Seq(Packet)
  BY <1>1, ConcatProperties
<1>3. Append((u \o w) \o <<>>, m) = (u \o w) \o <<m>>
  BY <1>1, ConcatEmptySeq, AppendIsConcat
<1>4. (u \o Append(w, m)) \o <<>> = u \o (w \o <<m>>)
  BY <1>1, <1>2, ConcatEmptySeq, AppendIsConcat
<1>5. (u \o w) \o <<m>> = u \o (w \o <<m>>)
  BY <1>1, ConcatAssociative
<1>. QED
  BY <1>3, <1>4, <1>5

LEMMA SendTakenCarried ==
    ASSUME TypeOK, CarriedOK, NEW p \in Peers, SendTaken(p)
    PROVE  CarriedOK'
<1>1. PICK e, m : e = HeadConn(p) /\ m = HeadPacket(p)
  OBVIOUS
<1>2. /\ HandlesQuietly(p, "Send") /\ Dispatch(e, m) /\ link[e] \in {"connecting", "up"}
      /\ UNCHANGED <<mapped, link, inbox, delivered>>
  BY <1>1 DEF SendTaken, backendVars
<1>3. e \in Ends /\ m \in Packet
  BY <1>1, <1>2, HeadParts, EndsOfFacts
<1>4. wire \in [Ends -> Seq(Packet)] /\ accepted \in [Ends -> Seq(Packet)]
  BY DEF TypeOK, LibraryTypeOK, HistoryTypeOK
<1>5. InboxOK'
  BY <1>2 DEF CarriedOK, InboxOK, Elems
<1>6. CASE IsReliable(m.stream)
  <2>1. /\ wire'[e] = Append(wire[e], m) /\ accepted'[e] = Append(accepted[e], m)
        /\ \A d \in Ends : d # e => wire'[d] = wire[d] /\ accepted'[d] = accepted[d]
        /\ loose' = loose
    BY <1>2, <1>3, <1>4, <1>6 DEF Dispatch
  <2>2. FlagsOK'
    <3>1. Elems(wire'[e]) = Elems(wire[e]) \cup {m}
      BY <1>3, <1>4, <2>1, ElemsAppend
    <3>2. \A d \in Ends : \A x \in Elems(wire'[d]) : IsReliable(x.stream)
      BY <1>6, <2>1, <3>1 DEF CarriedOK, FlagsOK
    <3>3. \A x \in loose' : ~IsReliable(x.packet.stream)
      BY <2>1 DEF CarriedOK, FlagsOK
    <3>. QED
      BY <3>2, <3>3 DEF FlagsOK, Elems, IsReliable
  <2>3. PICK d \in Ends : d = Other(e) /\ Other(d) = e
    BY <1>3, EndFacts
  <2>4. Delivers(d)'
    <3> SUFFICES ASSUME link'[d] # "closed"
                 PROVE  /\ accepted'[Other(d)] = Under(d)' \o <<>>
                        /\ <<>> \in Seq(Packet)
      BY DEF Delivers
    <3>1. link[d] # "closed" /\ link[e] # "closed"
      BY <1>2
    <3>2. accepted[e] = Under(d) \o <<>>
      BY <2>3, <3>1 DEF CarriedOK, DeliversOK, Delivers
    <3>3. PICK u \in Seq(Packet), w \in Seq(Packet) :
              u = delivered[d] \o Pick(inbox[Owner(d)], d) /\ w = wire[e]
      BY <2>3, CarriedTypes
    <3>4. Under(d) = u \o w /\ Under(d)' = u \o Append(w, m)
      BY <1>2, <2>1, <2>3, <3>3 DEF Under
    <3>5. Append((u \o w) \o <<>>, m) = (u \o Append(w, m)) \o <<>>
      BY <1>3, <3>3, SentLast
    <3>. QED
      BY <2>1, <2>3, <3>2, <3>4, <3>5, EmptySeq
  <2>5. ASSUME NEW f \in Ends, f # d PROVE Delivers(f)'
    <3>1. Other(f) \in Ends /\ Other(f) # e
      BY <2>3, <2>5, EndFacts
    <3>2. accepted'[Other(f)] = accepted[Other(f)] /\ Under(f)' = Under(f)
      BY <1>2, <2>1, <3>1 DEF Under
    <3>. QED
      BY <1>2, <3>2, DeliversSame DEF CarriedOK, DeliversOK
  <2>. QED
    BY <1>5, <2>2, <2>4, <2>5 DEF CarriedOK, DeliversOK
<1>7. CASE ~IsReliable(m.stream)
  <2>1. loose' = loose \cup {[end |-> e, packet |-> m]} /\ UNCHANGED <<wire, accepted>>
    BY <1>2, <1>7 DEF Dispatch
  <2>2. \A x \in loose' : ~IsReliable(x.packet.stream)
    BY <1>7, <2>1 DEF CarriedOK, FlagsOK
  <2>3. FlagsOK'
    BY <2>1, <2>2 DEF CarriedOK, FlagsOK, Elems, IsReliable
  <2>4. ASSUME NEW f \in Ends PROVE Delivers(f)'
    <3>1. Under(f)' = Under(f) /\ Other(f) \in Ends
      BY <1>2, <2>1, EndFacts DEF Under
    <3>. QED
      BY <1>2, <2>1, <3>1, DeliversSame DEF CarriedOK, DeliversOK
  <2>. QED
    BY <1>5, <2>3, <2>4 DEF CarriedOK, DeliversOK
<1>. QED
  BY <1>6, <1>7


\* The packet that arrives moves from one queue to the one before it.
LEMMA MovesOn ==
    ASSUME NEW u \in Seq(Packet), NEW v \in Seq(Packet), NEW w \in Seq(Packet), w # <<>>
    PROVE  (u \o Append(v, Head(w))) \o Tail(w) = (u \o v) \o w
<1>1. PICK h \in Packet, t \in Seq(Packet) : h = Head(w) /\ t = Tail(w)
  BY HeadTailProperties
<1>2. w = <<h>> \o t
  BY <1>1, HeadTailConcat
<1>3. /\ u \o v \in Seq(Packet) /\ <<h>> \in Seq(Packet) /\ (u \o v) \o <<h>> \in Seq(Packet)
  BY ConcatProperties
<1>4. Append(v, h) = v \o <<h>>
  BY AppendIsConcat
<1>5. u \o (v \o <<h>>) = (u \o v) \o <<h>>
  BY <1>3, ConcatAssociative
<1>6. ((u \o v) \o <<h>>) \o t = (u \o v) \o (<<h>> \o t)
  BY <1>3, ConcatAssociative
<1>. QED
  BY <1>1, <1>2, <1>4, <1>5, <1>6

\* A message arrives at an end that has its uuid: a dialing end for the trace
\* of its beginning, an accepting one because accepting it gave it one.
LEMMA ArrivesCarried ==
    ASSUME TypeOK, LinksOK, CarriedOK, NEW e \in Ends, NEW m \in Packet, link[e] = "up",
           inbox' = [inbox EXCEPT ![Owner(e)] = Append(@, [end |-> e, packet |-> m])],
           Begun(Other(e)), loose' \subseteq loose, UNCHANGED <<mapped, link, accepted, delivered>>,
           \/ /\ IsReliable(m.stream) /\ wire[Other(e)] # <<>> /\ m = Head(wire[Other(e)])
              /\ wire' = [wire EXCEPT ![Other(e)] = Tail(@)]
           \/ ~IsReliable(m.stream) /\ UNCHANGED wire
    PROVE  CarriedOK'
<1>1. PICK o \in Peers, f \in Ends : o = Owner(e) /\ f = Other(e) /\ Other(f) = e
  BY EndFacts
<1>2. PICK x \in Received(EndsOf(o)) : x = [end |-> e, packet |-> m]
  BY <1>1, EndFacts DEF Received
<1>3. /\ inbox' = [inbox EXCEPT ![o] = Append(@, x)] /\ DOMAIN inbox = Peers
      /\ inbox[o] \in Seq(Received(EndsOf(o))) /\ wire \in [Ends -> Seq(Packet)]
  BY <1>1, <1>2 DEF TypeOK, LibraryTypeOK
<1>4. /\ inbox'[o] = Append(inbox[o], x) /\ \A q \in Peers \ {o} : inbox'[q] = inbox[q]
      /\ Elems(inbox'[o]) = Elems(inbox[o]) \cup {x}
  BY <1>3, ElemsAppend
<1>5. e \in mapped
  <2>1. e \in mapped \/ e[2] = "dial"
    BY DEF LinksOK, LinkOK
  <2>2. CASE e[2] = "dial"
    BY <2>2, DialOfFacts DEF Begun
  <2>. QED
    BY <2>1, <2>2
<1>6. InboxOK'
  <2>1. \A q \in Peers : \A y \in Elems(inbox'[q]) : y.end \in mapped /\ link[y.end] # "closed"
    BY <1>2, <1>4, <1>5 DEF CarriedOK, InboxOK
  <2>. QED
    BY <2>1 DEF InboxOK, Elems
<1>7. /\ wire'[f] = (IF IsReliable(m.stream) THEN Tail(wire[f]) ELSE wire[f])
      /\ IsReliable(m.stream) => wire[f] # <<>> /\ m = Head(wire[f])
      /\ \A d \in Ends : d # f => wire'[d] = wire[d]
  BY <1>1, <1>3
<1>8. FlagsOK'
  <2>1. Elems(wire'[f]) \subseteq Elems(wire[f])
    BY <1>3, <1>7, ElemsTail
  <2>2. \A d \in Ends : \A y \in Elems(wire'[d]) : IsReliable(y.stream)
    BY <1>7, <2>1 DEF CarriedOK, FlagsOK
  <2>3. \A y \in loose' : ~IsReliable(y.packet.stream)
    BY DEF CarriedOK, FlagsOK
  <2>. QED
    BY <2>2, <2>3 DEF FlagsOK, Elems, IsReliable
<1>9. ASSUME NEW d \in Ends, d # e \/ ~IsReliable(m.stream)
      PROVE  Pick(inbox'[Owner(d)], d) = Pick(inbox[Owner(d)], d)
  <2>1. CASE Owner(d) = o
    <3>1. ~Relevant(x, d)
      BY <1>2, <1>9 DEF Relevant
    <3>2. Pick(Append(inbox[o], x), d) = Pick(inbox[o], d)
      BY <1>3, <3>1, PickAppend
    <3>. QED
      BY <1>4, <2>1, <3>2
  <2>2. CASE Owner(d) # o
    BY <1>4, <2>2, EndFacts
  <2>. QED
    BY <2>1, <2>2
<1>10. ASSUME NEW d \in Ends PROVE Delivers(d)'
  <2>1. Under(d)' = Under(d)
    <3>1. CASE d = e /\ IsReliable(m.stream)
      <4>1. Relevant(x, e) /\ x.packet = m
        BY <1>2, <3>1 DEF Relevant
      <4>2. Pick(inbox'[o], e) = Append(Pick(inbox[o], e), m)
        BY <1>3, <1>4, <4>1, PickAppend
      <4>3. PICK u \in Seq(Packet), v \in Seq(Packet), w \in Seq(Packet) :
                u = delivered[e] /\ v = Pick(inbox[o], e) /\ w = wire[f]
        BY <1>1, CarriedTypes
      <4>4. wire'[f] = Tail(w) /\ w # <<>> /\ m = Head(w)
        BY <1>7, <3>1, <4>3
      <4>5. Under(e) = (u \o v) \o w /\ Under(e)' = (u \o Append(v, Head(w))) \o Tail(w)
        BY <1>1, <4>2, <4>3, <4>4 DEF Under
      <4>. QED
        BY <3>1, <4>3, <4>4, <4>5, MovesOn
    <3>2. CASE d # e \/ ~IsReliable(m.stream)
      <4>1. wire'[Other(d)] = wire[Other(d)]
        BY <1>1, <1>7, <3>2, EndFacts
      <4>2. Pick(inbox'[Owner(d)], d) = Pick(inbox[Owner(d)], d)
        BY <1>9, <3>2
      <4>. QED
        BY <4>1, <4>2 DEF Under
    <3>. QED
      BY <3>1, <3>2
  <2>. QED
    BY <2>1, DeliversSame, EndFacts DEF CarriedOK, DeliversOK
<1>. QED
  BY <1>6, <1>8, <1>10 DEF CarriedOK, DeliversOK

LEMMA LibraryCarried ==
    ASSUME TypeOK, LinksOK, TracesOK, CarriedOK, NEW e \in Ends,
           LibraryServes(e) \/ Library(Break(e))
    PROVE  CarriedOK'
<1>1. UNCHANGED <<mapped, accepted, delivered>>
  BY DEF LibraryServes, Library, backendVars, historyVars
<1>2. CASE Library(Carry(e))
  <2>1. /\ wire[e] # <<>> /\ wire' = [wire EXCEPT ![e] = Tail(@)] /\ UNCHANGED <<loose, link>>
        /\ link[Other(e)] = "up"
        /\ inbox' = [inbox EXCEPT ![Owner(Other(e))] =
                         Append(@, [end |-> Other(e), packet |-> Head(wire[e])])]
    BY <1>2 DEF Library, Carry
  <2>2. PICK f, m : f = Other(e) /\ m = Head(wire[e])
    OBVIOUS
  <2>3. f \in Ends /\ Other(f) = e /\ m \in Packet /\ m \in Elems(wire[e])
    BY <2>1, <2>2, EndFacts, HeadTailProperties, ElemsTail DEF TypeOK, LibraryTypeOK
  <2>4. Begun(Other(f)) /\ IsReliable(m.stream)
    BY <2>1, <2>3 DEF TracesOK, CarriedOK, FlagsOK
  <2>5. inbox' = [inbox EXCEPT ![Owner(f)] = Append(@, [end |-> f, packet |-> m])]
    BY <2>1, <2>2
  <2>. QED
    BY <1>1, <2>1, <2>2, <2>3, <2>4, <2>5, ArrivesCarried
<1>3. CASE UNCHANGED <<wire, loose, inbox>>
  <2>1. \/ UNCHANGED link
        \/ /\ link[e] # "closed" /\ \E state \in LinkState \ {"closed"} :
                                        link' = [link EXCEPT ![e] = state]
    BY <1>3 DEF LibraryServes, Library, Arrive, Complete, Carry, Notice, Break, Lose, LinkState
  <2>2. \A d \in Ends : link'[d] = "closed" <=> link[d] = "closed"
    BY <2>1 DEF TypeOK, LibraryTypeOK
  <2>. QED
    BY <1>1, <1>3, <2>2, SameCarried
<1>. QED
  BY <1>2, <1>3 DEF LibraryServes, Library, Arrive, Complete, Notice, Break, Lose

LEMMA CarryLooseCarried ==
    ASSUME TypeOK, LinksOK, TracesOK, CarriedOK, NEW x \in loose, Library(CarryLoose(x))
    PROVE  CarriedOK'
<1>1. PICK e, m : e = Other(x.end) /\ m = x.packet
  OBVIOUS
<1>2. e \in Ends /\ Other(e) = x.end /\ m \in Packet
  BY <1>1, EndFacts DEF TypeOK, LibraryTypeOK, Received
<1>3. /\ inbox' = [inbox EXCEPT ![Owner(e)] = Append(@, [end |-> e, packet |-> m])]
      /\ loose' \subseteq loose /\ link[e] = "up"
      /\ UNCHANGED <<wire, link, mapped, accepted, delivered>>
  BY <1>1 DEF Library, CarryLoose, backendVars, historyVars
<1>4. Begun(Other(e)) /\ ~IsReliable(m.stream)
  BY <1>1, <1>2 DEF TracesOK, CarriedOK, FlagsOK
<1>. QED
  BY <1>2, <1>3, <1>4, ArrivesCarried


\* The head of an inbox is of an end that is in the maps.
LEMMA HeadCarried ==
    ASSUME TypeOK, LeftOK, CarriedOK, NEW p \in Peers, HandleMessage(p)
    PROVE  \E e \in Ends, m \in Packet :
               /\ e = Head(inbox[p]).end /\ m = Head(inbox[p]).packet
               /\ e \in mapped /\ link[e] # "closed" /\ Owner(e) = p
               /\ delivered' = IF IsReliable(m.stream)
                               THEN [delivered EXCEPT ![e] = Append(@, m)] ELSE delivered
<1>1. PICK e, m : e = Head(inbox[p]).end /\ m = Head(inbox[p]).packet
  OBVIOUS
<1>2. /\ e \in Ends /\ Owner(e) = p /\ m \in Packet /\ inbox[p] # <<>>
      /\ inbox[p] \in Seq(Received(EndsOf(p)))
  BY <1>1, HeadMessage
<1>3. Head(inbox[p]) \in Elems(inbox[p])
  BY <1>2, ElemsTail
<1>4. e \in mapped /\ link[e] # "closed"
  BY <1>1, <1>3 DEF CarriedOK, InboxOK
<1>5. delivered' = IF IsReliable(m.stream)
                   THEN [delivered EXCEPT ![e] = Append(@, m)] ELSE delivered
  BY <1>1, <1>4 DEF HandleMessage
<1>. QED
  BY <1>1, <1>2, <1>4, <1>5

\* What is delivered moves from the head of the inbox.
LEMMA DeliveredLast ==
    ASSUME NEW u \in Seq(Packet), NEW v \in Seq(Packet), NEW m \in Packet
    PROVE  Append(u, m) \o v = u \o (<<m>> \o v)
<1>1. <<m>> \in Seq(Packet)
  OBVIOUS
<1>. QED
  BY <1>1, AppendIsConcat, ConcatAssociative

LEMMA HandleMessageCarried ==
    ASSUME TypeOK, LeftOK, CarriedOK, NEW p \in Peers, HandleMessage(p)
    PROVE  CarriedOK'
<1>1. PICK e \in Ends, m \in Packet :
          /\ e = Head(inbox[p]).end /\ m = Head(inbox[p]).packet
          /\ e \in mapped /\ link[e] # "closed" /\ Owner(e) = p
          /\ delivered' = IF IsReliable(m.stream)
                          THEN [delivered EXCEPT ![e] = Append(@, m)] ELSE delivered
  BY HeadCarried
<1>2. /\ inbox[p] \in Seq(Received(EndsOf(p))) /\ inbox[p] # <<>>
      /\ inbox'[p] = Tail(inbox[p]) /\ \A q \in Peers \ {p} : inbox'[q] = inbox[q]
      /\ UNCHANGED <<mapped, link, wire, loose, accepted>>
  BY HeadMessage
<1>3. FlagsOK'
  BY <1>2 DEF CarriedOK, FlagsOK, Elems, IsReliable
<1>4. InboxOK'
  <2>1. Elems(inbox'[p]) \subseteq Elems(inbox[p])
    BY <1>2, ElemsTail
  <2>2. \A q \in Peers : \A y \in Elems(inbox'[q]) : y.end \in mapped /\ link[y.end] # "closed"
    BY <1>2, <2>1 DEF CarriedOK, InboxOK
  <2>. QED
    BY <1>2, <2>2 DEF InboxOK, Elems
<1>5. delivered \in [Ends -> Seq(Packet)]
  BY DEF TypeOK, HistoryTypeOK
<1>7. TypeOK
  OBVIOUS
<1>6. ASSUME NEW d \in Ends PROVE Delivers(d)'
  <2>0. PICK v : v = Pick(inbox'[Owner(d)], d)
    OBVIOUS
  <2>1. PICK u \in Seq(Packet), o \in Ends :
            u = delivered[d] /\ v = Pick(inbox'[Owner(d)], d) /\ o = Other(d)
    BY <2>0, <1>7, CarriedTypes
  <2>2. Under(d)' = (delivered'[d] \o v) \o wire[o] /\ Under(d) = (u \o Pick(inbox[Owner(d)], d)) \o wire[o]
    BY <1>2, <2>1 DEF Under
  <2>3. delivered'[d] \o v = u \o Pick(inbox[Owner(d)], d)
    <3>1. CASE Owner(d) # p
      <4>1. inbox'[Owner(d)] = inbox[Owner(d)] /\ d # e
        BY <1>1, <1>2, <3>1, EndFacts
      <4>. QED
        BY <1>1, <1>5, <2>1, <4>1
    <3>2. CASE Owner(d) = p
      <4>1. v \in Seq(Packet)
        BY <1>2, <2>1, <3>2, HeadTailProperties, PickType
      <4>2. Pick(inbox[p], d) = First(Head(inbox[p]), d) \o v
        BY <1>2, <2>1, <3>2, PickTail
      <4>3. CASE d = e /\ IsReliable(m.stream)
        <5>1. First(Head(inbox[p]), d) = <<m>> /\ delivered'[d] = Append(u, m)
          BY <1>1, <1>5, <2>1, <4>3 DEF First, Relevant
        <5>2. Append(u, m) \o v = u \o (<<m>> \o v)
          BY <4>1, DeliveredLast
        <5>. QED
          BY <3>2, <4>2, <5>1, <5>2
      <4>4. CASE d # e \/ ~IsReliable(m.stream)
        <5>1. ~Relevant(Head(inbox[p]), d)
          BY <1>1, <4>4 DEF Relevant
        <5>2. First(Head(inbox[p]), d) = <<>>
          BY <5>1 DEF First
        <5>3. delivered'[d] = u
          BY <1>1, <1>5, <2>1, <4>4
        <5>4. <<>> \o v = v
          BY <4>1, ConcatEmptySeq
        <5>. QED
          BY <3>2, <4>2, <5>2, <5>3, <5>4
      <4>. QED
        BY <4>3, <4>4
    <3>. QED
      BY <3>1, <3>2
  <2>4. Under(d)' = Under(d)
    BY <2>2, <2>3
  <2>. QED
    BY <1>2, <2>4, DeliversSame, EndFacts DEF CarriedOK, DeliversOK
<1>. QED
  BY <1>3, <1>4, <1>6 DEF CarriedOK, DeliversOK

-------------------------------------------------------------------------------
(* The commands and the reports *)

LEMMA CommandCarried ==
    ASSUME IndType, LinksOK, CarriedOK, NEW p \in Peers, HandleCommand(p)
    PROVE  CarriedOK'
<1>1. TypeOK /\ DialsOK /\ Endure
  BY CommandEndures DEF IndType
<1>2. CASE (p = Server /\ Bind) \/ ConnectFails(p) \/ SendDropped(p) \/ AnswerStream(p)
  BY <1>1, <1>2, SameCarried
  DEF Bind, ConnectFails, SendDropped, AnswerStream, libraryVars, historyVars, backendVars
<1>3. CASE p \in Clients /\ Connect(p)
  <2>1. dials[p] < MaxDials
    BY <1>1, <1>3, TakenDials DEF Connect
  <2>2. PICK e : e = <<<<p, dials[p] + 1>>, "dial">>
    OBVIOUS
  <2>3. /\ Closing(p, socket[p]) /\ UNCHANGED <<accepted, delivered>>
        /\ \A d \in Ends : link'[d] = IF d = e THEN "connecting"
                                      ELSE IF d \in socket[p] THEN "closed" ELSE link[d]
    BY <1>3, <2>2 DEF Connect, historyVars
  <2>4. e \in Ends /\ link[e] = "none" /\ e \notin socket[p]
    <3>1. dials[p] \in 0 .. MaxDials /\ MaxDials \in Nat
      BY <1>1, <1>3, GnsAssumption DEF TypeOK, SocketTypeOK
    <3>2. dials[p] + 1 \in 1 .. MaxDials /\ dials[p] + 1 > dials[p]
      BY <2>1, <3>1
    <3>3. e \in Ends /\ e[2] = "dial" /\ e[1][1] = p /\ e[1][2] = dials[p] + 1 /\ Owner(e) = p
      BY <1>3, <2>2, <3>2 DEF Ends, Owner
    <3>. QED
      BY <3>2, <3>3 DEF LinksOK, FreshOK, Held
  <2>5. \A d \in Ends : link'[d] = "closed" <=> d \in socket[p] \/ link[d] = "closed"
    BY <2>3, <2>4
  <2>6. socket[p] \subseteq EndsOf(p)
    BY <1>1 DEF TypeOK, SocketTypeOK
  <2>. QED
    BY <1>1, <2>3, <2>5, <2>6, ClosingCarried
<1>4. CASE Stop(p)
  <2>1. PICK S : S = {e \in socket[p] : link[e] # "none"}
    OBVIOUS
  <2>2. /\ Closing(p, S) /\ UNCHANGED <<accepted, delivered>>
        /\ link' = [e \in Ends |-> IF e \in S THEN "closed" ELSE link[e]]
    BY <1>4, <2>1 DEF Stop, CloseEnds, historyVars
  <2>3. S \subseteq EndsOf(p)
    BY <1>1, <2>1 DEF TypeOK, SocketTypeOK
  <2>4. \A d \in Ends : link'[d] = "closed" <=> d \in S \/ link[d] = "closed"
    BY <2>2
  <2>. QED
    BY <1>1, <2>2, <2>3, <2>4, ClosingCarried
<1>. QED
  BY <1>1, <1>2, <1>3, <1>4, SendTakenCarried DEF HandleCommand, BindFails, BackendShutdown

LEMMA EventCarried ==
    ASSUME IndType, LinksOK, CarriedOK, NEW p \in Peers, HandleEvent(p)
    PROVE  CarriedOK'
<1>1. TypeOK /\ Endure /\ link \in [Ends -> LinkState]
  BY EventEndures DEF IndType, TypeOK, LibraryTypeOK
<1>2. PICK e : e = Head(reports[p]).end
  OBVIOUS
<1>3. PICK state : HandlesReport(p, state)
  BY DEF HandleEvent, HandleConnecting, HandleConnected, HandleEnded
<1>4. e \in EndsOf(p) /\ UNCHANGED <<accepted, delivered>>
  <2>1. e \in EndsOf(p)
    BY <1>1, <1>2, <1>3, HeadLink
  <2>2. UNCHANGED <<accepted, delivered>>
    BY <1>3 DEF HandlesReport, historyVars
  <2>. QED
    BY <2>1, <2>2
<1>5. CASE HandleConnecting(p) \/ HandleConnected(p)
  <2>1. /\ mapped \subseteq mapped' /\ UNCHANGED <<wire, loose, inbox>>
        /\ UNCHANGED link \/ (link[e] = "connecting" /\ link' = [link EXCEPT ![e] = "up"])
    BY <1>2, <1>5 DEF HandleConnecting, HandleConnected, Registers, RegistersIfNew
  <2>2. \A d \in Ends : link'[d] = "closed" <=> link[d] = "closed"
    BY <1>1, <2>1
  <2>. QED
    BY <1>1, <1>4, <2>1, <2>2, SameCarried
<1>6. CASE HandleEnded(p)
  <2>1. Closing(p, {e}) /\ link' = [d \in Ends |-> IF d \in {e} THEN "closed" ELSE link[d]]
    BY <1>2, <1>6 DEF HandleEnded, CloseEnds
  <2>2. \A d \in Ends : link'[d] = "closed" <=> d \in {e} \/ link[d] = "closed"
    BY <2>1
  <2>. QED
    BY <1>1, <1>4, <2>1, <2>2, ClosingCarried
<1>. QED
  BY <1>5, <1>6 DEF HandleEvent

LEMMA CarriedStep ==
    ASSUME IndType, LinksOK, TracesOK, CarriedOK, [Next]_vars
    PROVE  CarriedOK'
<1>1. TypeOK /\ LeftOK
  BY DEF IndType
<1>2. CASE UNCHANGED <<wire, loose, inbox, accepted, delivered, mapped, link>>
  BY <1>1, <1>2, SameCarried
<1>3. ASSUME NEW p \in Peers, AppCall(p) \/ AppWaits(p) \/ PollReports(p) \/ PollMessages(p)
      PROVE  CarriedOK'
  BY <1>2, <1>3
  DEF AppCall, AppWaits, PollReports, PollMessages, libraryVars, backendVars, historyVars
<1>4. ASSUME NEW p \in Peers, HandleCommand(p) \/ HandleEvent(p) \/ HandleMessage(p)
      PROVE  CarriedOK'
  BY <1>1, <1>4, CommandCarried, EventCarried, HandleMessageCarried
<1>5. ASSUME NEW e \in Ends, NEW stream \in KnownStreams(Owner(e), e), AppSend(e, stream)
      PROVE  CarriedOK'
  BY <1>2, <1>5 DEF AppSend, libraryVars, backendVars
<1>6. ASSUME NEW e \in Ends, LibraryServes(e) \/ Library(Break(e))
      PROVE  CarriedOK'
  BY <1>1, <1>6, LibraryCarried
<1>7. ASSUME NEW m \in loose, Library(CarryLoose(m))
      PROVE  CarriedOK'
  BY <1>1, <1>7, CarryLooseCarried
<1>8. CASE UNCHANGED vars
  BY <1>2, <1>8 DEF vars, libraryVars, backendVars, historyVars
<1>. QED
  BY <1>3, <1>4, <1>5, <1>6, <1>7, <1>8 DEF Next, BackendStep

\* In the beginning nothing was said and nothing is on its way.
LEMMA CarriedInit ==
    ASSUME Init
    PROVE  TracesOK /\ CarriedOK
<1>1. /\ \A p \in Peers : inbox[p] = <<>> /\ cmds[p] = <<>> /\ events[p] = <<>>
      /\ \A e \in Ends : wire[e] = <<>> /\ accepted[e] = <<>> /\ delivered[e] = <<>>
      /\ loose = {}
  BY DEF Init, PeerInit
<1>2. Elems(<<>>) = {}
  BY DEF Elems
<1>3. TracesOK
  BY <1>1, <1>2 DEF TracesOK, Queued, Told
<1>4. FlagsOK /\ InboxOK
  BY <1>1, <1>2 DEF FlagsOK, InboxOK
<1>5. ASSUME NEW e \in Ends PROVE Delivers(e)
  <2>1. Pick(<<>>, e) = <<>>
    BY NothingPicked
  <2>2. <<>> \in Seq(Packet) /\ (<<>> \o <<>>) \o <<>> = <<>> /\ <<>> \o <<>> = <<>>
    BY EmptySeq, ConcatEmptySeq
  <2>3. Other(e) \in Ends /\ Owner(e) \in Peers
    BY EndFacts
  <2>4. Under(e) = (<<>> \o <<>>) \o <<>>
    BY <1>1, <2>1, <2>3 DEF Under
  <2>5. accepted[Other(e)] = Under(e) \o <<>>
    BY <1>1, <2>2, <2>3, <2>4
  <2>. QED
    BY <2>2, <2>5 DEF Delivers
<1>. QED
  BY <1>3, <1>4, <1>5 DEF CarriedOK, DeliversOK


-------------------------------------------------------------------------------
(* The backends implement the reliable links *)

LEMMA ReliableInit == Init => Links!Init
<1> SUFFICES ASSUME Init PROVE Links!Init
  OBVIOUS
<1>1. \A e \in Ends : link[e] # "closed"
  BY DEF Init
<1>2. {e \in Ends : link[e] = "closed"} = {}
  BY <1>1
<1>. QED
  BY <1>2 DEF Init, Links!Init

\* A step that neither accepts nor delivers.
LEMMA ReliableLeave ==
    ASSUME Endure, UNCHANGED <<accepted, delivered>>
    PROVE  Links!Next
<1> DEFINE now == {e \in Ends : link[e] = "closed"}
           then == {e \in Ends : link'[e] = "closed"}
<1>1. then \in SUBSET Ends /\ now' = then /\ now \subseteq then
  BY DEF Endure
<1>2. Links!Leave
  BY <1>1 DEF Links!Leave
<1>. QED
  BY <1>2 DEF Links!Next

\* The library takes a reliable message on an end that is not closed.
LEMMA ReliableAccept ==
    ASSUME TypeOK, Endure, NEW p \in Peers, SendTaken(p)
    PROVE  Links!Next
<1>1. PICK e, m : e = HeadConn(p) /\ m = HeadPacket(p)
  OBVIOUS
<1>2. /\ HandlesQuietly(p, "Send") /\ Dispatch(e, m) /\ link[e] \in {"connecting", "up"}
      /\ UNCHANGED <<link, delivered>>
  BY <1>1 DEF SendTaken
<1>3. e \in Ends /\ m \in Packet
  BY <1>1, <1>2, HeadParts, EndsOfFacts
<1>4. CASE IsReliable(m.stream)
  <2>1. accepted' = [accepted EXCEPT ![e] = Append(@, m)]
    BY <1>2, <1>4 DEF Dispatch
  <2>2. Links!Accept(e, m)
    BY <1>2, <1>3, <2>1 DEF Links!Accept
  <2>. QED
    BY <1>3, <2>2 DEF Links!Next
<1>5. CASE ~IsReliable(m.stream)
  <2>1. UNCHANGED <<accepted, delivered>>
    BY <1>2, <1>5 DEF Dispatch
  <2>. QED
    BY <2>1, ReliableLeave
<1>. QED
  BY <1>4, <1>5

LEMMA HeadOfConcat ==
    ASSUME NEW m \in Packet, NEW t \in Seq(Packet), NEW s, s = <<m>> \o t
    PROVE  s \in Seq(Packet) /\ s # <<>> /\ Head(s) = m
<1>1. <<m>> \in Seq(Packet) /\ Len(<<m>>) = 1 /\ <<m>>[1] = m /\ Len(t) \in Nat
  BY LenProperties
<1>2. s \in Seq(Packet) /\ Len(s) = 1 + Len(t) /\ s[1] = m
  BY <1>1, ConcatProperties
<1>. QED
  BY <1>1, <1>2, EmptySeq, HeadTailProperties

\* m is the packet of a that follows those of d.
Follows(m, d, a) == Len(d) < Len(a) /\ a[Len(d) + 1] = m

LEMMA FirstWaiting ==
    ASSUME NEW d \in Seq(Packet), NEW s \in Seq(Packet), s # <<>>,
           NEW w \in Seq(Packet), NEW r \in Seq(Packet)
    PROVE  Follows(Head(s), d, ((d \o s) \o w) \o r)
<1>1. PICK q \in Seq(Packet) : q = w \o r
  BY ConcatProperties
<1>2. PICK ds \in Seq(Packet) : ds = d \o s
  BY ConcatProperties
<1>3. (ds \o w) \o r = ds \o q
  BY <1>1, ConcatAssociative
<1>4. Len(d) < Len((d \o s) \o q) /\ ((d \o s) \o q)[Len(d) + 1] = Head(s)
  BY NextAfterPrefix
<1>. QED
  BY <1>2, <1>3, <1>4 DEF Follows

\* A message of a reliable stream is the oldest that was not delivered.
LEMMA ReliableDeliver ==
    ASSUME TypeOK, LeftOK, CarriedOK, Endure, NEW p \in Peers, HandleMessage(p)
    PROVE  Links!Next
<1>1. PICK e \in Ends, m \in Packet :
          /\ e = Head(inbox[p]).end /\ m = Head(inbox[p]).packet
          /\ e \in mapped /\ link[e] # "closed" /\ Owner(e) = p
          /\ delivered' = IF IsReliable(m.stream)
                          THEN [delivered EXCEPT ![e] = Append(@, m)] ELSE delivered
  BY HeadCarried
<1>2. /\ inbox[p] \in Seq(Received(EndsOf(p))) /\ inbox[p] # <<>> /\ UNCHANGED <<link, accepted>>
      /\ delivered \in [Ends -> Seq(Packet)]
  BY HeadMessage DEF TypeOK, HistoryTypeOK
<1>3. CASE IsReliable(m.stream)
  <2>1. PICK o \in Ends : o = Other(e) /\ [d \in Ends |-> Other(d)][e] = o
    BY EndFacts
  <2>2. PICK rest \in Seq(Packet) : accepted[o] = Under(e) \o rest
    BY <1>1, <2>1 DEF CarriedOK, DeliversOK, Delivers
  <2>3. PICK s \in Seq(Packet) : s = Pick(inbox[p], e) /\ s # <<>> /\ Head(s) = m
    <3>1. Tail(inbox[p]) \in Seq(Received(EndsOf(p)))
      BY <1>2, HeadTailProperties
    <3>2. PICK t \in Seq(Packet) : t = Pick(Tail(inbox[p]), e)
      BY <3>1, PickType
    <3>3. First(Head(inbox[p]), e) = <<m>>
      BY <1>1, <1>3 DEF First, Relevant
    <3>4. PICK s : s = Pick(inbox[p], e) /\ s = <<m>> \o t
      BY <1>2, <3>2, <3>3, PickTail
    <3>. QED
      BY <1>1, <3>2, <3>4, HeadOfConcat
  <2>4. PICK d \in Seq(Packet), w \in Seq(Packet) : d = delivered[e] /\ w = wire[o]
    BY <2>1, CarriedTypes
  <2>5. accepted[o] = ((d \o s) \o w) \o rest
    BY <1>1, <2>1, <2>2, <2>3, <2>4 DEF Under
  <2>6. Follows(Head(s), d, ((d \o s) \o w) \o rest)
    BY <2>2, <2>3, <2>4, FirstWaiting
  <2>7. Len(delivered[e]) < Len(accepted[o]) /\ accepted[o][Len(delivered[e]) + 1] = m
    BY <2>3, <2>4, <2>5, <2>6 DEF Follows
  <2>8. delivered' = [delivered EXCEPT ![e] = Append(@, accepted[o][Len(@) + 1])]
    BY <1>1, <1>2, <1>3, <2>7
  <2>9. Links!Deliver(e)
    BY <1>1, <1>2, <2>1, <2>7, <2>8 DEF Links!Deliver
  <2>. QED
    BY <2>9 DEF Links!Next
<1>4. CASE ~IsReliable(m.stream)
  BY <1>1, <1>2, <1>4, ReliableLeave
<1>. QED
  BY <1>3, <1>4

LEMMA ReliableStep ==
    ASSUME IndType, LinksOK, CarriedOK, [Next]_vars
    PROVE  [Links!Next]_(Links!linkVars)
<1>1. TypeOK /\ LeftOK /\ Endure
  BY StepEndures DEF IndType
<1>2. CASE UNCHANGED <<accepted, delivered>>
  BY <1>1, <1>2, ReliableLeave
<1>3. ASSUME NEW p \in Peers, HandleCommand(p)
      PROVE  Links!Next
  <2>1. CASE SendTaken(p)
    BY <1>1, <2>1, ReliableAccept
  <2>2. CASE UNCHANGED <<accepted, delivered>>
    BY <1>1, <2>2, ReliableLeave
  <2>. QED
    BY <1>3, <2>1, <2>2
    DEF HandleCommand, Bind, BindFails, Connect, ConnectFails, SendDropped, AnswerStream,
        BackendShutdown, Stop, historyVars
<1>4. ASSUME NEW p \in Peers, HandleMessage(p)
      PROVE  Links!Next
  BY <1>1, <1>4, ReliableDeliver
<1>5. ASSUME NEW p \in Peers, AppCall(p) \/ AppWaits(p) \/ PollReports(p) \/ PollMessages(p)
      PROVE  UNCHANGED <<accepted, delivered>>
  BY <1>5 DEF AppCall, AppWaits, PollReports, PollMessages, historyVars
<1>6. ASSUME NEW p \in Peers, HandleEvent(p)
      PROVE  UNCHANGED <<accepted, delivered>>
  BY <1>6 DEF HandleEvent, HandleConnecting, HandleConnected, HandleEnded, HandlesReport, historyVars
<1>7. ASSUME NEW e \in Ends, NEW stream \in KnownStreams(Owner(e), e), AppSend(e, stream)
      PROVE  UNCHANGED <<accepted, delivered>>
  BY <1>7 DEF AppSend
<1>8. ASSUME NEW e \in Ends, LibraryServes(e) \/ Library(Break(e))
      PROVE  UNCHANGED <<accepted, delivered>>
  BY <1>8 DEF LibraryServes, Library, historyVars
<1>9. ASSUME NEW m \in loose, Library(CarryLoose(m))
      PROVE  UNCHANGED <<accepted, delivered>>
  BY <1>9 DEF Library, historyVars
<1>10. CASE UNCHANGED vars
  BY <1>2, <1>10 DEF vars, historyVars
<1>. QED
  BY <1>2, <1>3, <1>4, <1>5, <1>6, <1>7, <1>8, <1>9, <1>10 DEF Next, BackendStep

(***************************************************************************)
(* While the streams are created on the dialing side, the backends         *)
(* implement the reliable links, for any number of clients, dials and      *)
(* calls and any size of a batch: what the library took on a reliable      *)
(* stream reaches the application in order, each message once and none     *)
(* left out until an end is closed.  A server that creates streams may     *)
(* send on a connection the client's backend has no uuid for yet, and      *)
(* what arrives for that is dropped.                                       *)
(***************************************************************************)
THEOREM LinksTheorem ==
    ASSUME Creators \subseteq Clients
    PROVE  Spec => ImplementsLinks
<1> DEFINE Inv == IndType /\ LinksOK /\ FirstsOK /\ NewsOK /\ TracesOK /\ CarriedOK
<1>1. Init => Inv
  BY IndTypeInit, LinksInit, FirstsInit, NewsInit, CarriedInit
<1>2. Inv /\ [Next]_vars => Inv'
  BY IndTypeStep, LinksStep, FirstsStep, NewsStep, TracesStep, CarriedStep
<1>3. Init => Links!Init
  BY ReliableInit
<1>4. Inv /\ [Next]_vars => [Links!Next]_(Links!linkVars)
  BY ReliableStep
<1>. QED
  BY <1>1, <1>2, <1>3, <1>4, PTL DEF Spec, ImplementsLinks, Links!Spec

===============================================================================
