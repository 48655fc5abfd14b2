---------------------------- MODULE GamePeerProofs ----------------------------
(***************************************************************************)
(* Lemmas about the queues of GamePeer, for every backend: what each call  *)
(* of the application and each step of a backend does to the types of the  *)
(* queues.  Commands[p] and Events[p] are the sets of commands and events  *)
(* of the backend in question.                                             *)
(***************************************************************************)
EXTENDS GamePeer, GameStreamProofs, SequenceTheorems, FunctionTheorems, FiniteSetTheorems

-------------------------------------------------------------------------------
(* Sequences *)

LEMMA AppendType ==
    ASSUME NEW S, NEW s \in Seq(S), NEW x \in S
    PROVE  Append(s, x) \in Seq(S) /\ Len(Append(s, x)) = Len(s) + 1
OBVIOUS

LEMMA OneType ==
    ASSUME NEW S, NEW x \in S
    PROVE  <<x>> \in Seq(S) /\ Len(<<x>>) = 1
OBVIOUS

-------------------------------------------------------------------------------
(* How many elements of a queue are of some kind                           *)

At(s, X) == {i \in DOMAIN s : s[i] \in X}

Count(s, X) == Cardinality(At(s, X))

LEMMA CountType ==
    ASSUME NEW S, NEW s \in Seq(S), NEW X
    PROVE  IsFiniteSet(At(s, X)) /\ Count(s, X) \in Nat
<1>1. DOMAIN s = 1 .. Len(s) /\ Len(s) \in Nat
  BY LenProperties
<1>2. IsFiniteSet(1 .. Len(s))
  BY <1>1, FS_Interval
<1>3. At(s, X) \in SUBSET (1 .. Len(s))
  BY <1>1 DEF At
<1>. QED
  BY <1>2, <1>3, FS_Subset, FS_CardinalityType DEF Count

LEMMA CountEmpty ==
    ASSUME NEW X
    PROVE  Count(<<>>, X) = 0
<1>1. At(<<>>, X) = {}
  BY DEF At
<1>. QED
  BY <1>1, FS_EmptySet DEF Count

LEMMA CountNone ==
    ASSUME NEW S, NEW s \in Seq(S), NEW X, \A i \in DOMAIN s : s[i] \notin X
    PROVE  Count(s, X) = 0
<1>1. At(s, X) = {}
  BY DEF At
<1>. QED
  BY <1>1, FS_EmptySet DEF Count

LEMMA CountAppend ==
    ASSUME NEW S, NEW s \in Seq(S), NEW x \in S, NEW X
    PROVE  Count(Append(s, x), X) = Count(s, X) + (IF x \in X THEN 1 ELSE 0)
<1> DEFINE t == Append(s, x)
           n == Len(s) + 1
<1>1. /\ t \in Seq(S) /\ Len(t) = n
      /\ \A i \in 1 .. Len(s) : t[i] = s[i]
      /\ t[n] = x
  BY AppendProperties
<1>2. /\ DOMAIN s = 1 .. Len(s) /\ Len(s) \in Nat /\ DOMAIN t = 1 .. n
  BY <1>1, LenProperties
<1> HIDE DEF t
<1>3. At(t, X) = At(s, X) \cup (IF x \in X THEN {n} ELSE {}) /\ n \notin At(s, X)
  BY <1>1, <1>2 DEF At
<1>4. IsFiniteSet(At(s, X)) /\ Count(s, X) \in Nat
  BY CountType
<1> HIDE DEF n
<1>5. CASE x \in X
  <2>1. At(t, X) = At(s, X) \cup {n}
    BY <1>3, <1>5
  <2>. QED
    BY <1>3, <1>4, <1>5, <2>1, FS_AddElement DEF Count, t
<1>6. CASE x \notin X
  BY <1>3, <1>4, <1>6 DEF Count, t
<1>. QED
  BY <1>5, <1>6

LEMMA CountTail ==
    ASSUME NEW S, NEW s \in Seq(S), s # <<>>, NEW X
    PROVE  Count(s, X) = Count(Tail(s), X) + (IF Head(s) \in X THEN 1 ELSE 0)
<1> DEFINE t == Tail(s)
           shifted == At(s, X) \ {1}
<1>1. /\ t \in Seq(S) /\ Len(t) = Len(s) - 1
      /\ \A i \in 1 .. Len(t) : t[i] = s[i + 1]
      /\ Head(s) = s[1]
  BY HeadTailProperties
<1>2. /\ DOMAIN s = 1 .. Len(s) /\ Len(s) \in Nat /\ DOMAIN t = 1 .. Len(t) /\ Len(t) \in Nat
      /\ 1 \in DOMAIN s
  BY <1>1, LenProperties
<1> HIDE DEF t
<1>3. /\ \A i \in At(t, X) : i \in Nat /\ i + 1 \in shifted
      /\ \A j \in shifted : j \in Nat /\ j - 1 \in At(t, X) /\ (j - 1) + 1 = j
      /\ 1 \in At(s, X) <=> Head(s) \in X
  BY <1>1, <1>2 DEF At
<1>4. IsFiniteSet(At(t, X)) /\ Count(t, X) \in Nat /\ IsFiniteSet(At(s, X)) /\ Count(s, X) \in Nat
  BY <1>1, CountType
<1> HIDE DEF shifted
<1>5. Cardinality(shifted) = Count(t, X)
  <2> DEFINE f == [i \in At(t, X) |-> i + 1]
  <2>1. f \in [At(t, X) -> shifted]
    BY <1>3
  <2>2. \A i, j \in At(t, X) : f[i] = f[j] => i = j
    BY <1>3
  <2>3. \A j \in shifted : \E i \in At(t, X) : f[i] = j
    <3> SUFFICES ASSUME NEW j \in shifted PROVE f[j - 1] = j /\ j - 1 \in At(t, X)
      OBVIOUS
    <3>. QED
      BY <1>3
  <2> HIDE DEF f
  <2>4. f \in Bijection(At(t, X), shifted)
    BY <2>1, <2>2, <2>3, Fun_IsBij
  <2>5. ExistsBijection(At(t, X), shifted)
    BY <2>4 DEF ExistsBijection
  <2>. QED
    BY <1>4, <2>5, FS_Bijection DEF Count
<1>6. Cardinality(shifted) = IF 1 \in At(s, X) THEN Count(s, X) - 1 ELSE Count(s, X)
  BY <1>4, FS_RemoveElement DEF shifted, Count
<1>. QED
  BY <1>3, <1>4, <1>5, <1>6 DEF t

-------------------------------------------------------------------------------
(* Sequences: induction, stated of a set, heads, and what follows a prefix *)

LEMMA AllSeq ==
    ASSUME NEW M, NEW T, <<>> \in T,
           \A s \in Seq(M), x \in M : s \in T => Append(s, x) \in T
    PROVE  Seq(M) \subseteq T
<1> DEFINE U == {n \in Nat : \A s \in Seq(M) : Len(s) = n => s \in T}
<1>1. 0 \in U
  BY EmptySeq
<1>2. ASSUME NEW n \in Nat, n \in U PROVE n + 1 \in U
  <2> SUFFICES ASSUME NEW s \in Seq(M), Len(s) = n + 1 PROVE s \in T
    OBVIOUS
  <2>1. s # <<>>
    BY EmptySeq
  <2>2. PICK r \in Seq(M), x \in M : s = Append(r, x)
    BY <2>1, SequenceEmptyOrAppend
  <2>3. Len(r) = n
    BY <2>2, AppendProperties, LenProperties
  <2>. QED
    BY <1>2, <2>2, <2>3
<1> HIDE DEF U
<1>3. Nat \subseteq U
  BY <1>1, <1>2, AllNat
<1>4. \A s \in Seq(M) : Len(s) \in U
  BY <1>3, LenProperties
<1>. QED
  BY <1>4 DEF U

LEMMA HeadTailConcat ==
    ASSUME NEW S, NEW s \in Seq(S), s # <<>>
    PROVE  s = <<Head(s)>> \o Tail(s)
<1> DEFINE t == <<Head(s)>> \o Tail(s)
<1>1. /\ Head(s) \in S /\ Tail(s) \in Seq(S) /\ Len(Tail(s)) = Len(s) - 1
      /\ \A i \in 1 .. Len(Tail(s)) : Tail(s)[i] = s[i + 1]
  BY HeadTailProperties
<1>2. <<Head(s)>> \in Seq(S) /\ Len(<<Head(s)>>) = 1 /\ <<Head(s)>>[1] = Head(s)
  BY <1>1
<1>3. /\ t \in Seq(S) /\ Len(t) = 1 + Len(Tail(s))
      /\ \A i \in 1 .. 1 + Len(Tail(s)) : t[i] = IF i <= 1 THEN <<Head(s)>>[i] ELSE Tail(s)[i - 1]
  BY <1>1, <1>2, ConcatProperties
<1>4. Len(s) \in Nat /\ Len(t) = Len(s)
  BY <1>1, <1>3, LenProperties
<1>5. ASSUME NEW i \in 1 .. Len(s) PROVE t[i] = s[i]
  <2>1. CASE i = 1
    BY <1>2, <1>3, <1>4, <2>1
  <2>2. CASE i # 1
    <3>1. i - 1 \in 1 .. Len(Tail(s)) /\ (i - 1) + 1 = i
      BY <1>1, <1>4, <2>2
    <3>. QED
      BY <1>1, <1>3, <1>4, <2>2, <3>1
  <2>. QED
    BY <2>1, <2>2
<1> HIDE DEF t
<1>6. t = s
  BY <1>3, <1>4, <1>5
<1>. QED
  BY <1>6 DEF t

\* The first element after a prefix.
LEMMA NextAfterPrefix ==
    ASSUME NEW S, NEW d \in Seq(S), NEW s \in Seq(S), NEW r \in Seq(S), s # <<>>
    PROVE  Len(d) < Len((d \o s) \o r) /\ ((d \o s) \o r)[Len(d) + 1] = Head(s)
<1>1. /\ d \o s \in Seq(S) /\ Len(d \o s) = Len(d) + Len(s)
      /\ \A i \in 1 .. Len(d) + Len(s) :
            (d \o s)[i] = IF i <= Len(d) THEN d[i] ELSE s[i - Len(d)]
  BY ConcatProperties
<1> DEFINE t == d \o s
<1> HIDE DEF t
<1>2. /\ Len(t \o r) = Len(t) + Len(r)
      /\ \A i \in 1 .. Len(t) + Len(r) : (t \o r)[i] = IF i <= Len(t) THEN t[i] ELSE r[i - Len(t)]
  BY <1>1, ConcatProperties DEF t
<1>3. /\ Len(d) \in Nat /\ Len(s) \in Nat /\ Len(r) \in Nat /\ Len(s) # 0
  BY LenProperties, EmptySeq
<1>4. Head(s) = s[1]
  OBVIOUS
<1>5. Len(t) = Len(d) + Len(s) /\ t[Len(d) + 1] = s[1]
  <2>1. Len(d) + 1 \in 1 .. Len(d) + Len(s) /\ ~(Len(d) + 1 <= Len(d)) /\ (Len(d) + 1) - Len(d) = 1
    BY <1>3
  <2>. QED
    BY <1>1, <2>1 DEF t
<1>6. Len(d) < Len(t \o r) /\ (t \o r)[Len(d) + 1] = s[1]
  <2>1. Len(d) + 1 \in 1 .. Len(t) + Len(r) /\ Len(d) + 1 <= Len(t)
    BY <1>3, <1>5
  <2>. QED
    BY <1>2, <1>3, <1>5, <2>1
<1>. QED
  BY <1>4, <1>6 DEF t

-------------------------------------------------------------------------------
(* What is in the queues *)

Elems(s) == {s[i] : i \in DOMAIN s}

Queued(p) == Elems(cmds[p])

Told(p) == Elems(events[p])

LEMMA ElemsType ==
    ASSUME NEW S, NEW s \in Seq(S)
    PROVE  Elems(s) \subseteq S
BY LenProperties, ElementOfSeq DEF Elems

LEMMA ElemsAppend ==
    ASSUME NEW S, NEW s \in Seq(S), NEW x \in S
    PROVE  Elems(Append(s, x)) = Elems(s) \cup {x}
<1> DEFINE t == Append(s, x)
<1>1. /\ t \in Seq(S) /\ Len(t) = Len(s) + 1
      /\ \A i \in 1 .. Len(s) : t[i] = s[i]
      /\ t[Len(s) + 1] = x
  BY AppendProperties
<1>2. DOMAIN s = 1 .. Len(s) /\ Len(s) \in Nat /\ DOMAIN t = 1 .. Len(s) + 1
  BY <1>1, LenProperties
<1> HIDE DEF t
<1>3. Len(s) + 1 \in DOMAIN t /\ DOMAIN t = DOMAIN s \cup {Len(s) + 1}
  BY <1>2
<1>. QED
  BY <1>1, <1>2, <1>3 DEF Elems, t

\* What was appended is in the sequence.
LEMMA AppendedElement ==
    ASSUME NEW S, NEW s \in Seq(S), NEW x, Append(s, x) \in Seq(S)
    PROVE  x \in S
<1>1. Len(s) \in Nat /\ Len(Append(s, x)) = Len(s) + 1 /\ Append(s, x)[Len(s) + 1] = x
  BY LenProperties
<1>2. Len(s) + 1 \in 1 .. Len(Append(s, x))
  BY <1>1
<1>. QED
  BY <1>1, <1>2, ElementOfSeq

LEMMA ElemsConcat ==
    ASSUME NEW S, NEW s \in Seq(S), NEW t \in Seq(S)
    PROVE  Elems(s \o t) \subseteq Elems(s) \cup Elems(t) /\ Elems(s) \subseteq Elems(s \o t)
<1> DEFINE u == s \o t
<1>1. /\ u \in Seq(S) /\ Len(u) = Len(s) + Len(t)
      /\ \A i \in 1 .. Len(s) + Len(t) : u[i] = IF i <= Len(s) THEN s[i] ELSE t[i - Len(s)]
  BY ConcatProperties
<1>2. /\ DOMAIN s = 1 .. Len(s) /\ DOMAIN t = 1 .. Len(t) /\ DOMAIN u = 1 .. Len(s) + Len(t)
      /\ Len(s) \in Nat /\ Len(t) \in Nat
  BY <1>1, LenProperties
<1> HIDE DEF u
<1>3. ASSUME NEW i \in DOMAIN u PROVE u[i] \in Elems(s) \cup Elems(t)
  <2>1. CASE i <= Len(s)
    BY <1>1, <1>2, <2>1 DEF Elems
  <2>2. CASE ~(i <= Len(s))
    <3>1. i - Len(s) \in DOMAIN t /\ u[i] = t[i - Len(s)]
      BY <1>1, <1>2, <2>2
    <3>. QED
      BY <3>1 DEF Elems
  <2>. QED
    BY <2>1, <2>2
<1>4. \A i \in DOMAIN s : i \in DOMAIN u /\ u[i] = s[i]
  BY <1>1, <1>2
<1>. QED
  BY <1>3, <1>4 DEF Elems, u

LEMMA ElemsTail ==
    ASSUME NEW S, NEW s \in Seq(S), s # <<>>
    PROVE  Elems(Tail(s)) \subseteq Elems(s) /\ Head(s) \in Elems(s)
<1> DEFINE t == Tail(s)
<1>1. /\ t \in Seq(S) /\ Len(t) = Len(s) - 1
      /\ \A i \in 1 .. Len(t) : t[i] = s[i + 1]
      /\ Head(s) = s[1]
  BY HeadTailProperties
<1>2. /\ DOMAIN s = 1 .. Len(s) /\ Len(s) \in Nat /\ DOMAIN t = 1 .. Len(t) /\ Len(t) \in Nat
      /\ 1 \in DOMAIN s
  BY <1>1, LenProperties
<1> HIDE DEF t
<1>3. \A i \in DOMAIN t : i + 1 \in DOMAIN s /\ t[i] = s[i + 1]
  BY <1>1, <1>2
<1>. QED
  BY <1>1, <1>2, <1>3 DEF Elems, t

-------------------------------------------------------------------------------
(* Stream indices *)

\* The counter after create_stream is an index the identifier can hold.
LEMMA CounterType ==
    ASSUME NEW n \in Nat, n < MaxStreams
    PROVE  (n + 1) % IdSpace \in StreamId /\ (n + 1) % IdSpace \in 0 .. MaxStreams
<1>1. IdSpace \in Nat \ {0} /\ n + 1 \in Nat /\ n + 1 \in Int
  BY SlotsAssumption DEF IdSpace
<1>2. (n + 1) % IdSpace \in 0 .. (IdSpace - 1)
  BY <1>1, DivMod
<1>3. (n + 1) % IdSpace \in 0 .. (n + 1)
  BY <1>1, RemainderSmaller
<1>. QED
  BY <1>1, <1>2, <1>3, MaxStreamsAssumption DEF StreamId

-------------------------------------------------------------------------------
(* Commands *)

\* A call of the application adds one command to its queue.
LEMMA SendCommandType ==
    ASSUME NEW Commands, CommandsTypeOK(Commands),
           NEW p \in Peers, NEW cmd \in Commands[p], SendCommand(p, cmd)
    PROVE  CommandsTypeOK(Commands)'
<1>1. cmds' = [cmds EXCEPT ![p] = Append(@, cmd)]
  BY DEF SendCommand
<1>2. Append(cmds[p], cmd) \in Seq(Commands[p])
  BY AppendType DEF CommandsTypeOK
<1>. QED
  BY <1>1, <1>2 DEF CommandsTypeOK

\* The backend takes the command at the head.
LEMMA TakeCommandType ==
    ASSUME NEW Commands, CommandsTypeOK(Commands),
           NEW p \in Peers, cmds[p] # <<>>, TakeCommand(p)
    PROVE  CommandsTypeOK(Commands)'
<1>1. Tail(cmds[p]) \in Seq(Commands[p])
  BY HeadTailProperties DEF CommandsTypeOK
<1>. QED
  BY <1>1 DEF CommandsTypeOK, TakeCommand

LEMMA HeadCommandType ==
    ASSUME NEW Commands, CommandsTypeOK(Commands), NEW p \in Peers, cmds[p] # <<>>
    PROVE  Head(cmds[p]) \in Commands[p]
BY HeadTailProperties DEF CommandsTypeOK

LEMMA ThreadExitsType ==
    ASSUME NEW Commands, CommandsTypeOK(Commands), NEW p \in Peers, ThreadExits(p)
    PROVE  CommandsTypeOK(Commands)'
<1>1. <<>> \in Seq(Commands[p])
  BY EmptySeq
<1>. QED
  BY <1>1 DEF CommandsTypeOK, ThreadExits

-------------------------------------------------------------------------------
(* Events *)

LEMMA EmitType ==
    ASSUME NEW Events, EventsTypeOK(Events),
           NEW p \in Peers, NEW news \in Seq(Events[p]), Emit(p, news), UNCHANGED polled
    PROVE  EventsTypeOK(Events)'
<1>1. /\ events[p] \o news \in Seq(Events[p])
      /\ Len(events[p] \o news) = Len(events[p]) + Len(news)
      /\ Len(events[p]) \in Nat /\ Len(news) \in Nat
  BY ConcatProperties, LenProperties DEF EventsTypeOK
<1>2. events' = [events EXCEPT ![p] = events[p] \o news]
  BY DEF Emit
<1>3. polled \in [Peers -> Nat] /\ DOMAIN events = Peers /\ polled' = polled
  BY DEF EventsTypeOK
<1>4. ASSUME NEW q \in Peers
      PROVE  events'[q] \in Seq(Events[q]) /\ polled[q] <= Len(events'[q])
  <2>1. CASE q = p
    BY <1>1, <1>2, <1>3, <2>1 DEF EventsTypeOK
  <2>2. CASE q # p
    BY <1>2, <1>3, <2>2 DEF EventsTypeOK
  <2>. QED
    BY <2>1, <2>2
<1>5. DOMAIN events' = Peers
  BY <1>2, <1>3
<1>. QED
  BY <1>3, <1>4, <1>5 DEF EventsTypeOK

LEMMA PollType ==
    ASSUME NEW Events, EventsTypeOK(Events), NEW p \in Peers, Poll(p)
    PROVE  EventsTypeOK(Events)'
<1>1. events' = events /\ polled' = [polled EXCEPT ![p] = @ + 1] /\ polled[p] < Len(events[p])
  BY DEF Poll
<1>2. Len(events[p]) \in Nat
  BY LenProperties DEF EventsTypeOK
<1>. QED
  BY <1>1, <1>2 DEF EventsTypeOK

-------------------------------------------------------------------------------
(* The steps of the queues, by what is in them                             *)

LEMMA SendCommandQueued ==
    ASSUME NEW Commands, CommandsTypeOK(Commands),
           NEW p \in Peers, NEW cmd \in Commands[p], SendCommand(p, cmd)
    PROVE  /\ Queued(p)' = Queued(p) \cup {cmd}
           /\ \A q \in Peers \ {p} : cmds'[q] = cmds[q]
<1>1. cmds' = [cmds EXCEPT ![p] = Append(@, cmd)] /\ cmds[p] \in Seq(Commands[p])
  BY DEF SendCommand, CommandsTypeOK
<1>. QED
  BY <1>1, ElemsAppend DEF CommandsTypeOK, Queued

LEMMA TakeCommandQueued ==
    ASSUME NEW Commands, CommandsTypeOK(Commands), NEW p \in Peers, cmds[p] # <<>>, TakeCommand(p)
    PROVE  /\ Queued(p)' \subseteq Queued(p)
           /\ \A q \in Peers \ {p} : cmds'[q] = cmds[q]
<1>1. cmds' = [cmds EXCEPT ![p] = Tail(@)] /\ cmds[p] \in Seq(Commands[p])
  BY DEF TakeCommand, CommandsTypeOK
<1>. QED
  BY <1>1, ElemsTail DEF CommandsTypeOK, Queued

LEMMA HeadQueued ==
    ASSUME NEW Commands, CommandsTypeOK(Commands), NEW p \in Peers, cmds[p] # <<>>
    PROVE  Head(cmds[p]) \in Queued(p)
BY ElemsTail DEF CommandsTypeOK, Queued

LEMMA EmitTold ==
    ASSUME NEW Events, EventsTypeOK(Events),
           NEW p \in Peers, NEW news \in Seq(Events[p]), Emit(p, news)
    PROVE  /\ Told(p)' \subseteq Told(p) \cup Elems(news) /\ Told(p) \subseteq Told(p)'
           /\ \A q \in Peers \ {p} : events'[q] = events[q]
<1>1. events' = [events EXCEPT ![p] = @ \o news] /\ events[p] \in Seq(Events[p])
  BY DEF Emit, EventsTypeOK
<1>. QED
  BY <1>1, ElemsConcat DEF EventsTypeOK, Told

LEMMA SeenTold ==
    ASSUME NEW Events, EventsTypeOK(Events), NEW p \in Peers
    PROVE  Seen(p) \subseteq Told(p) /\ Told(p) \subseteq Events[p]
<1>1. /\ events[p] \in Seq(Events[p]) /\ polled[p] <= Len(events[p])
      /\ polled[p] \in Nat /\ Len(events[p]) \in Nat
  BY LenProperties DEF EventsTypeOK
<1>2. 1 .. polled[p] \subseteq DOMAIN events[p]
  BY <1>1, LenProperties
<1>. QED
  BY <1>1, <1>2, ElemsType DEF Seen, Told, Elems

-------------------------------------------------------------------------------
(* The commands and events of a process whose connections are C            *)

LEMMA CommandMembers ==
    ASSUME NEW C, NEW M
    PROVE  /\ {BindCmd, ConnectCmd, ShutdownCmd} \subseteq Command(C, M)
           /\ \A c \in C, m \in M : SendCmd(c, m) \in Command(C, M)
           /\ \A c \in C, i \in StreamId, r \in Reliability :
                  CreateStreamCmd(c, i, r) \in Command(C, M)
           /\ \A c \in C, s \in StreamId : CloseStreamCmd(c, s) \in Command(C, M)
BY DEF Command

LEMMA PartsOfCommand ==
    ASSUME NEW C, NEW M, NEW x \in Command(C, M)
    PROVE  /\ x.type = "Send" => x.conn \in C /\ x.packet \in M
           /\ x.type = "CreateStream" =>
                  x.conn \in C /\ x.index \in StreamId /\ x.reliability \in Reliability
           /\ x.type = "CloseStream" => x.conn \in C /\ x.stream \in StreamId
BY DEF Command, BindCmd, ConnectCmd, ShutdownCmd, SendCmd, CreateStreamCmd, CloseStreamCmd

LEMMA EventMembers ==
    ASSUME NEW C, NEW M
    PROVE  /\ ConnectError \in Event(C, M)
           /\ \A c \in C : Connected(c) \in Event(C, M) /\ Disconnected(c) \in Event(C, M)
           /\ \A c \in C, m \in M : Message(c, m) \in Event(C, M)
           /\ \A c \in C, s \in StreamId :
                  StreamCreated(c, s) \in Event(C, M) /\ StreamClosed(c, s) \in Event(C, M)
BY DEF Event

LEMMA PartsOfEvent ==
    ASSUME NEW C, NEW M, NEW x \in Event(C, M)
    PROVE  /\ x.type = "StreamCreated" => "conn" \in DOMAIN x /\ x.stream \in StreamId
           /\ "conn" \in DOMAIN x => x.conn \in C
BY DEF Event, Connected, Disconnected, ConnectError, Message, StreamCreated, StreamClosed

\* What an application knows is a handle, of a connection it was told of.
LEMMA KnownIsTold ==
    ASSUME NEW Events, EventsTypeOK(Events), NEW p \in Peers, NEW C, NEW M,
           Events[p] = Event(C, M), NEW conn
    PROVE  /\ KnownStreams(p, conn) \subseteq StreamId
           /\ KnowsConnection(p, conn) => Connected(conn) \in Told(p) /\ conn \in C
           /\ KnownStreams(p, conn) # {} => \E y \in Told(p) : Concerns(y, conn)
<1>1. Seen(p) \subseteq Told(p) /\ Told(p) \subseteq Event(C, M)
  BY SeenTold
<1>2. ASSUME NEW x \in Seen(p), x.type = "StreamCreated"
      PROVE  x \in Told(p) /\ "conn" \in DOMAIN x /\ x.stream \in StreamId
  BY <1>1, <1>2, PartsOfEvent
<1>3. KnownStreams(p, conn) # {} => \E y \in Told(p) : Concerns(y, conn)
  BY <1>2 DEF KnownStreams, Concerns
<1>4. KnownStreams(p, conn) \subseteq StreamId
  BY <1>2 DEF KnownStreams
<1>5. KnowsConnection(p, conn) => Connected(conn) \in Told(p) /\ conn \in C
  <2>1. "conn" \in DOMAIN Connected(conn) /\ Connected(conn).conn = conn
    BY DEF Connected
  <2>2. Connected(conn) \in Event(C, M) => conn \in C
    BY <2>1, PartsOfEvent
  <2>. QED
    BY <1>1, <2>2 DEF KnowsConnection
<1>. QED
  BY <1>3, <1>4, <1>5

LEMMA NewHandle ==
    ASSUME NEW i \in StreamId, NEW r \in Reliability
    PROVE  NewStream(i, r) \in StreamId
BY HandleParts DEF StreamId, IdSpace

\* Two calls make two handles, as long as the indices have slots of their own.
LEMMA HandlesDiffer ==
    ASSUME MaxStreams <= Slots, NEW i \in 1 .. MaxStreams, NEW j \in 1 .. MaxStreams,
           NEW q \in Reliability, NEW r \in Reliability, NewStream(i, q) = NewStream(j, r)
    PROVE  i = j
<1>1. i \in Nat /\ j \in Nat /\ i \in 1 .. Slots /\ j \in 1 .. Slots
  BY MaxStreamsAssumption, SlotsAssumption
<1>2. i % Slots = j % Slots
  BY <1>1, HandleParts
<1>3. /\ i < Slots => i % Slots = i
      /\ i = Slots => i % Slots = 0
      /\ j < Slots => j % Slots = j
      /\ j = Slots => j % Slots = 0
  <2>1. ASSUME NEW k \in 1 .. Slots
        PROVE  (k < Slots => k % Slots = k) /\ (k = Slots => k % Slots = 0)
    <3>1. k < Slots => k = Slots * 0 + k /\ k \in 0 .. (Slots - 1) /\ 0 \in Int
      BY SlotsAssumption
    <3>2. k = Slots => k = Slots * 1 + 0 /\ 0 \in 0 .. (Slots - 1) /\ 1 \in Int
      BY SlotsAssumption
    <3>. QED
      BY <3>1, <3>2, SlotsAssumption, RemainderUnique
  <2>. QED
    BY <1>1, <2>1
<1>4. PICK k, l : k = i % Slots /\ l = j % Slots
  OBVIOUS
<1>5. /\ k = l
      /\ (i < Slots => k = i) /\ (i = Slots => k = 0)
      /\ (j < Slots => l = j) /\ (j = Slots => l = 0)
  BY <1>2, <1>3, <1>4
<1>. QED
  BY <1>1, <1>5, SlotsAssumption

-------------------------------------------------------------------------------
(* In which order an application hears things                              *)

Earlier(s, j) == {s[i] : i \in 1 .. (j - 1)}

\* y may come after the events of E.
Fits(y, E) ==
    /\ "conn" \in DOMAIN y => (y = Connected(y.conn) <=> \A z \in E : ~Concerns(z, y.conn))
    /\ y.type \in {"Disconnected", "Message"} => Disconnected(y.conn) \notin E
    /\ y.type = "Message" => StreamCreated(y.conn, y.packet.stream) \in E

Ordered(s) == \A j \in 1 .. Len(s) : Fits(s[j], Earlier(s, j))

\* An event more leaves what came before the others.
LEMMA EarlierAppend ==
    ASSUME NEW S, NEW s \in Seq(S), NEW y \in S
    PROVE  /\ Append(s, y) \in Seq(S) /\ Len(Append(s, y)) = Len(s) + 1 /\ Len(s) \in Nat
           /\ Elems(Append(s, y)) = Elems(s) \cup {y}
           /\ \A j \in 1 .. Len(s) + 1 :
                  \/ Append(s, y)[j] = y /\ Earlier(Append(s, y), j) = Elems(s)
                  \/ /\ j \in 1 .. Len(s) /\ Append(s, y)[j] = s[j]
                     /\ Earlier(Append(s, y), j) = Earlier(s, j)
<1> DEFINE t == Append(s, y)
<1>1. /\ t \in Seq(S) /\ Len(t) = Len(s) + 1 /\ t[Len(s) + 1] = y /\ Len(s) \in Nat
      /\ \A i \in 1 .. Len(s) : t[i] = s[i]
      /\ DOMAIN s = 1 .. Len(s)
  BY AppendProperties, LenProperties
<1>2. Elems(t) = Elems(s) \cup {y}
  BY ElemsAppend
<1> HIDE DEF t
<1>3. ASSUME NEW j \in 1 .. Len(s) + 1
      PROVE  \/ t[j] = y /\ Earlier(t, j) = Elems(s)
             \/ j \in 1 .. Len(s) /\ t[j] = s[j] /\ Earlier(t, j) = Earlier(s, j)
  <2>1. CASE j = Len(s) + 1
    <3>1. Earlier(t, j) = Elems(s)
      BY <1>1, <2>1 DEF Earlier, Elems
    <3>. QED
      BY <1>1, <2>1, <3>1
  <2>2. CASE j # Len(s) + 1
    <3>1. j \in 1 .. Len(s) /\ \A i \in 1 .. (j - 1) : i \in 1 .. Len(s)
      BY <1>1, <2>2
    <3>2. Earlier(t, j) = Earlier(s, j) /\ t[j] = s[j]
      BY <1>1, <3>1 DEF Earlier
    <3>. QED
      BY <3>1, <3>2
  <2>. QED
    BY <2>1, <2>2
<1>. QED
  BY <1>1, <1>2, <1>3 DEF t

LEMMA OrderedAppend ==
    ASSUME NEW S, NEW s \in Seq(S), NEW y \in S, Ordered(s), Fits(y, Elems(s))
    PROVE  /\ Append(s, y) \in Seq(S) /\ Elems(Append(s, y)) = Elems(s) \cup {y}
           /\ Ordered(Append(s, y))
<1> DEFINE t == Append(s, y)
<1>1. /\ t \in Seq(S) /\ Len(t) = Len(s) + 1 /\ Elems(t) = Elems(s) \cup {y}
      /\ \A j \in 1 .. Len(s) + 1 :
            \/ t[j] = y /\ Earlier(t, j) = Elems(s)
            \/ j \in 1 .. Len(s) /\ t[j] = s[j] /\ Earlier(t, j) = Earlier(s, j)
  BY EarlierAppend
<1> HIDE DEF t
<1>2. \A j \in 1 .. Len(s) + 1 : Fits(t[j], Earlier(t, j))
  BY <1>1 DEF Ordered
<1>. QED
  BY <1>1, <1>2 DEF Ordered, t

\* One event is told, or none.
LEMMA EmitOneOrdered ==
    ASSUME NEW Events, EventsTypeOK(Events), NEW p \in Peers, NEW y \in Events[p],
           Emit(p, <<y>>), Ordered(events[p]), Fits(y, Told(p))
    PROVE  /\ Ordered(events'[p]) /\ Told(p)' = Told(p) \cup {y}
           /\ \A q \in Peers \ {p} : events'[q] = events[q]
<1>1. /\ events' = [events EXCEPT ![p] = @ \o <<y>>] /\ events[p] \in Seq(Events[p])
      /\ DOMAIN events = Peers
  BY DEF Emit, EventsTypeOK
<1>2. events'[p] = Append(events[p], y) /\ \A q \in Peers \ {p} : events'[q] = events[q]
  BY <1>1, AppendIsConcat
<1>3. Ordered(Append(events[p], y)) /\ Elems(Append(events[p], y)) = Elems(events[p]) \cup {y}
  BY <1>1, OrderedAppend DEF Told
<1>. QED
  BY <1>2, <1>3 DEF Told

\* An event that is told unless it was before, and one more.
Preceded(n, y, told) == (IF told THEN <<>> ELSE <<n>>) \o <<y>>

LEMMA PrecededTold ==
    ASSUME NEW E, NEW s \in Seq(E), NEW n \in E, NEW y \in E, NEW told,
           Ordered(s), told => n \in Elems(s), ~told => Fits(n, Elems(s)),
           Fits(y, Elems(s) \cup {n})
    PROVE  /\ Preceded(n, y, told) \in Seq(E) /\ Ordered(s \o Preceded(n, y, told))
           /\ Elems(s \o Preceded(n, y, told)) = Elems(s) \cup {n, y}
<1>1. PICK u \in Seq(E) : /\ u = IF told THEN s ELSE Append(s, n)
                          /\ Ordered(u) /\ Elems(u) = Elems(s) \cup {n}
  <2>1. CASE told
    BY <2>1
  <2>2. CASE ~told
    <3>1. /\ Append(s, n) \in Seq(E) /\ Ordered(Append(s, n))
          /\ Elems(Append(s, n)) = Elems(s) \cup {n}
      BY <2>2, OrderedAppend
    <3>. QED
      BY <2>2, <3>1
  <2>. QED
    BY <2>1, <2>2
<1>2. Ordered(Append(u, y)) /\ Elems(Append(u, y)) = Elems(u) \cup {y}
  <2>1. u \in Seq(E) /\ y \in E /\ Ordered(u) /\ Fits(y, Elems(u))
    BY <1>1
  <2>. QED
    BY <2>1, OrderedAppend
<1>3. PICK a, w : a = (IF told THEN <<>> ELSE <<n>>) /\ w = <<y>>
  OBVIOUS
<1>4. a \in Seq(E) /\ w \in Seq(E)
  BY <1>3, OneType, EmptySeq
<1>5. u = s \o a
  <2>1. CASE told
    BY <1>1, <1>3, <2>1, ConcatEmptySeq
  <2>2. CASE ~told
    BY <1>1, <1>3, <2>2, AppendIsConcat
  <2>. QED
    BY <2>1, <2>2
<1>6. Append(u, y) = u \o w
  BY <1>3, AppendIsConcat
<1>7. (s \o a) \o w = s \o (a \o w)
  BY <1>4, ConcatAssociative
<1>8. Preceded(n, y, told) = a \o w /\ a \o w \in Seq(E)
  BY <1>3, <1>4, ConcatProperties DEF Preceded
<1>9. s \o Preceded(n, y, told) = Append(u, y)
  BY <1>5, <1>6, <1>7, <1>8
<1>. QED
  BY <1>1, <1>2, <1>8, <1>9

LEMMA EmitPrecededOrdered ==
    ASSUME NEW Events, EventsTypeOK(Events), NEW p \in Peers,
           NEW n \in Events[p], NEW y \in Events[p], NEW told, Emit(p, Preceded(n, y, told)),
           Ordered(events[p]), told => n \in Told(p), ~told => Fits(n, Told(p)),
           \A F : F = Told(p) \cup {n} => Fits(y, F)
    PROVE  /\ Preceded(n, y, told) \in Seq(Events[p])
           /\ Ordered(events'[p]) /\ Told(p)' = Told(p) \cup {n, y}
           /\ \A q \in Peers \ {p} : events'[q] = events[q]
<1>1. PICK s, news : s \in Seq(Events[p]) /\ s = events[p] /\ news = Preceded(n, y, told)
  BY DEF EventsTypeOK
<1>2. news \in Seq(Events[p]) /\ Ordered(s \o news) /\ Elems(s \o news) = Elems(s) \cup {n, y}
  <2>1. Told(p) = Elems(s)
    BY <1>1 DEF Told
  <2>2. Fits(y, Elems(s) \cup {n})
    BY <2>1
  <2>. QED
    BY <1>1, <2>1, <2>2, PrecededTold
<1>3. events' = [events EXCEPT ![p] = s \o news] /\ DOMAIN events = Peers
  BY <1>1 DEF Emit, EventsTypeOK
<1>4. events'[p] = s \o news /\ \A q \in Peers \ {p} : events'[q] = events[q]
  BY <1>3
<1>. QED
  BY <1>1, <1>2, <1>4 DEF Told

LEMMA EmitNone ==
    ASSUME NEW Events, EventsTypeOK(Events), NEW p \in Peers, Emit(p, <<>>)
    PROVE  \A q \in Peers : events'[q] = events[q]
<1>1. events' = [events EXCEPT ![p] = @ \o <<>>] /\ events[p] \in Seq(Events[p])
  BY DEF Emit, EventsTypeOK
<1>2. events[p] \o <<>> = events[p]
  BY <1>1, ConcatEmptySeq
<1>. QED
  BY <1>1, <1>2 DEF EventsTypeOK

-------------------------------------------------------------------------------
(* create_stream, and the streams that are announced after the end of their *)
(* connection                                                               *)

\* The counter goes on, whether the command is queued or refused.
LEMMA CreateStreamParts ==
    ASSUME ThreadsTypeOK, NEW p \in Peers, NEW conn, NEW r, CreateStream(p, conn, r)
    PROVE  /\ KnowsConnection(p, conn) /\ UNCHANGED <<events, polled, app, thread>>
           /\ next_stream_id'[p] = (next_stream_id[p] + 1) % IdSpace
           /\ next_stream_id'[p] \in StreamId /\ ThreadsTypeOK'
           /\ \A q \in Peers \ {p} : next_stream_id'[q] = next_stream_id[q]
           /\ \/ SendCommand(p, CreateStreamCmd(conn, next_stream_id'[p], r))
              \/ UNCHANGED cmds
<1> DEFINE i == (next_stream_id[p] + 1) % IdSpace
<1>1. /\ next_stream_id \in [Peers -> 0 .. MaxStreams] /\ next_stream_id[p] < MaxStreams
      /\ next_stream_id' = [next_stream_id EXCEPT ![p] = i]
      /\ UNCHANGED <<app, thread>>
  BY DEF ThreadsTypeOK, CreateStream
<1>2. i \in StreamId /\ i \in 0 .. MaxStreams
  <2>1. next_stream_id[p] \in Nat
    BY <1>1, MaxStreamsAssumption
  <2>. QED
    BY <1>1, <2>1, CounterType
<1> HIDE DEF i
<1>3. next_stream_id'[p] = i /\ \A q \in Peers \ {p} : next_stream_id'[q] = next_stream_id[q]
  BY <1>1
<1>4. ThreadsTypeOK'
  BY <1>1, <1>2 DEF ThreadsTypeOK
<1>. QED
  BY <1>2, <1>3, <1>4 DEF CreateStream, i

\* While the counters do not come round, they only go up.
LEMMA CounterUp ==
    ASSUME MaxStreams < IdSpace, ThreadsTypeOK, NEW p \in Peers, NEW conn, NEW r,
           CreateStream(p, conn, r)
    PROVE  /\ next_stream_id[p] \in Nat /\ next_stream_id'[p] = next_stream_id[p] + 1
           /\ \A q \in Peers \ {p} : next_stream_id'[q] = next_stream_id[q]
<1>1. /\ next_stream_id[p] \in 0 .. MaxStreams /\ next_stream_id[p] < MaxStreams
      /\ next_stream_id'[p] = (next_stream_id[p] + 1) % IdSpace
      /\ \A q \in Peers \ {p} : next_stream_id'[q] = next_stream_id[q]
  BY CreateStreamParts DEF ThreadsTypeOK, CreateStream
<1>2. PICK n : n = next_stream_id[p] + 1
  OBVIOUS
<1>3. /\ next_stream_id[p] \in Nat /\ n \in Nat /\ IdSpace \in Nat \ {0}
      /\ n \in 0 .. (IdSpace - 1)
  BY <1>1, <1>2, MaxStreamsAssumption, SlotsAssumption DEF IdSpace
<1>4. n = IdSpace * 0 + n /\ 0 \in Int
  BY <1>3
<1>5. n % IdSpace = n
  BY <1>3, <1>4, RemainderUnique
<1>. QED
  BY <1>1, <1>2, <1>3, <1>5

\* A create_stream that is queued has taken its index.
CallCounted(p, cmd) == cmd.type = "CreateStream" => cmd.index \in 1 .. next_stream_id[p]

\* y may come after the events of E: at the end of its connection, a stream
\* is one that p created.
OwnAfterEnd(p, y, E) ==
    y.type = "StreamCreated" /\ Disconnected(y.conn) \in E => Created(p, y.stream)

OwnInv ==
    \A p \in Peers :
        /\ \A cmd \in Queued(p) : CallCounted(p, cmd)
        /\ \A j \in 1 .. Len(events[p]) : OwnAfterEnd(p, events[p][j], Earlier(events[p], j))

LEMMA OwnInit == PeerInit => OwnInv
<1> SUFFICES ASSUME PeerInit, NEW p \in Peers
             PROVE  Queued(p) = {} /\ 1 .. Len(events[p]) = {}
  BY DEF OwnInv
<1>1. cmds[p] = <<>> /\ events[p] = <<>>
  BY DEF PeerInit
<1>. QED
  BY <1>1 DEF Queued, Elems

\* What p tells in a step of the streams that end: they are its own, or their
\* connection has not ended.
Tells(p, news) ==
    /\ events'[p] = events[p] \o news
    /\ \A y \in Elems(news) :
          y.type = "StreamCreated" => Created(p, y.stream)' \/ Disconnected(y.conn) \notin Told(p)'

\* The events after a step are those of before and those told.
LEMMA EarlierConcat ==
    ASSUME NEW S, NEW s \in Seq(S), NEW t \in Seq(S), NEW j \in 1 .. Len(s \o t)
    PROVE  /\ Earlier(s \o t, j) \subseteq Elems(s \o t)
           /\ \/ j \in 1 .. Len(s) /\ (s \o t)[j] = s[j] /\ Earlier(s \o t, j) = Earlier(s, j)
              \/ (s \o t)[j] \in Elems(t)
<1> DEFINE u == s \o t
<1>1. /\ Len(s) \in Nat /\ Len(t) \in Nat /\ Len(u) = Len(s) + Len(t) /\ DOMAIN u = 1 .. Len(u)
      /\ DOMAIN t = 1 .. Len(t)
      /\ \A i \in 1 .. Len(s) + Len(t) : u[i] = IF i <= Len(s) THEN s[i] ELSE t[i - Len(s)]
  BY ConcatProperties, LenProperties
<1> HIDE DEF u
<1>2. Earlier(u, j) \subseteq Elems(u)
  <2>1. 1 .. (j - 1) \subseteq DOMAIN u
    BY <1>1 DEF u
  <2>. QED
    BY <2>1 DEF Earlier, Elems
<1>3. CASE j <= Len(s)
  <2>1. j \in 1 .. Len(s) /\ \A i \in 1 .. j : i \in 1 .. Len(s) + Len(t) /\ i <= Len(s)
    BY <1>1, <1>3 DEF u
  <2>2. \A i \in 1 .. j : u[i] = s[i]
    BY <1>1, <2>1
  <2>3. j \in 1 .. j /\ \A i \in 1 .. (j - 1) : i \in 1 .. j
    BY <1>1, <2>1
  <2>4. u[j] = s[j] /\ Earlier(u, j) = Earlier(s, j)
    BY <2>2, <2>3 DEF Earlier
  <2>. QED
    BY <1>2, <2>1, <2>4 DEF u
<1>4. CASE ~(j <= Len(s))
  <2>1. j - Len(s) \in DOMAIN t /\ u[j] = t[j - Len(s)]
    BY <1>1, <1>4 DEF u
  <2>2. u[j] \in Elems(t)
    BY <2>1 DEF Elems
  <2>. QED
    BY <1>2, <2>2 DEF u
<1>. QED
  BY <1>3, <1>4

LEMMA OwnStep ==
    ASSUME NEW Events, EventsTypeOK(Events), OwnInv,
           \A p \in Peers : /\ next_stream_id[p] \in Nat /\ next_stream_id'[p] \in Nat
                            /\ next_stream_id[p] <= next_stream_id'[p],
           \A p \in Peers : \A cmd \in Queued(p)' : cmd \in Queued(p) \/ CallCounted(p, cmd)',
           \A p \in Peers : events'[p] = events[p] \/ \E news \in Seq(Events[p]) : Tells(p, news)
    PROVE  OwnInv'
<1> SUFFICES ASSUME NEW p \in Peers
             PROVE  /\ \A cmd \in Queued(p)' : CallCounted(p, cmd)'
                    /\ \A j \in 1 .. Len(events'[p]) :
                          OwnAfterEnd(p, events[p][j], Earlier(events[p], j))'
  BY DEF OwnInv
<1>1. 1 .. next_stream_id[p] \subseteq 1 .. next_stream_id'[p]
  OBVIOUS
<1>2. \A stream : Created(p, stream) => Created(p, stream)'
  BY <1>1 DEF Created
<1>3. ASSUME NEW cmd \in Queued(p)' PROVE CallCounted(p, cmd)'
  <2>1. cmd \in Queued(p) => CallCounted(p, cmd)
    BY DEF OwnInv
  <2>. QED
    BY <1>1, <1>3, <2>1 DEF CallCounted
<1>4. CASE events'[p] = events[p]
  BY <1>2, <1>3, <1>4 DEF OwnInv, OwnAfterEnd
<1>5. ASSUME NEW news \in Seq(Events[p]), Tells(p, news), NEW j \in 1 .. Len(events'[p])
      PROVE  OwnAfterEnd(p, events[p][j], Earlier(events[p], j))'
  <2>1. PICK s : s \in Seq(Events[p]) /\ s = events[p] /\ events'[p] = s \o news
    BY <1>5 DEF EventsTypeOK, Tells
  <2>2. /\ Earlier(events'[p], j) \subseteq Told(p)'
        /\ \/ /\ j \in 1 .. Len(events[p]) /\ events'[p][j] = events[p][j]
              /\ Earlier(events'[p], j) = Earlier(events[p], j)
           \/ events'[p][j] \in Elems(news)
    BY <1>5, <2>1, EarlierConcat DEF Told
  <2>. QED
    BY <1>2, <1>5, <2>2 DEF OwnInv, OwnAfterEnd, Tells
<1>. QED
  BY <1>3, <1>4, <1>5

\* A step that tells nothing and creates nothing.
LEMMA OwnQuiet ==
    ASSUME NEW Events, EventsTypeOK(Events), ThreadsTypeOK, OwnInv,
           UNCHANGED <<events, next_stream_id>>,
           \A p \in Peers : \A cmd \in Queued(p)' : cmd \in Queued(p) \/ cmd.type # "CreateStream"
    PROVE  OwnInv'
<1>1. \A p \in Peers : next_stream_id[p] \in Nat
  BY MaxStreamsAssumption DEF ThreadsTypeOK
<1>2. \A p \in Peers : /\ next_stream_id'[p] \in Nat
                       /\ next_stream_id[p] <= next_stream_id'[p]
  BY <1>1
<1>3. \A p \in Peers : \A cmd \in Queued(p)' : cmd \in Queued(p) \/ CallCounted(p, cmd)'
  BY DEF CallCounted
<1>4. \A p \in Peers : events'[p] = events[p]
  OBVIOUS
<1>. QED
  BY <1>1, <1>2, <1>3, <1>4, OwnStep

\* A call of the application other than create_stream.
LEMMA OwnCall ==
    ASSUME NEW Commands, CommandsTypeOK(Commands), CommandsTypeOK(Commands)',
           NEW Events, EventsTypeOK(Events), ThreadsTypeOK, OwnInv,
           NEW p \in Peers, NEW cmd, SendCommand(p, cmd), cmd.type # "CreateStream",
           UNCHANGED <<events, next_stream_id>>
    PROVE  OwnInv'
<1>1. /\ cmds' = [cmds EXCEPT ![p] = Append(@, cmd)] /\ cmds[p] \in Seq(Commands[p])
      /\ cmds'[p] \in Seq(Commands[p]) /\ DOMAIN cmds = Peers
  BY DEF SendCommand, CommandsTypeOK
<1>2. cmds'[p] = Append(cmds[p], cmd) /\ \A q \in Peers \ {p} : cmds'[q] = cmds[q]
  BY <1>1
<1>3. cmd \in Commands[p]
  BY <1>1, <1>2, AppendedElement
<1>4. Queued(p)' = Queued(p) \cup {cmd}
  BY <1>1, <1>2, <1>3, ElemsAppend DEF Queued
<1>5. \A q \in Peers : \A x \in Queued(q)' : x \in Queued(q) \/ x.type # "CreateStream"
  BY <1>2, <1>4 DEF Queued
<1>. QED
  BY <1>5, OwnQuiet

\* create_stream takes the next index.
LEMMA OwnCreate ==
    ASSUME MaxStreams < IdSpace, NEW Commands, CommandsTypeOK(Commands),
           NEW Events, EventsTypeOK(Events), ThreadsTypeOK, OwnInv,
           NEW p \in Peers, NEW conn, NEW r, CreateStream(p, conn, r),
           CreateStreamCmd(conn, next_stream_id'[p], r) \in Commands[p]
    PROVE  OwnInv'
<1>1. PICK n : n = next_stream_id[p] + 1
  OBVIOUS
<1>2. /\ next_stream_id[p] \in Nat /\ next_stream_id'[p] = n /\ n \in Nat
      /\ \A q \in Peers \ {p} : next_stream_id'[q] = next_stream_id[q]
  BY <1>1, CounterUp
<1>3. PICK x \in Commands[p] : x = CreateStreamCmd(conn, n, r)
  BY <1>2
<1>4. UNCHANGED events /\ (SendCommand(p, x) \/ UNCHANGED cmds)
  BY <1>2, <1>3, CreateStreamParts
<1>5. \A q \in Peers : next_stream_id[q] \in Nat
  BY MaxStreamsAssumption DEF ThreadsTypeOK
<1>6. \A q \in Peers : /\ next_stream_id'[q] \in Nat
                       /\ next_stream_id[q] <= next_stream_id'[q]
  BY <1>1, <1>2, <1>5
<1>7. CallCounted(p, x)'
  <2>1. x.index = n /\ n \in 1 .. n
    BY <1>1, <1>2, <1>3 DEF CreateStreamCmd
  <2>. QED
    BY <1>2, <2>1 DEF CallCounted
<1>8. ASSUME NEW q \in Peers, NEW cmd \in Queued(q)' PROVE cmd \in Queued(q) \/ CallCounted(q, cmd)'
  <2>1. CASE UNCHANGED cmds
    BY <1>8, <2>1 DEF Queued
  <2>2. CASE SendCommand(p, x)
    <3>1. Queued(p)' = Queued(p) \cup {x} /\ \A z \in Peers \ {p} : cmds'[z] = cmds[z]
      BY <2>2, SendCommandQueued
    <3>. QED
      BY <1>7, <1>8, <3>1 DEF Queued
  <2>. QED
    BY <1>4, <2>1, <2>2
<1>9. \A q \in Peers : events'[q] = events[q]
  BY <1>4
<1>. QED
  BY <1>5, <1>6, <1>8, <1>9, OwnStep

\* A step of the backend of p that tells what Tells allows.
LEMMA OwnTold ==
    ASSUME NEW Events, EventsTypeOK(Events), ThreadsTypeOK, OwnInv, UNCHANGED next_stream_id,
           \A q \in Peers : Queued(q)' \subseteq Queued(q),
           NEW p \in Peers, NEW news \in Seq(Events[p]), Emit(p, news),
           \A y \in Elems(news) :
               y.type = "StreamCreated" => Created(p, y.stream) \/ Disconnected(y.conn) \notin Told(p)'
    PROVE  OwnInv'
<1>1. \A q \in Peers : next_stream_id[q] \in Nat
  BY MaxStreamsAssumption DEF ThreadsTypeOK
<1>2. \A q \in Peers : /\ next_stream_id'[q] \in Nat
                       /\ next_stream_id[q] <= next_stream_id'[q]
  BY <1>1
<1>3. \A q \in Peers : \A cmd \in Queued(q)' : cmd \in Queued(q) \/ CallCounted(q, cmd)'
  OBVIOUS
<1>4. events' = [events EXCEPT ![p] = @ \o news] /\ DOMAIN events = Peers
  BY DEF Emit, EventsTypeOK
<1>5. events'[p] = events[p] \o news /\ \A q \in Peers \ {p} : events'[q] = events[q]
  BY <1>4
<1>6. \A stream : Created(p, stream)' <=> Created(p, stream)
  BY DEF Created
<1>7. Tells(p, news)
  BY <1>5, <1>6 DEF Tells
<1>8. \A q \in Peers : events'[q] = events[q] \/ \E told \in Seq(Events[q]) : Tells(q, told)
  BY <1>5, <1>7
<1>. QED
  BY <1>1, <1>2, <1>3, <1>8, OwnStep

\* One event that announces nothing.
LEMMA OwnOne ==
    ASSUME NEW Events, EventsTypeOK(Events), ThreadsTypeOK, OwnInv, UNCHANGED next_stream_id,
           \A q \in Peers : Queued(q)' \subseteq Queued(q),
           NEW p \in Peers, NEW y \in Events[p], Emit(p, <<y>>),
           y.type = "StreamCreated" => Created(p, y.stream)
    PROVE  OwnInv'
<1>1. PICK news \in Seq(Events[p]) : news = <<y>>
  BY OneType
<1>2. Elems(news) = {y}
  BY <1>1 DEF Elems
<1>3. Emit(p, news)
  BY <1>1
<1>. QED
  BY <1>2, <1>3, OwnTold

\* What the two invariants say of the order of events.
LEMMA EventsByInvariants ==
    ASSUME NEW Events, EventsTypeOK(Events), OwnInv, \A p \in Peers : Ordered(events[p]),
           \A p \in Peers : \E C, M : Events[p] = Event(C, M)
    PROVE  ConnectedOnceAndFirst /\ NothingAfterEnd /\ MessagesAnnounced
<1>1. ASSUME NEW p \in Peers, NEW j \in DOMAIN events[p]
      PROVE  /\ Fits(events[p][j], Before(p, j)) /\ OwnAfterEnd(p, events[p][j], Before(p, j))
             /\ events[p][j] \in Events[p]
  <2>1. DOMAIN events[p] = 1 .. Len(events[p]) /\ events[p] \in Seq(Events[p])
    BY LenProperties DEF EventsTypeOK
  <2>2. Earlier(events[p], j) = Before(p, j)
    BY DEF Earlier, Before
  <2>. QED
    BY <2>1, <2>2, ElementOfSeq DEF Ordered, OwnInv
<1>2. ConnectedOnceAndFirst /\ MessagesAnnounced
  BY <1>1 DEF ConnectedOnceAndFirst, MessagesAnnounced, Fits
<1>3. ASSUME NEW p \in Peers, NEW j \in DOMAIN events[p], NEW y, y = events[p][j],
             "conn" \in DOMAIN y, Disconnected(y.conn) \in Before(p, j)
      PROVE  y.type = "StreamClosed" \/ (y.type = "StreamCreated" /\ Created(p, y.stream))
  <2>1. /\ y = Connected(y.conn) \/ y.type \in {"Disconnected", "Message", "StreamCreated", "StreamClosed"}
        /\ Concerns(Disconnected(y.conn), y.conn)
    <3>1. PICK C, M : y \in Event(C, M)
      BY <1>1, <1>3
    <3>2. /\ y = Connected(y.conn)
             \/ y.type \in {"Disconnected", "Message", "StreamCreated", "StreamClosed"}
      BY <1>3, <3>1
         DEF Event, Connected, Disconnected, ConnectError, Message, StreamCreated, StreamClosed
    <3>. QED
      BY <3>2 DEF Concerns, Disconnected
  <2>2. y # Connected(y.conn) /\ y.type \notin {"Disconnected", "Message"}
    BY <1>1, <1>3, <2>1 DEF Fits
  <2>. QED
    BY <1>1, <1>3, <2>1, <2>2 DEF OwnAfterEnd
<1>. QED
  BY <1>2, <1>3 DEF NothingAfterEnd

-------------------------------------------------------------------------------
(* Initial states and steps that leave the queues alone *)

LEMMA PeerInitType ==
    ASSUME NEW Commands, NEW Events, PeerInit
    PROVE  PeerTypeOK(Commands, Events)
<1>1. ASSUME NEW p \in Peers
      PROVE  cmds[p] \in Seq(Commands[p]) /\ events[p] \in Seq(Events[p]) /\ Len(events[p]) = 0
  BY EmptySeq DEF PeerInit
<1>2. CommandsTypeOK(Commands)
  BY <1>1 DEF PeerInit, CommandsTypeOK
<1>3. EventsTypeOK(Events)
  BY <1>1 DEF PeerInit, EventsTypeOK
<1>4. ThreadsTypeOK
  BY MaxStreamsAssumption DEF PeerInit, ThreadsTypeOK
<1>. QED
  BY <1>2, <1>3, <1>4 DEF PeerTypeOK

LEMMA UnchangedCommandsType ==
    ASSUME NEW Commands, CommandsTypeOK(Commands), UNCHANGED cmds
    PROVE  CommandsTypeOK(Commands)'
BY DEF CommandsTypeOK

LEMMA UnchangedEventsType ==
    ASSUME NEW Events, EventsTypeOK(Events), UNCHANGED <<events, polled>>
    PROVE  EventsTypeOK(Events)'
BY DEF EventsTypeOK

LEMMA UnchangedThreadsType ==
    ASSUME ThreadsTypeOK, UNCHANGED <<next_stream_id, app, thread>>
    PROVE  ThreadsTypeOK'
BY DEF ThreadsTypeOK

===============================================================================
