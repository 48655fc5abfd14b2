---------------------------- MODULE BenchmarkProofs ----------------------------
(***************************************************************************)
(* Theorems about Benchmark, for every rate, duration and capacity and     *)
(* whatever the transport, the writer and the process do: how many packets *)
(* a run sends, how long it lasts, what the file has of it, and which      *)
(* losses the statistics count.  Then about Sweep, for all the files that  *)
(* runs can leave: the reports are of the files that are there, and what   *)
(* they say adds up.                                                       *)
(***************************************************************************)
EXTENDS Benchmark, Sweep, FiniteSetTheorems, SequenceTheorems, WellFoundedInduction, TLAPS

-------------------------------------------------------------------------------
(* The inductive invariants *)

\* The piece that has the place i in a file that nothing interrupts.
Cell(i) == <<(i - 1) \div 2, ((i - 1) % 2) + 1>>

\* The pieces of s are those that follow the first k.
Follows(s, k) == \A i \in 1 .. Len(s) : s[i] = Cell(k + i)

Written == Len(file) + Len(buffer) + Len(line)

\* The records in the channel are the last ones.
QueueIsLast ==
    /\ Len(queue) <= Len(recorded)
    /\ \A i \in 1 .. Len(queue) : queue[i] = Len(recorded) - Len(queue) + i

\* File, buffer and line continue each other, and what they lack of the
\* records is in the channel.
PiecesInv ==
    /\ Follows(file, 0) /\ Follows(buffer, Len(file)) /\ Follows(line, Len(file) + Len(buffer))
    /\ Written <= 2 * (Len(recorded) + 1)
    /\ writer \notin {"starting", "running"} => buffer = <<>> /\ line = <<>>
    /\ writer = "starting" => Written = 0 /\ Len(queue) = Len(recorded) /\ QueueIsLast
    /\ writer = "running" => Written = 2 * (Len(recorded) + 1 - Len(queue)) /\ QueueIsLast
    /\ writer = "exited" => Len(file) = 2 * (Len(recorded) + 1)

\* The thread ends for no other reason than a sender that is gone, and the
\* process waits for the thread.
ThreadInv ==
    /\ tx = "dropped" => process # "running"
    /\ writer = "exited" => tx = "dropped"
    /\ process = "ended" => writer \in {"exited", "panicked"}

RecorderInv == recorded \in Seq(Packet) /\ ThreadInv /\ PiecesInv

\* The timers count packets, and the loop stops for one of two reasons.
TimersInv ==
    \A stream \in Streams : /\ last[stream] = seq[stream] * Interval[stream]
                            /\ seq[stream] <= last[stream]

StopInv ==
    /\ connected = (link = "up")
    /\ link \in {"up", "down"} => start # NotStarted
    /\ need_stop => link = "down" \/ (start # NotStarted /\ Elapsed >= Duration * Second)
    /\ at = "returned" => need_stop

LoopInv == TypeOK /\ TimersInv /\ StopInv

-------------------------------------------------------------------------------
(* The parts of TypeOK *)

\* What has been sent: the ids a stream has given out.
Given == {p \in Packet : p.id < seq[p.stream]}

RecordedPackets == {recorded[i] : i \in DOMAIN recorded}

ClientTypeOK ==
    /\ clock \in 0 .. MaxClock
    /\ at \in {"poll", "send", "returned", "failed"}
    /\ link \in {"dialing", "refused", "up", "down"}
    /\ creating \subseteq Streams /\ open \subseteq Streams
    /\ connected \in BOOLEAN /\ need_stop \in BOOLEAN
    /\ start \in {NotStarted} \cup 0 .. clock
    /\ last \in [Streams -> 0 .. clock]
    /\ seq \in [Streams -> Nat]
    /\ copies \in 0 .. MaxCopies

PacketsTypeOK ==
    out \subseteq Given /\ back \subseteq Given /\ seen \subseteq Given /\ RecordedPackets \subseteq Given

LEMMA TypeParts ==
    /\ TypeOK <=> RecorderTypeOK /\ ClientTypeOK /\ PacketsTypeOK
    /\ TypeOK' <=> RecorderTypeOK' /\ ClientTypeOK' /\ PacketsTypeOK'
<1>1. {connected, need_stop} \subseteq BOOLEAN <=> connected \in BOOLEAN /\ need_stop \in BOOLEAN
  OBVIOUS
<1>2. ({connected, need_stop} \subseteq BOOLEAN)' <=> connected' \in BOOLEAN /\ need_stop' \in BOOLEAN
  OBVIOUS
<1>3. TypeOK <=> RecorderTypeOK /\ ClientTypeOK /\ PacketsTypeOK
  BY <1>1 DEF TypeOK, ClientTypeOK, PacketsTypeOK, Given, RecordedPackets
<1>4. TypeOK' <=> RecorderTypeOK' /\ ClientTypeOK' /\ PacketsTypeOK'
  BY <1>2 DEF TypeOK, ClientTypeOK, PacketsTypeOK, Given, RecordedPackets
<1>. QED
  BY <1>3, <1>4

LEMMA SameRecorderType == RecorderTypeOK /\ UNCHANGED recorderVars => RecorderTypeOK'
BY DEF RecorderTypeOK, recorderVars

\* The loop and the transport stay as they are.
LEMMA SameLoop ==
    LoopInv /\ RecorderTypeOK' /\ UNCHANGED <<clock, transportVars, clientVars>> => LoopInv'
<1> SUFFICES ASSUME LoopInv, RecorderTypeOK', UNCHANGED <<clock, transportVars, clientVars>>
             PROVE  LoopInv'
  OBVIOUS
<1> USE DEF LoopInv, transportVars, clientVars
<1>1. ClientTypeOK'
  BY TypeParts DEF ClientTypeOK
<1>2. PacketsTypeOK'
  BY TypeParts DEF PacketsTypeOK, Given, RecordedPackets
<1>3. TimersInv' /\ StopInv'
  BY DEF TimersInv, StopInv, Elapsed
<1>. QED
  BY <1>1, <1>2, <1>3, TypeParts

-------------------------------------------------------------------------------
(* The loop's steps *)

LEMMA TickLoop ==
    ASSUME LoopInv, Tick, RecorderTypeOK'
    PROVE  LoopInv'
<1> USE DEF LoopInv
<1>1. /\ clock \in Nat /\ clock' = clock + 1 /\ clock' \in 0 .. MaxClock
      /\ UNCHANGED <<link, creating, out, back, copies, at, connected, start, open, last, seq,
                     need_stop, recorded, seen>>
      /\ at \in {"poll", "send"}
  BY TypeParts, BenchmarkAssumption DEF Tick, Running, transportVars, clientVars, ClientTypeOK
<1>2. start \in {NotStarted} \cup 0 .. clock /\ last \in [Streams -> 0 .. clock]
  BY TypeParts DEF ClientTypeOK
<1>3. start' \in {NotStarted} \cup 0 .. clock'
  BY <1>1, <1>2
<1>4. last' \in [Streams -> 0 .. clock']
  BY <1>1, <1>2
<1>5. ClientTypeOK'
  BY <1>1, <1>3, <1>4, TypeParts DEF ClientTypeOK
<1>6. PacketsTypeOK'
  BY <1>1, TypeParts DEF PacketsTypeOK, Given, RecordedPackets
<1>7. TimersInv'
  BY <1>1 DEF TimersInv
<1>8. StopInv'
  <2>1. ASSUME start # NotStarted, Elapsed >= Duration * Second
        PROVE  Elapsed' >= Duration * Second
    BY <1>1, <1>2, <2>1, BenchmarkAssumption DEF Elapsed
  <2>. QED
    BY <1>1, <2>1 DEF StopInv
<1>. QED
  BY <1>5, <1>6, <1>7, <1>8, TypeParts

\* The echo and what the network does to packets.
LEMMA PacketsLoop ==
    ASSUME LoopInv, RecorderTypeOK',
           UNCHANGED <<clock, link, creating, at, connected, start, open, last, seq, need_stop>>,
           PacketsTypeOK', copies' \in 0 .. MaxCopies
    PROVE  LoopInv'
<1> USE DEF LoopInv
<1>1. ClientTypeOK'
  BY TypeParts DEF ClientTypeOK
<1>2. TimersInv' /\ StopInv'
  BY DEF TimersInv, StopInv, Elapsed
<1>. QED
  BY <1>1, <1>2, TypeParts

LEMMA CopiesType ==
    ASSUME ClientTypeOK, NEW packets, NEW rest, NEW p, TakesOrCopies(packets, rest, p)
    PROVE  rest \subseteq packets /\ copies' \in 0 .. MaxCopies
BY BenchmarkAssumption DEF TakesOrCopies, ClientTypeOK

LEMMA EchoLoop ==
    ASSUME LoopInv, RecorderTypeOK', NEW p \in out, ServerEcho(p) \/ ServerRejects(p)
    PROVE  LoopInv'
<1>1. ClientTypeOK /\ PacketsTypeOK
  BY TypeParts DEF LoopInv
<1>2. /\ out' \subseteq out /\ back' \subseteq back \cup {p} /\ copies' \in 0 .. MaxCopies
      /\ UNCHANGED <<clock, link, creating, clientVars>>
  <2>1. CASE ServerEcho(p)
    BY <1>1, <2>1, CopiesType DEF ServerEcho
  <2>2. CASE ServerRejects(p)
    BY <1>1, <2>2 DEF ServerRejects, ClientTypeOK
  <2>. QED
    BY <2>1, <2>2
<1>3. PacketsTypeOK'
  BY <1>1, <1>2 DEF PacketsTypeOK, Given, RecordedPackets, clientVars
<1>. QED
  BY <1>2, <1>3, PacketsLoop DEF clientVars

\* A packet that is polled is recorded after the warm-up.
LEMMA MessageLoop ==
    ASSUME LoopInv, RecorderTypeOK', recorded \in Seq(Packet), NEW p \in back, HandleMessage(p)
    PROVE  LoopInv' /\ recorded' \in Seq(Packet)
<1>1. ClientTypeOK /\ PacketsTypeOK
  BY TypeParts DEF LoopInv
<1>2. /\ back' \subseteq back /\ copies' \in 0 .. MaxCopies /\ seen' = seen \cup {p}
      /\ UNCHANGED <<clock, link, creating, out, at, connected, start, open, last, seq, need_stop>>
      /\ recorded' = recorded \/ recorded' = Append(recorded, p)
  BY <1>1, CopiesType DEF HandleMessage
<1>3. p \in Given /\ p \in Packet
  BY <1>1 DEF PacketsTypeOK, Given
<1>4. recorded' \in Seq(Packet) /\ RecordedPackets' \subseteq RecordedPackets \cup {p}
  <2>1. CASE recorded' = recorded
    BY <2>1 DEF RecordedPackets
  <2>2. CASE recorded' = Append(recorded, p)
    <3>1. /\ recorded' \in Seq(Packet) /\ Len(recorded') = Len(recorded) + 1
          /\ \A i \in 1 .. Len(recorded) : recorded'[i] = recorded[i]
          /\ recorded'[Len(recorded) + 1] = p
      BY <1>3, <2>2, AppendProperties
    <3>2. DOMAIN recorded = 1 .. Len(recorded) /\ DOMAIN recorded' = 1 .. Len(recorded) + 1
          /\ Len(recorded) \in Nat
      BY <3>1, LenProperties
    <3>. QED
      BY <3>1, <3>2 DEF RecordedPackets
  <2>. QED
    BY <1>2, <2>1, <2>2
<1>5. PacketsTypeOK'
  BY <1>1, <1>2, <1>3, <1>4 DEF PacketsTypeOK, Given
<1>. QED
  BY <1>2, <1>4, <1>5, PacketsLoop

LEMMA EventLoop ==
    ASSUME LoopInv, RecorderTypeOK', HandleEvent \/ CallFails
    PROVE  LoopInv'
<1>1. ClientTypeOK /\ PacketsTypeOK /\ TimersInv /\ StopInv
  BY TypeParts DEF LoopInv
<1>2. ASSUME NEW p \in back, HandleInvalidMessage(p) PROVE LoopInv'
  <2>1. /\ back' \subseteq back /\ UNCHANGED <<clock, link, creating, out, copies, clientVars>>
    BY <1>2 DEF HandleInvalidMessage
  <2>2. PacketsTypeOK' /\ copies' \in 0 .. MaxCopies
    BY <1>1, <2>1 DEF PacketsTypeOK, Given, RecordedPackets, clientVars, ClientTypeOK
  <2>. QED
    BY <2>1, <2>2, PacketsLoop DEF clientVars
<1>3. ASSUME UNCHANGED <<clock, out, back, copies, last, seq, recorded, seen>>,
             at' \in {"poll", "send", "failed"}, link' \in {"refused", "up", "down"},
             creating' \subseteq Streams, open' \subseteq Streams, connected' \in BOOLEAN,
             need_stop' \in BOOLEAN, start' \in {NotStarted} \cup 0 .. clock, StopInv'
      PROVE  LoopInv'
  <2>1. ClientTypeOK'
    BY <1>1, <1>3 DEF ClientTypeOK
  <2>2. PacketsTypeOK'
    BY <1>1, <1>3 DEF PacketsTypeOK, Given, RecordedPackets
  <2>3. TimersInv'
    BY <1>1, <1>3 DEF TimersInv
  <2>. QED
    BY <1>3, <2>1, <2>2, <2>3, TypeParts DEF LoopInv
<1>4. CASE HandleConnected
  <2>1. /\ link' = "up" /\ connected' = TRUE /\ creating' = Streams /\ at' = at /\ at = "poll"
        /\ UNCHANGED <<clock, out, back, copies, open, last, seq, need_stop, recorded, seen>>
        /\ start' = IF start = NotStarted THEN clock ELSE start
        /\ link = "dialing"
    BY <1>4 DEF HandleConnected, Polling
  <2>2. start' \in 0 .. clock /\ start' # NotStarted /\ (start # NotStarted => start' = start)
    BY <1>1, <2>1 DEF ClientTypeOK, NotStarted
  <2>3. StopInv'
    BY <1>1, <2>1, <2>2 DEF StopInv, Elapsed
  <2>4. open' \subseteq Streams /\ need_stop' \in BOOLEAN
    BY <1>1, <2>1 DEF ClientTypeOK
  <2>. QED
    BY <1>3, <2>1, <2>2, <2>3, <2>4
<1>5. CASE HandleError
  <2>1. /\ link' = "refused" /\ link = "dialing" /\ at = "poll"
        /\ UNCHANGED <<clock, creating, out, back, copies, clientVars>>
    BY <1>5 DEF HandleError, Polling
  <2>2. StopInv'
    BY <1>1, <2>1 DEF StopInv, Elapsed, clientVars
  <2>. QED
    BY <1>1, <1>3, <2>1, <2>2 DEF clientVars, ClientTypeOK
<1>6. ASSUME NEW stream \in Streams, HandleStreamCreated(stream) PROVE LoopInv'
  <2>1. /\ link = "up" /\ at = "poll"
        /\ creating' = creating \ {stream} /\ open' = open \cup {stream}
        /\ UNCHANGED <<clock, link, out, back, copies, at, connected, start, last, seq, need_stop,
                       recorded, seen>>
    BY <1>6 DEF HandleStreamCreated, Polling
  <2>2. StopInv'
    BY <1>1, <2>1 DEF StopInv, Elapsed
  <2>. QED
    BY <1>1, <1>3, <2>1, <2>2 DEF ClientTypeOK
<1>7. CASE HandleDisconnected
  <2>1. /\ link' = "down" /\ link = "up" /\ connected' = FALSE /\ need_stop' = TRUE /\ at' = "send"
        /\ UNCHANGED <<clock, creating, out, back, copies, start, open, last, seq, recorded, seen>>
    BY <1>7 DEF HandleDisconnected
  <2>2. StopInv'
    BY <1>1, <2>1 DEF StopInv
  <2>. QED
    BY <1>1, <1>3, <2>1, <2>2 DEF ClientTypeOK
<1>8. CASE CallFails
  <2>1. /\ at' = "failed"
        /\ UNCHANGED <<clock, link, creating, out, back, copies, connected, start, open, last, seq,
                       need_stop, recorded, seen>>
    BY <1>8 DEF CallFails, transportVars
  <2>2. StopInv'
    BY <1>1, <2>1 DEF StopInv, Elapsed
  <2>3. ClientTypeOK'
    BY <1>1, <2>1 DEF ClientTypeOK
  <2>4. PacketsTypeOK' /\ TimersInv'
    BY <1>1, <2>1 DEF PacketsTypeOK, Given, RecordedPackets, TimersInv
  <2>. QED
    BY <2>2, <2>3, <2>4, TypeParts DEF LoopInv
<1>. QED
  BY <1>2, <1>4, <1>5, <1>6, <1>7, <1>8 DEF HandleEvent

\* A turn sends one packet at most on a stream and moves its timer on by one interval.
LEMMA TurnLoop ==
    ASSUME LoopInv, RecorderTypeOK', Turn
    PROVE  LoopInv'
<1>1. ClientTypeOK /\ PacketsTypeOK /\ TimersInv /\ StopInv
  BY TypeParts DEF LoopInv
<1>2. /\ out' = out \cup {NextPacket(stream) : stream \in Sending}
      /\ seq' = [stream \in Streams |-> seq[stream] + IF stream \in Sending THEN 1 ELSE 0]
      /\ last' = [stream \in Streams |->
                     last[stream] + IF stream \in Sending THEN Interval[stream] ELSE 0]
      /\ need_stop' = (need_stop \/ DurationReached)
      /\ at' = IF need_stop' /\ ~Continues THEN "returned" ELSE "poll"
      /\ UNCHANGED <<clock, link, creating, back, copies, connected, start, open, recorded, seen>>
  BY DEF Turn
<1>3. ASSUME NEW stream \in Streams
      PROVE  /\ seq[stream] \in Nat /\ last[stream] \in 0 .. clock /\ Interval[stream] \in Nat \ {0}
             /\ stream \in Sending => last[stream] + Interval[stream] <= clock
  BY <1>1, BenchmarkAssumption DEF ClientTypeOK, Interval, Sending, Due
<1>4. clock \in 0 .. MaxClock /\ MaxClock \in Nat
  BY <1>1, BenchmarkAssumption DEF ClientTypeOK
<1>5. last' \in [Streams -> 0 .. clock']
  <2>1. ASSUME NEW stream \in Streams PROVE last'[stream] \in 0 .. clock
    BY <1>2, <1>3, <1>4
  <2>. QED
    BY <1>2, <2>1
<1>6. seq' \in [Streams -> Nat]
  BY <1>2, <1>3
<1>7. need_stop' \in BOOLEAN /\ at' \in {"poll", "returned"} /\ (at' = "returned" => need_stop')
  BY <1>2
<1>8. ClientTypeOK'
  BY <1>1, <1>2, <1>5, <1>6, <1>7 DEF ClientTypeOK
<1>9. PacketsTypeOK'
  <2>1. ASSUME NEW p \in Given PROVE p \in Given'
    <3>1. p \in Packet /\ p.stream \in Streams /\ p.id \in Nat /\ p.id < seq[p.stream]
      BY <1>4, <2>1 DEF Given, Packet
    <3>2. seq'[p.stream] >= seq[p.stream] /\ seq'[p.stream] \in Nat
      BY <1>2, <1>3, <3>1
    <3>3. p.id < seq'[p.stream]
      BY <1>3, <3>1, <3>2
    <3>. QED
      BY <3>1, <3>3 DEF Given
  <2>2. ASSUME NEW stream \in Sending PROVE NextPacket(stream) \in Given'
    <3>1. stream \in Streams
      BY <1>1, <2>2 DEF Sending, ClientTypeOK
    <3>2. seq[stream] <= last[stream]
      BY <1>1, <3>1 DEF TimersInv
    <3>3. seq[stream] \in 0 .. MaxClock /\ seq'[stream] = seq[stream] + 1
      BY <1>2, <1>3, <1>4, <2>2, <3>1, <3>2
    <3>4. NextPacket(stream) \in Packet
      BY <3>1, <3>3 DEF NextPacket, Packet
    <3>5. seq[stream] < seq'[stream]
      BY <3>3
    <3>. QED
      BY <3>1, <3>4, <3>5 DEF NextPacket, Given
  <2>3. RecordedPackets' = RecordedPackets
    BY <1>2 DEF RecordedPackets
  <2>. QED
    BY <1>1, <1>2, <2>1, <2>2, <2>3 DEF PacketsTypeOK
<1>10. TimersInv'
  <2>1. ASSUME NEW stream \in Streams
        PROVE  /\ last'[stream] = seq'[stream] * Interval[stream]
               /\ seq'[stream] <= last'[stream]
    <3> DEFINE k == seq[stream]
               i == Interval[stream]
    <3>1. k \in Nat /\ i \in Nat \ {0} /\ last[stream] = k * i /\ k <= last[stream]
      BY <1>1, <1>3 DEF TimersInv
    <3>2. (k + 1) * i = k * i + i
      BY <3>1
    <3>3. CASE stream \in Sending
      <4>1. seq'[stream] = k + 1 /\ last'[stream] = last[stream] + i
        BY <1>2, <3>3
      <4>2. last'[stream] = (k + 1) * i
        BY <3>1, <3>2, <4>1
      <4>3. k + 1 <= last[stream] + i
        BY <1>3, <3>1
      <4>. QED
        BY <4>1, <4>2, <4>3
    <3>4. CASE stream \notin Sending
      <4>1. seq'[stream] = k /\ last'[stream] = last[stream]
        BY <1>2, <1>3, <3>4
      <4>. QED
        BY <3>1, <4>1
    <3>. QED
      BY <3>3, <3>4
  <2>. QED
    BY <2>1 DEF TimersInv
<1>11. StopInv'
  <2>1. ASSUME DurationReached PROVE start # NotStarted /\ Elapsed >= Duration * Second
    BY <1>1, <2>1 DEF DurationReached, StopInv, Elapsed
  <2>. QED
    BY <1>1, <1>2, <1>7, <2>1 DEF StopInv, Elapsed
<1>. QED
  BY <1>8, <1>9, <1>10, <1>11, TypeParts DEF LoopInv

-------------------------------------------------------------------------------
(* Pieces and their places *)

LEMMA LinePieces ==
    ASSUME NEW n \in Nat
    PROVE  /\ Line(n) \in Seq(Piece) /\ Len(Line(n)) = 2 /\ Follows(Line(n), 2 * n)
<1>1. (2 * n) \div 2 = n /\ (2 * n) % 2 = 0 /\ (2 * n + 1) \div 2 = n /\ (2 * n + 1) % 2 = 1
  OBVIOUS
<1>2. Cell(2 * n + 1) = <<n, 1>> /\ Cell(2 * n + 2) = <<n, 2>>
  BY <1>1 DEF Cell
<1>3. Line(n)[1] = <<n, 1>> /\ Line(n)[2] = <<n, 2>> /\ Len(Line(n)) = 2
  BY DEF Line
<1>4. <<n, 1>> \in Piece /\ <<n, 2>> \in Piece
  BY DEF Piece
<1>5. Line(n) \in Seq(Piece)
  BY <1>4 DEF Line
<1>6. ASSUME NEW i \in 1 .. 2 PROVE Line(n)[i] = Cell(2 * n + i)
  <2>1. i = 1 \/ i = 2
    OBVIOUS
  <2>. QED
    BY <1>2, <1>3, <2>1
<1>7. Follows(Line(n), 2 * n)
  BY <1>3, <1>6 DEF Follows
<1>. QED
  BY <1>3, <1>5, <1>7

\* What follows a beginning continues it.
LEMMA FollowsConcat ==
    ASSUME NEW s \in Seq(Piece), NEW t \in Seq(Piece), NEW k \in Nat,
           Follows(s, k), Follows(t, k + Len(s))
    PROVE  s \o t \in Seq(Piece) /\ Len(s \o t) = Len(s) + Len(t) /\ Follows(s \o t, k)
<1>1. /\ s \o t \in Seq(Piece) /\ Len(s \o t) = Len(s) + Len(t)
      /\ \A i \in 1 .. Len(s) + Len(t) :
            (s \o t)[i] = IF i <= Len(s) THEN s[i] ELSE t[i - Len(s)]
      /\ Len(s) \in Nat /\ Len(t) \in Nat
  BY ConcatProperties, LenProperties
<1>2. ASSUME NEW i \in 1 .. Len(s) + Len(t) PROVE (s \o t)[i] = Cell(k + i)
  <2>1. CASE i <= Len(s)
    BY <1>1, <2>1 DEF Follows
  <2>2. CASE i > Len(s)
    <3>1. i - Len(s) \in 1 .. Len(t) /\ (k + Len(s)) + (i - Len(s)) = k + i
      BY <1>1, <2>2
    <3>2. t[i - Len(s)] = Cell((k + Len(s)) + (i - Len(s)))
      BY <3>1 DEF Follows
    <3>. QED
      BY <1>1, <2>2, <3>1, <3>2
  <2>. QED
    BY <1>1, <2>1, <2>2
<1>. QED
  BY <1>1, <1>2 DEF Follows

\* The head of a line comes next, and its tail after that.
LEMMA FollowsTail ==
    ASSUME NEW s \in Seq(Piece), s # <<>>, NEW k \in Nat, Follows(s, k)
    PROVE  /\ Head(s) \in Piece /\ Head(s) = Cell(k + 1)
           /\ Tail(s) \in Seq(Piece) /\ Len(Tail(s)) = Len(s) - 1 /\ Follows(Tail(s), k + 1)
           /\ Len(s) \in Nat \ {0}
<1>1. /\ Head(s) \in Piece /\ Tail(s) \in Seq(Piece) /\ Len(Tail(s)) = Len(s) - 1
      /\ \A i \in 1 .. Len(Tail(s)) : Tail(s)[i] = s[i + 1]
      /\ Len(s) \in Nat
  BY HeadTailProperties, LenProperties
<1>2. Len(s) \in Nat \ {0} /\ Head(s) = s[1]
  BY <1>1
<1>3. ASSUME NEW i \in 1 .. Len(Tail(s)) PROVE Tail(s)[i] = Cell((k + 1) + i)
  <2>1. i + 1 \in 1 .. Len(s) /\ k + (i + 1) = (k + 1) + i
    BY <1>1
  <2>. QED
    BY <1>1, <2>1 DEF Follows
<1>. QED
  BY <1>1, <1>2, <1>3 DEF Follows

LEMMA FollowsBeginning ==
    ASSUME NEW s \in Seq(Piece), NEW k \in Nat, Follows(s, k), NEW i \in 0 .. Len(s)
    PROVE  /\ SubSeq(s, 1, i) \in Seq(Piece) /\ Len(SubSeq(s, 1, i)) = i
           /\ Follows(SubSeq(s, 1, i), k)
<1>1. Len(s) \in Nat /\ \A j \in 1 .. i : s[j] \in Piece
  BY LenProperties, ElementOfSeq
<1>2. /\ SubSeq(s, 1, i) \in Seq(Piece) /\ Len(SubSeq(s, 1, i)) = i
      /\ \A j \in 1 .. i : SubSeq(s, 1, i)[j] = s[j]
  BY <1>1, SubSeqProperties
<1>. QED
  BY <1>1, <1>2 DEF Follows

LEMMA FollowsEmpty == \A k : <<>> \in Seq(Piece) /\ Len(<<>>) = 0 /\ Follows(<<>>, k)
BY EmptySeq DEF Follows

LEMMA Lengths ==
    ASSUME RecorderTypeOK, recorded \in Seq(Packet)
    PROVE  /\ Len(file) \in Nat /\ Len(buffer) \in Nat /\ Len(line) \in Nat
           /\ Len(queue) \in Nat /\ Len(recorded) \in Nat
BY LenProperties DEF RecorderTypeOK

-------------------------------------------------------------------------------
(* The recorder's steps *)

LEMMA DropRecorder ==
    ASSUME RecorderTypeOK, RecorderInv, Drop \/ Join, UNCHANGED recorded
    PROVE  RecorderTypeOK' /\ RecorderInv'
<1> USE DEF RecorderInv
<1>1. /\ UNCHANGED <<queue, writer, line, buffer, file>>
      /\ tx' \in {"open", "dropped"} /\ process' \in {"joining", "ended"}
  BY DEF Drop, Join, RecorderTypeOK
<1>2. RecorderTypeOK'
  BY <1>1 DEF RecorderTypeOK
<1>3. PiecesInv'
  BY <1>1 DEF PiecesInv, Written, QueueIsLast, Follows
<1>4. ThreadInv'
  BY DEF Drop, Join, ThreadInv
<1>. QED
  BY <1>2, <1>3, <1>4

LEMMA CreateRecorder ==
    ASSUME RecorderTypeOK, RecorderInv, CreateFile, UNCHANGED recorded
    PROVE  RecorderTypeOK' /\ RecorderInv'
<1> USE DEF RecorderInv
<1>1. /\ writer = "starting" /\ writer' = "running" /\ line' = Line(0)
      /\ UNCHANGED <<tx, queue, buffer, file, process>>
  BY DEF CreateFile
<1>2. line' \in Seq(Piece) /\ Len(line') = 2 /\ Follows(line', 0)
  BY <1>1, LinePieces
<1>3. RecorderTypeOK'
  <2>1. writer' \in {"starting", "running", "exited", "panicked", "killed"} /\ Len(line') <= 2
    BY <1>1, <1>2
  <2>. QED
    BY <1>1, <1>2, <2>1 DEF RecorderTypeOK
<1>4. Len(file) = 0 /\ Len(buffer) = 0 /\ Len(queue) = Len(recorded) /\ QueueIsLast
  BY <1>1, Lengths DEF PiecesInv, Written
<1>5. Follows(line', Len(file) + Len(buffer))
  BY <1>2, <1>4
<1>6. Follows(file, 0) /\ Follows(buffer, Len(file))
  BY DEF PiecesInv
<1>7. PiecesInv'
  BY <1>1, <1>2, <1>4, <1>5, <1>6, Lengths DEF PiecesInv, Written, QueueIsLast, Follows
<1>8. ThreadInv'
  BY <1>1 DEF ThreadInv
<1>. QED
  BY <1>3, <1>7, <1>8

LEMMA TakeRecorder ==
    ASSUME RecorderTypeOK, RecorderInv, Take, UNCHANGED recorded
    PROVE  RecorderTypeOK' /\ RecorderInv'
<1> USE DEF RecorderInv
<1>1. /\ writer = "running" /\ line = <<>> /\ queue # <<>> /\ queue' = Tail(queue)
      /\ line' = Line(Head(queue)) /\ UNCHANGED <<tx, writer, buffer, file, process>>
  BY DEF Take
<1>2. /\ Written = 2 * (Len(recorded) + 1 - Len(queue)) /\ QueueIsLast
      /\ Follows(file, 0) /\ Follows(buffer, Len(file))
  BY <1>1 DEF PiecesInv
<1>3. /\ queue' \in Seq(Nat) /\ Len(queue') = Len(queue) - 1 /\ Len(queue) > 0
      /\ \A i \in 1 .. Len(queue') : queue'[i] = queue[i + 1]
      /\ Head(queue) = queue[1] /\ Head(queue) \in Nat
  BY <1>1, HeadTailProperties, Lengths DEF RecorderTypeOK
<1>4. Head(queue) = Len(recorded) - Len(queue) + 1
  BY <1>2, <1>3, Lengths DEF QueueIsLast
<1>5. PICK n \in Nat : n = Head(queue)
  BY <1>3
<1>6. line' \in Seq(Piece) /\ Len(line') = 2 /\ Follows(line', 2 * n)
  BY <1>1, <1>5, LinePieces
<1>7. Len(file) + Len(buffer) = 2 * n
  BY <1>1, <1>2, <1>4, <1>5, Lengths DEF Written
<1>8. Follows(line', Len(file) + Len(buffer))
  BY <1>6, <1>7
<1>9. QueueIsLast'
  <2>1. ASSUME NEW i \in 1 .. Len(queue') PROVE queue'[i] = Len(recorded) - Len(queue') + i
    <3>1. i + 1 \in 1 .. Len(queue) /\ i \in Nat
      BY <1>3, Lengths
    <3>2. queue[i + 1] = Len(recorded) - Len(queue) + (i + 1)
      BY <1>2, <3>1 DEF QueueIsLast
    <3>3. Len(recorded) - Len(queue) + (i + 1) = Len(recorded) - (Len(queue) - 1) + i
      BY <3>1, Lengths
    <3>4. queue'[i] = queue[i + 1]
      BY <1>3
    <3>5. Len(queue') = Len(queue) - 1
      BY <1>3
    <3>. QED
      BY <3>2, <3>3, <3>4, <3>5
  <2>2. Len(queue') <= Len(recorded)
    BY <1>2, <1>3, Lengths DEF QueueIsLast
  <2>. QED
    BY <2>1, <2>2 DEF QueueIsLast
<1>10. Written' = 2 * (Len(recorded) + 1 - Len(queue')) /\ Written' <= 2 * (Len(recorded) + 1)
  <2>1. Len(queue') = Len(queue) - 1 /\ Len(queue) \in Nat /\ Len(recorded) \in Nat
    BY <1>3, Lengths
  <2>2. Written' = 2 * n + 2
    BY <1>1, <1>6, <1>7 DEF Written
  <2>3. n = Len(recorded) - Len(queue) + 1 /\ Len(queue) > 0
    BY <1>3, <1>4, <1>5
  <2>. QED
    BY <2>1, <2>2, <2>3
<1>11. PiecesInv'
  <2>1. Follows(file, 0)' /\ Follows(buffer, Len(file))' /\ Follows(line, Len(file) + Len(buffer))'
    BY <1>1, <1>2, <1>8 DEF Follows
  <2>. QED
    BY <1>1, <1>9, <1>10, <2>1 DEF PiecesInv
<1>12. RecorderTypeOK'
  <2>1. UNCHANGED <<tx, writer, buffer, file, process>>
    BY <1>1
  <2>2. Len(line') <= 2
    <3>1. Len(line') = 2
      BY <1>6
    <3>. QED
      BY <3>1
  <2>. QED
    BY <1>3, <1>6, <2>1, <2>2 DEF RecorderTypeOK
<1>13. ThreadInv'
  BY <1>1 DEF ThreadInv
<1>. QED
  BY <1>11, <1>12, <1>13

LEMMA WriteRecorder ==
    ASSUME RecorderTypeOK, RecorderInv, Write, UNCHANGED recorded
    PROVE  RecorderTypeOK' /\ RecorderInv'
<1> USE DEF RecorderInv
<1>1. /\ writer = "running" /\ line # <<>> /\ line' = Tail(line)
      /\ UNCHANGED <<tx, queue, writer, process>>
  BY DEF Write
<1>2. /\ Written = 2 * (Len(recorded) + 1 - Len(queue)) /\ QueueIsLast
      /\ Follows(file, 0) /\ Follows(buffer, Len(file)) /\ Follows(line, Len(file) + Len(buffer))
  BY <1>1 DEF PiecesInv
<1>3. PICK k \in Nat : k = Len(file) + Len(buffer)
  BY Lengths
<1>4. /\ Head(line) \in Piece /\ Head(line) = Cell(k + 1)
      /\ line' \in Seq(Piece) /\ Len(line') = Len(line) - 1 /\ Follows(line', k + 1)
      /\ Len(line) \in Nat \ {0}
  BY <1>1, <1>2, <1>3, FollowsTail DEF RecorderTypeOK
<1>5. PICK next : /\ next = <<Head(line)>> /\ next \in Seq(Piece) /\ Len(next) = 1
                  /\ Follows(next, k)
  <2>1. <<Head(line)>> \in Seq(Piece) /\ Len(<<Head(line)>>) = 1
    BY <1>4
  <2>2. ASSUME NEW i \in 1 .. 1 PROVE <<Head(line)>>[i] = Cell(k + i)
    BY <1>4
  <2>3. Follows(<<Head(line)>>, k)
    BY <2>1, <2>2 DEF Follows
  <2>. QED
    BY <2>1, <2>3
<1>6. /\ buffer' \in Seq(Piece) /\ file' \in Seq(Piece) /\ Len(buffer') <= Capacity
      /\ Len(file') + Len(buffer') = k + 1
      /\ Follows(file', 0) /\ Follows(buffer', Len(file'))
  <2>1. CASE Len(buffer) < Capacity
    <3>1. buffer' = Append(buffer, Head(line)) /\ file' = file
      BY <2>1 DEF Write
    <3>2. buffer' = buffer \o next
      BY <1>4, <1>5, <3>1, AppendIsConcat DEF RecorderTypeOK
    <3>3. Follows(next, Len(file) + Len(buffer))
      BY <1>3, <1>5
    <3>4. buffer' \in Seq(Piece) /\ Len(buffer') = Len(buffer) + 1 /\ Follows(buffer', Len(file))
      BY <1>2, <1>5, <3>2, <3>3, Lengths, FollowsConcat DEF RecorderTypeOK
    <3>. QED
      BY <1>2, <1>3, <2>1, <3>1, <3>4, Lengths, RecorderAssumption DEF RecorderTypeOK
  <2>2. CASE ~(Len(buffer) < Capacity)
    <3>1. buffer' = next /\ file' = file \o buffer
      BY <1>5, <2>2 DEF Write
    <3>2. Follows(buffer, 0 + Len(file))
      BY <1>2, Lengths
    <3>3. file' \in Seq(Piece) /\ Len(file') = k /\ Follows(file', 0)
      BY <1>2, <1>3, <3>1, <3>2, FollowsConcat DEF RecorderTypeOK
    <3>. QED
      BY <1>5, <3>1, <3>3, RecorderAssumption
  <2>. QED
    BY <2>1, <2>2
<1>7. RecorderTypeOK'
  BY <1>1, <1>4, <1>6 DEF RecorderTypeOK
<1>8. Follows(line', Len(file') + Len(buffer'))
  BY <1>4, <1>6
<1>9. Written' = Written
  <2>1. Len(file') + Len(buffer') = k + 1 /\ Len(line') = Len(line) - 1 /\ Len(line) \in Nat
    BY <1>4, <1>6
  <2>2. Written = k + Len(line)
    BY <1>3 DEF Written
  <2>. QED
    BY <2>1, <2>2 DEF Written
<1>10. PiecesInv'
  <2>1. Written' <= 2 * (Len(recorded) + 1) /\ Follows(file, 0)'
    BY <1>6, <1>9 DEF PiecesInv, Follows
  <2>2. Follows(buffer, Len(file))' /\ Follows(line, Len(file) + Len(buffer))'
    BY <1>6, <1>8 DEF Follows
  <2>3. Written' = 2 * (Len(recorded) + 1 - Len(queue)) /\ QueueIsLast'
    BY <1>1, <1>2, <1>9 DEF QueueIsLast
  <2>. QED
    BY <1>1, <2>1, <2>2, <2>3 DEF PiecesInv
<1>11. ThreadInv'
  BY <1>1 DEF ThreadInv
<1>. QED
  BY <1>7, <1>10, <1>11

\* The thread ends: a beginning of the buffer gets to the file, all of it if
\* nothing failed.
LEMMA EndRecorder ==
    ASSUME RecorderTypeOK, RecorderInv, UNCHANGED recorded,
           NEW i \in 0 .. Len(buffer), file' = file \o SubSeq(buffer, 1, i),
           buffer' = <<>>, line' = <<>>, queue' \in Seq(Nat),
           writer' \in {"exited", "panicked", "killed"},
           writer' = "exited" =>
               i = Len(buffer) /\ writer = "running" /\ line = <<>> /\ queue = <<>>
    PROVE  PiecesInv' /\ file' \in Seq(Piece)
<1> USE DEF RecorderInv
<1>1. Follows(file, 0) /\ Follows(buffer, Len(file)) /\ Written <= 2 * (Len(recorded) + 1)
  BY DEF PiecesInv
<1>2. PICK t : /\ t = SubSeq(buffer, 1, i) /\ t \in Seq(Piece) /\ Len(t) = i
               /\ Follows(t, Len(file))
  BY <1>1, Lengths, FollowsBeginning DEF RecorderTypeOK
<1>3. Follows(t, 0 + Len(file))
  BY <1>2, Lengths
<1>4. file' \in Seq(Piece) /\ Len(file') = Len(file) + i /\ Follows(file', 0)
  BY <1>1, <1>2, <1>3, FollowsConcat DEF RecorderTypeOK
<1>5. Len(buffer') = 0 /\ Len(line') = 0 /\ Follows(buffer', Len(file'))
      /\ Follows(line', Len(file') + Len(buffer'))
  BY FollowsEmpty
<1>6. Written' <= 2 * (Len(recorded') + 1)
  BY <1>1, <1>4, <1>5, Lengths DEF Written
<1>7. ASSUME writer' = "exited" PROVE Len(file') = 2 * (Len(recorded') + 1)
  <2>1. Len(queue) = 0 /\ Len(line) = 0 /\ Written = 2 * (Len(recorded) + 1 - Len(queue))
    BY <1>7, FollowsEmpty DEF PiecesInv
  <2>2. Len(file) + Len(buffer) = 2 * (Len(recorded) + 1)
    BY <2>1, Lengths DEF Written
  <2>3. Len(file') = Len(file) + Len(buffer)
    BY <1>4, <1>7
  <2>. QED
    BY <2>2, <2>3
<1>8. PiecesInv'
  <2>1. Follows(file, 0)' /\ Follows(buffer, Len(file))' /\ Follows(line, Len(file) + Len(buffer))'
    BY <1>4, <1>5 DEF Follows
  <2>. QED
    BY <1>6, <1>7, <2>1 DEF PiecesInv
<1>. QED
  BY <1>4, <1>8

LEMMA StopRecorder ==
    ASSUME RecorderTypeOK, RecorderInv, UNCHANGED recorded,
           Exit \/ FailUnwinding \/ FailAborting \/ Kill
    PROVE  RecorderTypeOK' /\ RecorderInv'
<1> USE DEF RecorderInv
<1>1. PICK i \in 0 .. Len(buffer) :
          /\ file' = file \o SubSeq(buffer, 1, i)
          /\ Exit => i = Len(buffer)
  <2>1. ASSUME Exit PROVE file' = file \o SubSeq(buffer, 1, Len(buffer))
    BY <2>1, SubSeqFull DEF Exit, RecorderTypeOK
  <2>2. ASSUME FailUnwinding \/ FailAborting
        PROVE  ~Exit /\ \E i \in 0 .. Len(buffer) : file' = file \o SubSeq(buffer, 1, i)
    BY <2>2 DEF FailUnwinding, FailAborting, Spills, Exit
  <2>3. ASSUME Kill PROVE ~Exit /\ file' = file \o SubSeq(buffer, 1, 0)
    <3>1. SubSeq(buffer, 1, 0) = <<>>
      BY SubSeqEmpty
    <3>2. file \o <<>> = file
      BY ConcatEmptySeq DEF RecorderTypeOK
    <3>. QED
      BY <2>3, <3>1, <3>2 DEF Kill, Exit
  <2>4. 0 \in 0 .. Len(buffer) /\ Len(buffer) \in 0 .. Len(buffer)
    BY Lengths
  <2>. QED
    BY <2>1, <2>2, <2>3, <2>4
<1>2. /\ buffer' = <<>> /\ line' = <<>> /\ queue' \in Seq(Nat)
      /\ writer' \in {"exited", "panicked", "killed"}
      /\ writer' = "exited" =>
            i = Len(buffer) /\ writer = "running" /\ line = <<>> /\ queue = <<>>
  BY <1>1, EmptySeq DEF Exit, FailUnwinding, FailAborting, Kill, Forgotten, RecorderTypeOK
<1>3. PiecesInv' /\ file' \in Seq(Piece)
  BY <1>1, <1>2, EndRecorder
<1>4. tx' \in {"open", "dropped"} /\ process' \in {"running", "joining", "ended", "killed"}
  BY DEF Exit, FailUnwinding, FailAborting, Kill, RecorderTypeOK
<1>5. RecorderTypeOK'
  BY <1>2, <1>3, <1>4, FollowsEmpty, RecorderAssumption DEF RecorderTypeOK
<1>6. ThreadInv'
  BY DEF ThreadInv, Exit, FailUnwinding, FailAborting, Kill, MayPanic
<1>. QED
  BY <1>3, <1>5, <1>6

\* A record goes into the channel, or the thread that would write it has panicked.
LEMMA MessageRecorder ==
    ASSUME RecorderTypeOK, RecorderInv, NEW p \in back, HandleMessage(p), recorded' \in Seq(Packet)
    PROVE  RecorderTypeOK' /\ RecorderInv'
<1> USE DEF RecorderInv
<1>1. CASE UNCHANGED <<recorded, recorderVars>>
  BY <1>1 DEF recorderVars, RecorderTypeOK, PiecesInv, ThreadInv, Written, QueueIsLast, Follows
<1>2. CASE recorded' = Append(recorded, p) /\ Record(Len(recorded) + 1)
  <2>1. /\ Len(recorded') = Len(recorded) + 1
        /\ queue' = IF writer = "panicked" THEN queue ELSE Append(queue, Len(recorded) + 1)
        /\ UNCHANGED <<tx, writer, line, buffer, file, process>>
    BY <1>2, AppendProperties DEF Record
  <2>2. Len(recorded) + 1 \in Nat /\ queue \in Seq(Nat)
    BY Lengths DEF RecorderTypeOK
  <2>3. queue' \in Seq(Nat) /\ RecorderTypeOK'
    BY <2>1, <2>2, AppendProperties DEF RecorderTypeOK
  <2>4. process = "running" /\ writer # "exited"
    BY DEF HandleMessage, Polling, Running, ThreadInv
  <2>5. ASSUME writer # "panicked", QueueIsLast
        PROVE  Len(queue') = Len(queue) + 1 /\ QueueIsLast'
    <3>1. /\ Len(queue') = Len(queue) + 1 /\ queue'[Len(queue) + 1] = Len(recorded) + 1
          /\ \A i \in 1 .. Len(queue) : queue'[i] = queue[i]
      BY <2>1, <2>2, <2>5, AppendProperties
    <3>2. ASSUME NEW i \in 1 .. Len(queue')
          PROVE  queue'[i] = Len(recorded') - Len(queue') + i
      <4>1. CASE i = Len(queue) + 1
        <5>1. queue'[i] = Len(recorded) + 1
          BY <3>1, <4>1
        <5>2. Len(recorded') = Len(recorded) + 1 /\ Len(queue') = i /\ i \in Nat
          BY <2>1, <3>1, <4>1, Lengths
        <5>. QED
          BY <5>1, <5>2, Lengths
      <4>2. CASE i # Len(queue) + 1
        <5>1. i \in 1 .. Len(queue)
          BY <3>1, <4>2, Lengths
        <5>2. queue'[i] = Len(recorded) - Len(queue) + i
          BY <2>5, <3>1, <5>1 DEF QueueIsLast
        <5>3. Len(recorded') = Len(recorded) + 1 /\ Len(queue') = Len(queue) + 1
          BY <2>1, <3>1
        <5>4. i \in Nat /\ Len(recorded) \in Nat /\ Len(queue) \in Nat
          BY <5>1, Lengths
        <5>5. (Len(recorded) + 1) - (Len(queue) + 1) + i = Len(recorded) - Len(queue) + i
          BY <5>4
        <5>. QED
          BY <5>2, <5>3, <5>5
      <4>. QED
        BY <4>1, <4>2
    <3>3. Len(queue') <= Len(recorded')
      BY <2>1, <2>5, <3>1, Lengths DEF QueueIsLast
    <3>. QED
      BY <3>1, <3>2, <3>3 DEF QueueIsLast
  <2>6. Written' = Written /\ Written \in Nat
    BY <2>1, Lengths DEF Written
  <2>7. Written' <= 2 * (Len(recorded') + 1)
    BY <2>1, <2>6, Lengths DEF PiecesInv
  <2>8. writer = "starting" => Written' = 0 /\ Len(queue') = Len(recorded') /\ QueueIsLast'
    BY <2>1, <2>5, <2>6 DEF PiecesInv
  <2>9. writer = "running" =>
            Written' = 2 * (Len(recorded') + 1 - Len(queue')) /\ QueueIsLast'
    BY <2>1, <2>5, <2>6, Lengths DEF PiecesInv
  <2>10. /\ Follows(file, 0)' /\ Follows(buffer, Len(file))'
         /\ Follows(line, Len(file) + Len(buffer))'
    BY <2>1 DEF PiecesInv, Follows
  <2>11. PiecesInv'
    BY <2>1, <2>4, <2>7, <2>8, <2>9, <2>10 DEF PiecesInv
  <2>. QED
    BY <2>1, <2>3, <2>11 DEF ThreadInv
<1>. QED
  BY <1>1, <1>2 DEF HandleMessage

-------------------------------------------------------------------------------
RunInv == LoopInv /\ RecorderInv

LEMMA RunInit == Init => RunInv
<1> SUFFICES ASSUME Init PROVE RunInv
  OBVIOUS
<1>1. RecorderTypeOK
  <2>1. queue \in Seq(Nat) /\ line \in Seq(Piece) /\ buffer \in Seq(Piece) /\ file \in Seq(Piece)
    BY EmptySeq DEF Init, RecorderInit
  <2>2. Len(line) <= 2 /\ Len(buffer) <= Capacity
    BY FollowsEmpty, RecorderAssumption DEF Init, RecorderInit
  <2>3. tx = "open" /\ writer = "starting" /\ process = "running"
    BY DEF Init, RecorderInit
  <2>. QED
    BY <2>1, <2>2, <2>3 DEF RecorderTypeOK
<1>2. ClientTypeOK
  <2>1. clock \in 0 .. MaxClock /\ copies \in 0 .. MaxCopies
    BY BenchmarkAssumption DEF Init
  <2>2. last \in [Streams -> 0 .. clock] /\ seq \in [Streams -> Nat]
    BY DEF Init
  <2>3. start \in {NotStarted} \cup 0 .. clock /\ creating \subseteq Streams /\ open \subseteq Streams
    BY DEF Init
  <2>4. at = "poll" /\ link = "dialing" /\ connected = FALSE /\ need_stop = FALSE
    BY DEF Init
  <2>. QED
    BY <2>1, <2>2, <2>3, <2>4 DEF ClientTypeOK
<1>3. PacketsTypeOK
  <2>1. RecordedPackets = {} /\ out = {} /\ back = {} /\ seen = {}
    BY DEF Init, RecordedPackets
  <2>. QED
    BY <2>1 DEF PacketsTypeOK
<1>4. TimersInv /\ StopInv
  <2>1. ASSUME NEW stream \in Streams
        PROVE  last[stream] = 0 /\ seq[stream] = 0 /\ Interval[stream] \in Nat
    BY BenchmarkAssumption DEF Init, Interval
  <2>2. TimersInv
    BY <2>1 DEF TimersInv
  <2>3. StopInv
    BY DEF Init, StopInv
  <2>. QED
    BY <2>2, <2>3
<1>5. PiecesInv
  BY FollowsEmpty DEF Init, RecorderInit, PiecesInv, Written, QueueIsLast
<1>6. ThreadInv /\ recorded \in Seq(Packet)
  BY EmptySeq DEF Init, RecorderInit, ThreadInv
<1>. QED
  BY <1>1, <1>2, <1>3, <1>4, <1>5, <1>6, TypeParts DEF RunInv, LoopInv, RecorderInv

LEMMA RunStep == RunInv /\ [Next]_vars => RunInv'
<1> SUFFICES ASSUME RunInv, [Next]_vars PROVE RunInv'
  OBVIOUS
<1>0. LoopInv /\ RecorderInv /\ RecorderTypeOK /\ recorded \in Seq(Packet)
  BY TypeParts DEF RunInv, LoopInv, RecorderInv
<1>1. CASE BenchmarkStep /\ UNCHANGED recorderVars
  <2>1. RecorderTypeOK'
    BY <1>0, <1>1, SameRecorderType
  <2>2. UNCHANGED recorded
    BY <1>1 DEF BenchmarkStep, Tick, ServerEcho, ServerRejects, HandleEvent, HandleConnected,
                HandleError, HandleDisconnected, HandleStreamCreated, HandleInvalidMessage,
                CallFails, Turn, clientVars
  <2>3. RecorderInv'
    BY <1>0, <1>1, <2>2
       DEF RecorderInv, ThreadInv, PiecesInv, Written, QueueIsLast, Follows, recorderVars
  <2>4. LoopInv'
    BY <1>0, <1>1, <2>1, TickLoop, EchoLoop, EventLoop, TurnLoop DEF BenchmarkStep
  <2>. QED
    BY <2>3, <2>4 DEF RunInv
<1>2. ASSUME NEW p \in back, HandleMessage(p) PROVE RunInv'
  <2>1. recorded' \in Seq(Packet)
    <3>1. p \in Packet
      BY <1>0, TypeParts DEF LoopInv, PacketsTypeOK, Given
    <3>. QED
      BY <1>0, <1>2, <3>1, AppendProperties DEF HandleMessage
  <2>2. RecorderTypeOK' /\ RecorderInv'
    BY <1>0, <1>2, <2>1, MessageRecorder
  <2>. QED
    BY <1>0, <1>2, <2>2, MessageLoop DEF RunInv
<1>3. CASE RecorderStep /\ UNCHANGED <<clock, transportVars, clientVars>>
  <2>1. UNCHANGED recorded
    BY <1>3 DEF clientVars
  <2>2. RecorderTypeOK' /\ RecorderInv'
    BY <1>0, <1>3, <2>1, DropRecorder, CreateRecorder, TakeRecorder, WriteRecorder, StopRecorder
       DEF RecorderStep, Return, WriterStep
  <2>. QED
    BY <1>0, <1>3, <2>2, SameLoop DEF RunInv
<1>4. CASE UNCHANGED vars
  <2>1. UNCHANGED recorderVars /\ UNCHANGED <<clock, transportVars, clientVars>>
    BY <1>4 DEF vars
  <2>2. RecorderTypeOK' /\ RecorderInv'
    BY <1>0, <2>1, SameRecorderType
       DEF RecorderInv, ThreadInv, PiecesInv, Written, QueueIsLast, Follows, recorderVars, clientVars
  <2>. QED
    BY <1>0, <2>1, <2>2, SameLoop DEF RunInv
<1>. QED
  BY <1>1, <1>2, <1>3, <1>4 DEF Next

LEMMA RunTheorem == Spec => []RunInv
BY RunInit, RunStep, PTL DEF Spec

-------------------------------------------------------------------------------
\* For every rate, duration and capacity, the loop's and the recorder's state
\* is what it may be, and no packet is anywhere with an id its stream has not
\* given out.
THEOREM TypeTheorem == Spec => []TypeOK
<1>1. RunInv => TypeOK
  BY DEF RunInv, LoopInv
<1>. QED
  BY <1>1, RunTheorem, PTL

\* However late the loop turns, a stream has no more packets than its
\* frequency gives: a timer moves on by its interval, once for every packet.
THEOREM RateTheorem == Spec => []RateHolds
<1>1. RunInv => RateHolds
  BY TypeParts DEF RunInv, LoopInv, ClientTypeOK, TimersInv, RateHolds
<1>. QED
  BY <1>1, RunTheorem, PTL

\* A run that returns has lasted its duration from the connection on, or the
\* connection has ended.
THEOREM DurationTheorem == Spec => []RunsFullDuration
<1>1. RunInv => RunsFullDuration
  BY DEF RunInv, LoopInv, StopInv, RunsFullDuration
<1>. QED
  BY <1>1, RunTheorem, PTL

\* The pieces of the complete file.
LEMMA CompleteFile ==
    ASSUME NEW n \in Nat
    PROVE  /\ Complete(n) \in Seq(Piece) /\ Len(Complete(n)) = 2 * (n + 1)
           /\ \A i \in 1 .. 2 * (n + 1) : Complete(n)[i] = Cell(i)
<1>1. \A i \in 1 .. 2 * (n + 1) : Cell(i) \in Piece
  <2>1. ASSUME NEW i \in 1 .. 2 * (n + 1) PROVE (i - 1) \div 2 \in Nat /\ (i - 1) % 2 \in {0, 1}
    OBVIOUS
  <2>. QED
    BY <2>1 DEF Cell, Piece
<1>2. 2 * (n + 1) \in Nat /\ Complete(n) = [i \in 1 .. 2 * (n + 1) |-> Cell(i)]
  BY DEF Complete, Cell
<1>. QED
  BY <1>1, <1>2

\* Whatever becomes of the writer and the process, the file has the records
\* in order, each once, and a torn line only at its end.
THEOREM PrefixTheorem == Spec => []FileIsPrefix
<1>1. ASSUME RunInv PROVE FileIsPrefix
  <2>1. /\ file \in Seq(Piece) /\ Follows(file, 0) /\ recorded \in Seq(Packet)
        /\ Written <= 2 * (Len(recorded) + 1) /\ RecorderTypeOK
    BY <1>1, TypeParts DEF RunInv, LoopInv, RecorderInv, PiecesInv, RecorderTypeOK
  <2>2. Len(file) \in Nat /\ Len(recorded) \in Nat /\ Len(file) <= 2 * (Len(recorded) + 1)
    BY <2>1, Lengths DEF Written
  <2>3. PICK c : /\ c = Complete(Len(recorded)) /\ c \in Seq(Piece)
                 /\ Len(c) = 2 * (Len(recorded) + 1) /\ \A i \in 1 .. Len(c) : c[i] = Cell(i)
    BY <2>2, CompleteFile
  <2>4. PICK t : /\ t = SubSeq(c, 1, Len(file)) /\ t \in Seq(Piece) /\ Len(t) = Len(file)
                 /\ \A i \in 1 .. Len(file) : t[i] = c[i]
    <3>1. \A i \in 1 .. Len(file) : c[i] \in Piece
      BY <2>2, <2>3, ElementOfSeq
    <3>2. /\ SubSeq(c, 1, Len(file)) \in Seq(Piece)
          /\ Len(SubSeq(c, 1, Len(file))) = Len(file)
          /\ \A i \in 1 .. Len(file) : SubSeq(c, 1, Len(file))[i] = c[i]
      BY <2>2, <3>1, SubSeqProperties
    <3>. QED
      BY <3>2
  <2>5. \A i \in 1 .. Len(file) : file[i] = t[i]
    BY <2>1, <2>2, <2>3, <2>4 DEF Follows
  <2>6. file = t
    BY <2>1, <2>4, <2>5, SeqEqual
  <2>7. SubSeq(file, 1, Len(file)) = file
    BY <2>1, SubSeqFull
  <2>. QED
    BY <2>2, <2>3, <2>4, <2>6, <2>7 DEF FileIsPrefix, IsPrefix
<1>. QED
  BY <1>1, RunTheorem, PTL

\* A client that ends by itself leaves the complete file, unless the writer panicked.
THEOREM EndedTheorem == Spec => []EndedIsWritten
<1>1. ASSUME RunInv, process = "ended", writer # "panicked"
      PROVE  file = Complete(Len(recorded))
  <2>1. /\ file \in Seq(Piece) /\ Follows(file, 0) /\ recorded \in Seq(Packet)
        /\ writer = "exited" /\ Len(file) = 2 * (Len(recorded) + 1) /\ RecorderTypeOK
    BY <1>1, TypeParts DEF RunInv, LoopInv, RecorderInv, ThreadInv, PiecesInv, RecorderTypeOK
  <2>2. PICK c : /\ c = Complete(Len(recorded)) /\ c \in Seq(Piece)
                 /\ Len(c) = 2 * (Len(recorded) + 1) /\ \A i \in 1 .. Len(c) : c[i] = Cell(i)
    BY <2>1, Lengths, CompleteFile
  <2>3. \A i \in 1 .. Len(file) : file[i] = c[i]
    BY <2>1, <2>2 DEF Follows
  <2>. QED
    BY <2>1, <2>2, <2>3, SeqEqual
<1>2. RunInv => EndedIsWritten
  BY <1>1 DEF EndedIsWritten
<1>. QED
  BY <1>2, RunTheorem, PTL

-------------------------------------------------------------------------------
(* Losses.  As long as nothing is duplicated, a packet is in one place, and *)
(* a record of it is made once.                                             *)

EchoInv ==
    /\ RecordedPackets \subseteq seen
    /\ copies = 0 =>
          /\ out \cap back = {} /\ out \cap seen = {} /\ back \cap seen = {}
          /\ \A i, j \in DOMAIN recorded : recorded[i] = recorded[j] => i = j

LEMMA EchoInit == Init => EchoInv
<1> SUFFICES ASSUME Init PROVE EchoInv
  OBVIOUS
<1>1. DOMAIN recorded = {} /\ out = {} /\ back = {} /\ seen = {}
  BY DEF Init
<1>. QED
  BY <1>1 DEF EchoInv, RecordedPackets

\* No packet is duplicated that was not before.
LEMMA NoCopies ==
    ASSUME RunInv, NEW packets, NEW rest, NEW p, TakesOrCopies(packets, rest, p), copies' = 0
    PROVE  copies = 0 /\ rest = packets \ {p}
<1>1. copies \in Nat
  BY BenchmarkAssumption, TypeParts DEF RunInv, LoopInv, ClientTypeOK
<1>. QED
  BY <1>1 DEF TakesOrCopies

\* The network takes packets and adds none that is elsewhere.
LEMMA EchoOfNetwork ==
    ASSUME EchoInv, UNCHANGED <<seen, recorded>>,
           copies' = 0 => /\ copies = 0
                          /\ out' \cap back' = {} /\ out' \cap seen = {} /\ back' \cap seen = {}
    PROVE  EchoInv'
BY DEF EchoInv, RecordedPackets

LEMMA EchoOfServer ==
    ASSUME RunInv, EchoInv, NEW p \in out, ServerEcho(p) \/ ServerRejects(p)
    PROVE  EchoInv'
<1>1. UNCHANGED <<seen, recorded>>
  BY DEF ServerEcho, ServerRejects, clientVars
<1>2. ASSUME copies' = 0
      PROVE  copies = 0 /\ out' = out \ {p} /\ back' \subseteq back \cup {p}
  BY <1>2, NoCopies DEF ServerEcho, ServerRejects
<1>. QED
  BY <1>1, <1>2, EchoOfNetwork DEF EchoInv

\* New packets have ids the stream has not given out.
LEMMA EchoOfTurn ==
    ASSUME RunInv, EchoInv, Turn
    PROVE  EchoInv'
<1>1. UNCHANGED <<seen, recorded, back, copies>>
      /\ out' = out \cup {NextPacket(stream) : stream \in Sending}
  BY DEF Turn
<1>2. back \subseteq Given /\ seen \subseteq Given /\ seq \in [Streams -> Nat] /\ open \subseteq Streams
  BY TypeParts DEF RunInv, LoopInv, PacketsTypeOK, ClientTypeOK
<1>3. ASSUME NEW stream \in Sending PROVE NextPacket(stream) \notin Given
  <2>1. stream \in Streams /\ seq[stream] \in Nat
    BY <1>2 DEF Sending
  <2>. QED
    BY <2>1 DEF NextPacket, Given
<1>. QED
  BY <1>1, <1>2, <1>3, EchoOfNetwork DEF EchoInv

LEMMA EchoOfEvent ==
    ASSUME RunInv, EchoInv, Tick \/ HandleEvent \/ CallFails
    PROVE  EchoInv'
<1>1. UNCHANGED <<seen, recorded, out, copies>> /\ back' \subseteq back
  BY DEF Tick, HandleEvent, CallFails, HandleConnected, HandleError, HandleDisconnected,
         HandleStreamCreated, HandleInvalidMessage, transportVars, clientVars
<1>. QED
  BY <1>1, EchoOfNetwork DEF EchoInv

\* The packet that is polled has not been seen, so it has no record.
LEMMA EchoOfMessage ==
    ASSUME RunInv, EchoInv, NEW p \in back, HandleMessage(p)
    PROVE  EchoInv'
<1>1. /\ UNCHANGED out /\ seen' = seen \cup {p}
      /\ recorded' = recorded \/ recorded' = Append(recorded, p)
      /\ copies' = 0 => copies = 0 /\ back' = back \ {p}
  BY NoCopies DEF HandleMessage
<1>2. recorded \in Seq(Packet) /\ p \in Packet
  BY TypeParts DEF RunInv, LoopInv, RecorderInv, PacketsTypeOK, Given
<1>3. CASE recorded' = recorded
  BY <1>1, <1>3 DEF EchoInv, RecordedPackets
<1>4. CASE recorded' = Append(recorded, p)
  <2>1. /\ Len(recorded') = Len(recorded) + 1 /\ recorded' \in Seq(Packet)
        /\ \A i \in 1 .. Len(recorded) : recorded'[i] = recorded[i]
        /\ recorded'[Len(recorded) + 1] = p
    BY <1>2, <1>4, AppendProperties
  <2>2. DOMAIN recorded = 1 .. Len(recorded) /\ DOMAIN recorded' = 1 .. Len(recorded) + 1
        /\ Len(recorded) \in Nat
    BY <1>2, <2>1, LenProperties
  <2>3. RecordedPackets' \subseteq RecordedPackets \cup {p}
    BY <2>1, <2>2 DEF RecordedPackets
  <2>4. ASSUME copies' = 0, NEW i \in DOMAIN recorded', NEW j \in DOMAIN recorded',
               recorded'[i] = recorded'[j]
        PROVE  i = j
    <3>1. \A k \in 1 .. Len(recorded) : recorded[k] # p
      BY <1>1, <2>2, <2>4 DEF EchoInv, RecordedPackets
    <3>2. \A k \in 1 .. Len(recorded) : recorded'[k] # p
      BY <2>1, <3>1
    <3>3. CASE i \in 1 .. Len(recorded) /\ j \in 1 .. Len(recorded)
      <4>1. recorded[i] = recorded[j]
        BY <2>1, <2>4, <3>3
      <4>. QED
        BY <1>1, <2>2, <2>4, <3>3, <4>1 DEF EchoInv
    <3>. QED
      BY <2>1, <2>2, <2>4, <3>2, <3>3
  <2>5. copies' = 0 =>
            out' \cap back' = {} /\ out' \cap seen' = {} /\ back' \cap seen' = {}
    BY <1>1 DEF EchoInv
  <2>6. RecordedPackets' \subseteq seen'
    BY <1>1, <2>3 DEF EchoInv
  <2>. QED
    BY <2>4, <2>5, <2>6 DEF EchoInv
<1>. QED
  BY <1>1, <1>3, <1>4

LEMMA EchoStep == RunInv /\ EchoInv /\ [Next]_vars => EchoInv'
<1> SUFFICES ASSUME RunInv, EchoInv, [Next]_vars PROVE EchoInv'
  OBVIOUS
<1>1. CASE BenchmarkStep
  BY <1>1, EchoOfServer, EchoOfTurn, EchoOfEvent DEF BenchmarkStep
<1>2. CASE UNCHANGED <<clock, transportVars, clientVars>>
  BY <1>2, EchoOfNetwork DEF transportVars, clientVars, EchoInv
<1>. QED
  BY <1>1, <1>2, EchoOfMessage DEF Next, vars

LEMMA EchoTheorem == Spec => []EchoInv
BY EchoInit, EchoStep, RunTheorem, PTL DEF Spec

\* A set of numbers with a bound has a greatest one: no interval that holds
\* the set is the least, unless its end is in the set.
LEMMA MaxOf ==
    ASSUME NEW S, S # {}, NEW b \in Nat, S \subseteq 0 .. b
    PROVE  Max(S) \in S /\ \A x \in S : x <= Max(S)
<1> DEFINE R == StrictSubsetOrdering(Nat)
           Ends == {n \in Nat : S \subseteq 0 .. n}
           F == {0 .. n : n \in Ends}
<1>1. IsWellFoundedOn(R, FiniteSubsetsOf(Nat))
  BY FS_StrictSubsetOrderingWellFounded
<1>2. ASSUME NEW n \in Nat PROVE 0 .. n \in FiniteSubsetsOf(Nat)
  <2>1. IsFiniteSet(0 .. n)
    BY FS_Interval
  <2>. QED
    BY <2>1 DEF FiniteSubsetsOf
<1>3. F # {} /\ F \subseteq FiniteSubsetsOf(Nat)
  BY <1>2
<1>4. PICK A \in F : \A B \in F : ~ (<<B, A>> \in R)
  <2> HIDE DEF R, F
  <2>. QED
    BY <1>1, <1>3, WFMin
<1>5. PICK n \in Ends : A = 0 .. n
  BY <1>4
<1>6. n \in S
  <2>1. SUFFICES ASSUME n \notin S PROVE FALSE
    OBVIOUS
  <2>2. PICK x \in S : x \in 0 .. n /\ x # n
    BY <1>5, <2>1
  <2>3. n - 1 \in Nat /\ S \subseteq 0 .. (n - 1)
    BY <1>5, <2>1, <2>2
  <2>4. 0 .. (n - 1) \in F
    BY <2>3
  <2>5. <<0 .. (n - 1), A>> \in R
    BY <1>5, <2>3 DEF StrictSubsetOrdering
  <2>. QED
    BY <1>4, <2>4, <2>5
<1>7. \A x \in S : x \in Nat /\ n >= x
  BY <1>5
<1>8. \E x \in S : \A y \in S : x >= y
  BY <1>6, <1>7
<1>9. Max(S) \in S /\ \A y \in S : Max(S) >= y
  BY <1>8 DEF Max
<1>. QED
  BY <1>7, <1>9

\* Without copies, the records of a stream are as many as their ids.
LEMMA RecordsAreIds ==
    ASSUME RunInv, EchoInv, copies = 0, NEW stream
    PROVE  /\ IsFiniteSet(IdsOn(recorded, stream))
           /\ Cardinality(IdsOn(recorded, stream)) = Received(recorded, stream)
<1> DEFINE S == OnStream(recorded, stream)
           T == IdsOn(recorded, stream)
           id == [i \in S |-> recorded[i].id]
<1>1. recorded \in Seq(Packet) /\ DOMAIN recorded = 1 .. Len(recorded) /\ Len(recorded) \in Nat
  BY LenProperties DEF RunInv, RecorderInv
<1>2. IsFiniteSet(S)
  <2>1. IsFiniteSet(1 .. Len(recorded))
    BY <1>1, FS_Interval
  <2>2. S \in SUBSET (1 .. Len(recorded))
    BY <1>1 DEF OnStream
  <2>. QED
    BY <2>1, <2>2, FS_Subset
<1>3. ASSUME NEW i \in S, NEW j \in S, recorded[i].id = recorded[j].id
      PROVE  i = j
  <2>1. /\ i \in DOMAIN recorded /\ j \in DOMAIN recorded
        /\ recorded[i].stream = stream /\ recorded[j].stream = stream
    BY DEF OnStream
  <2>2. recorded[i] \in Packet /\ recorded[j] \in Packet
    BY <1>1, <2>1, ElementOfSeq
  <2>3. recorded[i] = recorded[j]
    BY <1>3, <2>1, <2>2 DEF Packet
  <2>. QED
    BY <2>1, <2>3 DEF EchoInv
<1>4. id \in Bijection(S, T)
  <2>1. id \in [S -> T]
    BY DEF IdsOn
  <2>2. id \in Injection(S, T)
    BY <1>3, <2>1 DEF Injection, IsInjective
  <2>3. id \in Surjection(S, T)
    BY <2>1 DEF Surjection, IdsOn
  <2>. QED
    BY <2>2, <2>3 DEF Bijection
<1>5. ExistsBijection(S, T)
  BY <1>4 DEF ExistsBijection
<1>. QED
  BY <1>2, <1>5, FS_Bijection DEF Received

\* For every rate, duration and warm-up, and whatever the network loses and
\* reorders: as long as it duplicates nothing, the statistics of the records
\* have every loss before the last record of a stream, and no more packets
\* than the client sent.
THEOREM LossTheorem == Spec => []LossesAreCounted
<1>1. ASSUME RunInv, EchoInv, copies = 0, NEW stream \in StreamsIn(recorded)
      PROVE  /\ Cardinality(LostBeforeLast(stream)) <= Lost(recorded, stream)
             /\ Sent(recorded, stream) <= seq[stream]
  <2> DEFINE ids == IdsOn(recorded, stream)
             m == Max(ids)
  <2>1. /\ recorded \in Seq(Packet) /\ RecordedPackets \subseteq Given
        /\ MaxClock \in Nat /\ seq \in [Streams -> Nat]
    BY <1>1, BenchmarkAssumption, TypeParts
       DEF RunInv, LoopInv, RecorderInv, PacketsTypeOK, ClientTypeOK
  <2>2. ASSUME NEW x \in ids
        PROVE  /\ x \in 0 .. MaxClock /\ stream \in Streams /\ x < seq[stream]
               /\ x \in IdsSeen(stream)
    <3>1. PICK i \in DOMAIN recorded : recorded[i].stream = stream /\ recorded[i].id = x
      BY DEF IdsOn, OnStream
    <3>2. recorded[i] \in Given /\ recorded[i] \in seen
      BY <1>1, <2>1 DEF RecordedPackets, EchoInv
    <3>. QED
      BY <3>1, <3>2 DEF Given, Packet, IdsSeen
  <2>3. ids # {} /\ OnStream(recorded, stream) # {}
    BY <1>1 DEF StreamsIn, IdsOn, OnStream
  <2>4. m \in ids /\ \A x \in ids : x <= m
    <3> HIDE DEF ids
    <3>1. ids \subseteq 0 .. MaxClock
      BY <2>2
    <3>. QED
      BY <2>1, <2>3, <3>1, MaxOf
  <2>5. m \in Nat /\ stream \in Streams /\ m < seq[stream] /\ seq[stream] \in Nat
    BY <2>1, <2>2, <2>4
  <2>6. Sent(recorded, stream) = m + 1
    BY <2>3 DEF Sent
  <2>7. /\ IsFiniteSet(ids) /\ Cardinality(ids) = Received(recorded, stream)
        /\ Cardinality(ids) \in Nat
    BY <1>1, RecordsAreIds, FS_CardinalityType
  <2> HIDE DEF ids, m
  <2>8. /\ IsFiniteSet(0 .. m) /\ Cardinality(0 .. m) = m + 1
        /\ ids \in SUBSET (0 .. m) /\ (0 .. m) \cap ids = ids
    <3>1. \A x \in ids : x \in 0 .. m
      BY <2>2, <2>4, <2>5
    <3>2. IsFiniteSet(0 .. m) /\ Cardinality(0 .. m) = m + 1
      BY <2>5, FS_Interval
    <3>3. (0 .. m) \cap ids = ids
      BY <3>1
    <3>. QED
      BY <3>1, <3>2, <3>3
  <2>9. IsFiniteSet((0 .. m) \ ids) /\ Cardinality((0 .. m) \ ids) = (m + 1) - Cardinality(ids)
    <3>1. Cardinality((0 .. m) \ ids) = Cardinality(0 .. m) - Cardinality((0 .. m) \cap ids)
      BY <2>8, FS_Difference
    <3>. QED
      BY <2>8, <3>1, FS_Difference
  <2>10. Cardinality(ids) <= m + 1
    BY <2>8, FS_Subset
  <2>11. Lost(recorded, stream) = (m + 1) - Cardinality(ids)
    BY <2>5, <2>6, <2>7, <2>10 DEF Lost
  <2>12. LostBeforeLast(stream) \in SUBSET ((0 .. m) \ ids)
    BY <2>2 DEF LostBeforeLast, ids, m
  <2>13. Cardinality(LostBeforeLast(stream)) <= Cardinality((0 .. m) \ ids)
    BY <2>9, <2>12, FS_Subset
  <2>. QED
    BY <2>5, <2>6, <2>9, <2>11, <2>13
<1>2. RunInv /\ EchoInv => LossesAreCounted
  BY <1>1 DEF LossesAreCounted
<1>. QED
  BY <1>2, RunTheorem, EchoTheorem, PTL

-------------------------------------------------------------------------------
(* Lists by rank *)

LEMMA CountTo ==
    ASSUME NEW S, IsFiniteSet(S)
    PROVE  /\ Cardinality(S) \in Nat
           /\ IsFiniteSet(1 .. Cardinality(S)) /\ Cardinality(1 .. Cardinality(S)) = Cardinality(S)
<1>1. Cardinality(S) \in Nat
  BY FS_CardinalityType
<1> DEFINE n == Cardinality(S)
<1> HIDE DEF n
<1>2. n \in Nat => IsFiniteSet(1 .. n) /\ Cardinality(1 .. n) = n
  BY FS_Interval
<1>. QED
  BY <1>1, <1>2 DEF n

LEMMA ListOfLength ==
    ASSUME NEW S, NEW n \in Nat, NEW list \in [1 .. n -> S]
    PROVE  list \in Seq(S) /\ Len(list) = n
<1>1. list \in Seq(S)
  OBVIOUS
<1>2. DOMAIN list = 1 .. n /\ DOMAIN list = 1 .. Len(list) /\ Len(list) \in Nat
  BY <1>1, LenProperties
<1>. QED
  BY <1>1, <1>2

\* B[x] is what comes before x in a strict order of all of S.
OrderOf(S, B) ==
    /\ B \in [S -> SUBSET S]
    /\ \A x \in S : x \notin B[x]
    /\ \A x, y \in S : x = y \/ x \in B[y] \/ y \in B[x]
    /\ \A x, y \in S : x \in B[y] => B[x] \subseteq B[y]

\* The elements of S are in the list by their ranks.
RankedIn(list, S, B) ==
    /\ list \in [1 .. Cardinality(S) -> S]
    /\ \A k \in 1 .. Cardinality(S) : Cardinality(B[list[k]]) = k - 1

\* The list has every element of S, in order.
OrderedIn(list, S, B) ==
    /\ list \in Seq(S) /\ Len(list) = Cardinality(S) /\ Len(list) \in Nat
    /\ \A i, j \in 1 .. Len(list) : i < j => list[i] \in B[list[j]]
    /\ \A x \in S : \E k \in 1 .. Len(list) : x = list[k]

\* Every place has an element that as many come before.
LEMMA PlacesHaveElements ==
    ASSUME NEW S, IsFiniteSet(S), NEW B, OrderOf(S, B)
    PROVE  \A k \in 1 .. Cardinality(S) : \E x \in S : Cardinality(B[x]) = k - 1
<1> SUFFICES ASSUME NEW k \in 1 .. Cardinality(S)
             PROVE  \E x \in S : Cardinality(B[x]) = k - 1
  OBVIOUS
<1> USE DEF OrderOf
<1> DEFINE n == Cardinality(S)
           f == [x \in S |-> Cardinality(B[x]) + 1]
<1>1. n \in Nat /\ IsFiniteSet(1 .. n) /\ Cardinality(1 .. n) = n
  BY CountTo
<1>2. ASSUME NEW x \in S
      PROVE  /\ IsFiniteSet(B[x]) /\ Cardinality(B[x]) \in Nat /\ Cardinality(B[x]) < n
  <2>1. B[x] \in SUBSET S /\ B[x] # S
    OBVIOUS
  <2>. QED
    BY <1>1, <2>1, FS_Subset, FS_CardinalityType
<1>3. ASSUME NEW x \in S, NEW y \in S, x \in B[y]
      PROVE  Cardinality(B[x]) < Cardinality(B[y])
  <2>1. B[x] \in SUBSET B[y] /\ B[x] # B[y]
    BY <1>3
  <2>2. Cardinality(B[x]) <= Cardinality(B[y]) /\ Cardinality(B[x]) # Cardinality(B[y])
    BY <1>2, <2>1, FS_Subset
  <2>. QED
    BY <1>2, <2>2
<1>4. f \in [S -> 1 .. n]
  BY <1>1, <1>2
<1>5. ASSUME NEW x \in S, NEW y \in S, f[x] = f[y]
      PROVE  x = y
  BY <1>2, <1>3, <1>5
<1>6. f \in Injection(S, 1 .. n)
  BY <1>4, <1>5 DEF Injection, IsInjective
<1>7. f \in Surjection(S, 1 .. n)
  <2> HIDE DEF f
  <2>. QED
    BY <1>1, <1>6, FS_Injection
<1>8. PICK x \in S : f[x] = k
  BY <1>7 DEF Surjection
<1>. QED
  BY <1>1, <1>2, <1>8

\* A list that has at every place such an element is in order and has every
\* element, and each once.
LEMMA PlacesInOrder ==
    ASSUME NEW S, IsFiniteSet(S), NEW B, OrderOf(S, B), NEW list, RankedIn(list, S, B)
    PROVE  OrderedIn(list, S, B)
<1> USE DEF OrderOf, RankedIn
<1> DEFINE n == Cardinality(S)
<1>1. n \in Nat /\ IsFiniteSet(1 .. n) /\ Cardinality(1 .. n) = n
  BY CountTo
<1>2. list \in [1 .. n -> S]
  OBVIOUS
<1>3. list \in Seq(S) /\ Len(list) = n
  <2> HIDE DEF n
  <2>. QED
    BY <1>1, <1>2, ListOfLength
<1>4. ASSUME NEW x \in S, NEW y \in S, x \in B[y]
      PROVE  Cardinality(B[x]) <= Cardinality(B[y])
  <2>1. B[x] \in SUBSET B[y] /\ B[y] \in SUBSET S
    BY <1>4
  <2>. QED
    BY <2>1, FS_Subset
<1>5. ASSUME NEW i \in 1 .. n, NEW j \in 1 .. n, i < j
      PROVE  list[i] \in B[list[j]]
  <2>1. list[i] \in S /\ list[j] \in S
    OBVIOUS
  <2>2. Cardinality(B[list[i]]) = i - 1 /\ Cardinality(B[list[j]]) = j - 1
    OBVIOUS
  <2>3. list[i] # list[j] /\ list[j] \notin B[list[i]]
    BY <1>4, <1>5, <2>1, <2>2
  <2>. QED
    BY <2>1, <2>3
<1>6. list \in Injection(1 .. n, S)
  <2>1. ASSUME NEW i \in 1 .. n, NEW j \in 1 .. n, list[i] = list[j] PROVE i = j
    <3>1. i - 1 = j - 1
      BY <2>1
    <3>. QED
      BY <3>1
  <2>. QED
    BY <1>2, <2>1 DEF Injection, IsInjective
<1>7. list \in Surjection(1 .. n, S)
  BY <1>1, <1>6, FS_Injection
<1>8. \A x \in S : \E k \in 1 .. n : list[k] = x
  BY <1>7 DEF Surjection
<1>. QED
  BY <1>1, <1>3, <1>5, <1>8 DEF OrderedIn

LEMMA OrderOfNumbers ==
    ASSUME NEW S \in SUBSET Nat
    PROVE  OrderOf(S, [x \in S |-> {y \in S : y < x}])
<1> DEFINE B == [x \in S |-> {y \in S : y < x}]
<1>1. B \in [S -> SUBSET S]
  OBVIOUS
<1>2. \A x, y \in S : x \in B[y] <=> x < y
  OBVIOUS
<1> HIDE DEF B
<1>3. \A x, y \in S : x \in B[y] => B[x] \subseteq B[y]
  <2>1. ASSUME NEW x \in S, NEW y \in S, x \in B[y], NEW z \in B[x]
        PROVE  z \in B[y]
    <3>1. z \in S
      BY <1>1
    <3>2. z < x /\ x < y
      BY <1>2, <2>1, <3>1
    <3>. QED
      BY <1>2, <3>1, <3>2
  <2>. QED
    BY <2>1
<1>4. OrderOf(S, B)
  BY <1>1, <1>2, <1>3 DEF OrderOf
<1>. QED
  BY <1>4 DEF B

NumbersOf(S) == Listed(S, <)

LEMMA NumbersListed ==
    ASSUME NEW S \in SUBSET Nat, IsFiniteSet(S)
    PROVE  /\ NumbersOf(S) \in Seq(S)
           /\ Len(NumbersOf(S)) = Cardinality(S) /\ Len(NumbersOf(S)) \in Nat
           /\ ToSet(NumbersOf(S)) = S
<1> DEFINE B == [x \in S |-> {y \in S : y < x}]
           list == NumbersOf(S)
<1>1. OrderOf(S, B)
  BY OrderOfNumbers
<1>2. \A k \in 1 .. Cardinality(S) : \E x \in S : Cardinality(B[x]) = k - 1
  <2> HIDE DEF B
  <2>. QED
    BY <1>1, PlacesHaveElements
<1>3. list = [k \in 1 .. Cardinality(S) |->
                  CHOOSE x \in S : Cardinality({y \in S : y < x}) = k - 1]
  BY DEF NumbersOf, Listed
<1> HIDE DEF list
<1>4. ASSUME NEW k \in 1 .. Cardinality(S)
      PROVE  list[k] \in S /\ Cardinality(B[list[k]]) = k - 1
  <2>1. \E x \in S : Cardinality({y \in S : y < x}) = k - 1
    BY <1>2
  <2>2. list[k] \in S /\ Cardinality({y \in S : y < list[k]}) = k - 1
    BY <1>3, <2>1
  <2>. QED
    BY <2>2
<1>5. list \in [1 .. Cardinality(S) -> S]
  BY <1>3, <1>4
<1> HIDE DEF B
<1>6. RankedIn(list, S, B)
  BY <1>4, <1>5 DEF RankedIn
<1>7. OrderedIn(list, S, B)
  BY <1>1, <1>6, PlacesInOrder
<1>8. DOMAIN list = 1 .. Len(list) /\ \A k \in 1 .. Len(list) : list[k] \in S
  BY <1>7, LenProperties, ElementOfSeq DEF OrderedIn
<1>9. ToSet(list) = S
  BY <1>7, <1>8 DEF OrderedIn, ToSet
<1>. QED
  BY <1>7, <1>9 DEF OrderedIn, list

LEMMA OrderOfPairs ==
    ASSUME NEW S \in SUBSET Pairs
    PROVE  OrderOf(S, [p \in S |-> {q \in S : Earlier(q, p)}])
<1> DEFINE B == [p \in S |-> {q \in S : Earlier(q, p)}]
<1>1. B \in [S -> SUBSET S]
  OBVIOUS
<1>2. \A p, q \in S : p \in B[q] <=> Earlier(p, q)
  OBVIOUS
<1> HIDE DEF B
<1>3. \A p \in S : p[1] \in Nat /\ p[2] \in Nat /\ p = <<p[1], p[2]>>
  BY SweepAssumption DEF Pairs
<1>4. \A p \in S : ~Earlier(p, p)
  BY <1>3 DEF Earlier
<1>5. \A p, q \in S : p = q \/ Earlier(p, q) \/ Earlier(q, p)
  <2>1. ASSUME NEW p \in S, NEW q \in S, ~Earlier(p, q), ~Earlier(q, p) PROVE p = q
    <3>1. p[1] = q[1] /\ p[2] = q[2]
      BY <1>3, <2>1 DEF Earlier
    <3>. QED
      BY <1>3, <3>1
  <2>. QED
    BY <2>1
<1>6. \A p, q, r \in S : Earlier(p, q) /\ Earlier(q, r) => Earlier(p, r)
  BY <1>3 DEF Earlier
<1>7. \A p, q \in S : p \in B[q] => B[p] \subseteq B[q]
  <2>1. ASSUME NEW p \in S, NEW q \in S, p \in B[q], NEW r \in B[p]
        PROVE  r \in B[q]
    <3>1. r \in S
      BY <1>1
    <3>2. Earlier(r, p) /\ Earlier(p, q)
      BY <1>2, <2>1, <3>1
    <3>. QED
      BY <1>2, <1>6, <3>1, <3>2
  <2>. QED
    BY <2>1
<1>8. OrderOf(S, B)
  BY <1>1, <1>2, <1>4, <1>5, <1>7 DEF OrderOf
<1>. QED
  BY <1>8 DEF B

LEMMA PairsListed ==
    ASSUME NEW S \in SUBSET Pairs
    PROVE  /\ InOrder(S) \in Seq(S) /\ Len(InOrder(S)) \in Nat
           /\ \A i, j \in 1 .. Len(InOrder(S)) : i < j => Earlier(InOrder(S)[i], InOrder(S)[j])
           /\ ToSet(InOrder(S)) = S
<1> DEFINE B == [p \in S |-> {q \in S : Earlier(q, p)}]
           list == InOrder(S)
<1>1. IsFiniteSet(S)
  <2>1. IsFiniteSet(Pairs)
    BY SweepAssumption, FS_Product DEF Pairs
  <2>. QED
    BY <2>1, FS_Subset
<1>2. OrderOf(S, B)
  BY OrderOfPairs
<1>3. \A k \in 1 .. Cardinality(S) : \E x \in S : Cardinality(B[x]) = k - 1
  <2> HIDE DEF B
  <2>. QED
    BY <1>1, <1>2, PlacesHaveElements
<1>4. list = [k \in 1 .. Cardinality(S) |->
                  CHOOSE x \in S : Cardinality({y \in S : Earlier(y, x)}) = k - 1]
  BY DEF InOrder, Listed
<1> HIDE DEF list
<1>5. ASSUME NEW k \in 1 .. Cardinality(S)
      PROVE  list[k] \in S /\ Cardinality(B[list[k]]) = k - 1
  <2>1. \E x \in S : Cardinality({y \in S : Earlier(y, x)}) = k - 1
    BY <1>3
  <2>2. list[k] \in S /\ Cardinality({y \in S : Earlier(y, list[k])}) = k - 1
    BY <1>4, <2>1
  <2>. QED
    BY <2>2
<1>6. list \in [1 .. Cardinality(S) -> S]
  BY <1>4, <1>5
<1>7. \A p, q \in S : p \in B[q] => Earlier(p, q)
  OBVIOUS
<1> HIDE DEF B
<1>8. RankedIn(list, S, B)
  BY <1>5, <1>6 DEF RankedIn
<1>9. OrderedIn(list, S, B)
  BY <1>1, <1>2, <1>8, PlacesInOrder
<1>10. DOMAIN list = 1 .. Len(list) /\ \A i \in 1 .. Len(list) : list[i] \in S
  BY <1>9, LenProperties, ElementOfSeq DEF OrderedIn
<1>11. ToSet(list) = S
  BY <1>9, <1>10 DEF OrderedIn, ToSet
<1>. QED
  BY <1>7, <1>9, <1>10, <1>11 DEF OrderedIn, list

-------------------------------------------------------------------------------
(* Values by size *)

LEMMA OrderOfValues ==
    ASSUME NEW D \in SUBSET Nat, NEW v \in [D -> Nat]
    PROVE  OrderOf(D, [i \in D |-> {j \in D : v[j] < v[i] \/ (v[j] = v[i] /\ j < i)}])
<1> DEFINE B == [i \in D |-> {j \in D : v[j] < v[i] \/ (v[j] = v[i] /\ j < i)}]
<1>1. B \in [D -> SUBSET D]
  OBVIOUS
<1>2. \A i, j \in D : i \in B[j] <=> v[i] < v[j] \/ (v[i] = v[j] /\ i < j)
  OBVIOUS
<1> HIDE DEF B
<1>3. \A i \in D : i \in Nat /\ v[i] \in Nat
  OBVIOUS
<1>4. \A i, j, k \in D : i \in B[j] /\ j \in B[k] => i \in B[k]
  BY <1>2, <1>3
<1>5. \A i, j \in D : i \in B[j] => B[i] \subseteq B[j]
  <2>1. ASSUME NEW i \in D, NEW j \in D, i \in B[j], NEW k \in B[i]
        PROVE  k \in B[j]
    <3>1. k \in D
      BY <1>1
    <3>. QED
      BY <1>4, <2>1, <3>1
  <2>. QED
    BY <2>1
<1>6. OrderOf(D, B)
  BY <1>1, <1>2, <1>3, <1>5 DEF OrderOf
<1>. QED
  BY <1>6 DEF B

\* The values by size are those of the names by their ranks.
LEMMA SortedOf ==
    ASSUME NEW D \in SUBSET Nat, IsFiniteSet(D), NEW v \in [D -> Nat]
    PROVE  LET B == [i \in D |-> {j \in D : v[j] < v[i] \/ (v[j] = v[i] /\ j < i)}]
           IN  \E names : /\ RankedIn(names, D, B)
                          /\ Sorted(v) = [k \in 1 .. Cardinality(D) |-> v[names[k]]]
<1> DEFINE B == [i \in D |-> {j \in D : v[j] < v[i] \/ (v[j] = v[i] /\ j < i)}]
           names == [k \in 1 .. Cardinality(D) |->
                        CHOOSE i \in D :
                            Cardinality({j \in D : v[j] < v[i] \/ (v[j] = v[i] /\ j < i)}) = k - 1]
<1>1. OrderOf(D, B)
  BY OrderOfValues
<1>2. \A k \in 1 .. Cardinality(D) : \E i \in D : Cardinality(B[i]) = k - 1
  <2> HIDE DEF B
  <2>. QED
    BY <1>1, PlacesHaveElements
<1>3. ASSUME NEW k \in 1 .. Cardinality(D)
      PROVE  names[k] \in D /\ Cardinality(B[names[k]]) = k - 1
  <2>1. \E i \in D : Cardinality({j \in D : v[j] < v[i] \/ (v[j] = v[i] /\ j < i)}) = k - 1
    BY <1>2
  <2>2. /\ names[k] \in D
        /\ Cardinality({j \in D : v[j] < v[names[k]] \/ (v[j] = v[names[k]] /\ j < names[k])}) = k - 1
    BY <2>1
  <2> HIDE DEF names
  <2>. QED
    BY <2>2
<1>4. names \in [1 .. Cardinality(D) -> D]
  <2>1. names = [k \in 1 .. Cardinality(D) |-> names[k]]
    OBVIOUS
  <2> HIDE DEF names
  <2>. QED
    BY <1>3, <2>1
<1>5. RankedIn(names, D, B)
  <2> HIDE DEF B, names
  <2>. QED
    BY <1>3, <1>4 DEF RankedIn
<1>6. Sorted(v) = [k \in 1 .. Cardinality(D) |-> v[names[k]]]
  <2>1. DOMAIN v = D
    OBVIOUS
  <2>2. DOMAIN names = 1 .. Cardinality(D)
    OBVIOUS
  <2>3. Sorted(v) = [k \in DOMAIN names |-> v[names[k]]]
    BY <2>1 DEF Sorted, Listed
  <2> HIDE DEF names
  <2>. QED
    BY <2>2, <2>3
<1>. QED
  BY <1>5, <1>6

LEMMA SortedList ==
    ASSUME NEW D \in SUBSET Nat, IsFiniteSet(D), NEW v \in [D -> Nat]
    PROVE  /\ Sorted(v) \in Seq(Nat) /\ Len(Sorted(v)) = Cardinality(D) /\ Cardinality(D) \in Nat
           /\ DOMAIN Sorted(v) = 1 .. Cardinality(D)
           /\ \A i, j \in 1 .. Cardinality(D) : i <= j => Sorted(v)[i] <= Sorted(v)[j]
<1> DEFINE B == [i \in D |-> {j \in D : v[j] < v[i] \/ (v[j] = v[i] /\ j < i)}]
           n == Cardinality(D)
<1>1. PICK names : RankedIn(names, D, B) /\ Sorted(v) = [k \in 1 .. n |-> v[names[k]]]
  BY SortedOf
<1>2. OrderOf(D, B)
  BY OrderOfValues
<1>3. n \in Nat
  BY CountTo
<1>4. names \in [1 .. n -> D]
  BY <1>1 DEF RankedIn
<1>5. \A i, j \in D : i \in B[j] => v[i] <= v[j]
  <2>1. \A i \in D : v[i] \in Nat
    OBVIOUS
  <2>. QED
    BY <2>1
<1> HIDE DEF B
<1>6. OrderedIn(names, D, B)
  BY <1>1, <1>2, PlacesInOrder
<1> HIDE DEF n
<1>7. Sorted(v) \in [1 .. n -> Nat]
  BY <1>1, <1>4
<1>8. Sorted(v) \in Seq(Nat) /\ Len(Sorted(v)) = n
  BY <1>3, <1>7, ListOfLength
<1>9. Len(names) = n
  BY <1>3, <1>4, ListOfLength
<1>10. ASSUME NEW i \in 1 .. n, NEW j \in 1 .. n, i <= j
       PROVE  Sorted(v)[i] <= Sorted(v)[j]
  <2>1. Sorted(v)[i] = v[names[i]] /\ Sorted(v)[j] = v[names[j]]
    BY <1>1
  <2>2. CASE i = j
    BY <1>7, <2>2
  <2>3. CASE i < j
    <3>1. names[i] \in B[names[j]]
      BY <1>6, <1>9, <2>3 DEF OrderedIn
    <3>2. names[i] \in D /\ names[j] \in D
      BY <1>4
    <3>. QED
      BY <1>5, <2>1, <3>1, <3>2
  <2>. QED
    BY <1>3, <1>10, <2>2, <2>3
<1>. QED
  BY <1>3, <1>7, <1>8, <1>10 DEF n

\* Fewer than k values are below the k-th by size, and k or more are not
\* above it.
LEMMA SortedCounts ==
    ASSUME NEW D \in SUBSET Nat, IsFiniteSet(D), NEW v \in [D -> Nat],
           NEW k \in 1 .. Cardinality(D)
    PROVE  /\ Cardinality({i \in D : v[i] < Sorted(v)[k]}) < k
           /\ Cardinality({i \in D : v[i] <= Sorted(v)[k]}) >= k
<1> DEFINE B == [i \in D |-> {j \in D : v[j] < v[i] \/ (v[j] = v[i] /\ j < i)}]
           n == Cardinality(D)
           Below == {i \in D : v[i] < Sorted(v)[k]}
           UpTo == {i \in D : v[i] <= Sorted(v)[k]}
<1>1. PICK names : RankedIn(names, D, B) /\ Sorted(v) = [j \in 1 .. n |-> v[names[j]]]
  BY SortedOf
<1> DEFINE x == names[k]
<1>2. n \in Nat /\ k \in 1 .. n
  BY CountTo
<1>3. x \in D /\ Cardinality(B[x]) = k - 1 /\ Sorted(v)[k] = v[x]
  BY <1>1 DEF RankedIn
<1>4. /\ B \in [D -> SUBSET D]
      /\ \A i \in D : v[i] \in Nat /\ i \notin B[i]
      /\ \A i, j \in D : /\ i \in B[j] => v[i] <= v[j]
                         /\ v[i] < v[j] => i \in B[j]
  <2>1. B \in [D -> SUBSET D]
    OBVIOUS
  <2>2. \A i, j \in D : i \in B[j] <=> v[i] < v[j] \/ (v[i] = v[j] /\ i < j)
    OBVIOUS
  <2> HIDE DEF B
  <2>3. \A i \in D : v[i] \in Nat /\ i \in Nat
    OBVIOUS
  <2>. QED
    BY <2>1, <2>2, <2>3
<1> HIDE DEF B, n, x
<1>5. Below \in SUBSET B[x]
  BY <1>3, <1>4
<1>6. B[x] \cup {x} \in SUBSET UpTo
  <2>1. \A j \in B[x] : j \in D /\ v[j] <= v[x]
    BY <1>3, <1>4
  <2>2. v[x] <= v[x]
    BY <1>3, <1>4
  <2>. QED
    BY <1>3, <2>1, <2>2
<1>7. B[x] \in SUBSET D /\ UpTo \in SUBSET D
  BY <1>3, <1>4
<1> HIDE DEF Below, UpTo
<1>8. IsFiniteSet(B[x]) /\ IsFiniteSet(UpTo) /\ IsFiniteSet(Below)
  BY <1>5, <1>7, FS_Subset
<1>9. Cardinality(Below) <= k - 1
  BY <1>3, <1>5, <1>8, FS_Subset
<1>10. Cardinality(B[x] \cup {x}) = k
  <2>1. x \notin B[x]
    BY <1>3, <1>4
  <2>2. Cardinality(B[x] \cup {x}) = Cardinality(B[x]) + 1
    BY <1>8, <2>1, FS_AddElement
  <2>. QED
    BY <1>2, <1>3, <2>2
<1>11. k <= Cardinality(UpTo)
  BY <1>6, <1>8, <1>10, FS_Subset
<1>12. Cardinality(Below) \in Nat /\ Cardinality(UpTo) \in Nat
  BY <1>8, FS_CardinalityType
<1>13. Cardinality(Below) < k /\ Cardinality(UpTo) >= k
  BY <1>2, <1>9, <1>11, <1>12
<1>. QED
  BY <1>13 DEF Below, UpTo

\* Values that are larger, name by name, are larger place by place.
LEMMA SortedBelow ==
    ASSUME NEW D \in SUBSET Nat, IsFiniteSet(D), NEW v \in [D -> Nat], NEW w \in [D -> Nat],
           \A i \in D : v[i] <= w[i], NEW k \in 1 .. Cardinality(D)
    PROVE  Sorted(v)[k] <= Sorted(w)[k]
<1> DEFINE n == Cardinality(D)
           a == Sorted(v)[k]
           b == Sorted(w)[k]
<1>1. n \in Nat /\ a \in Nat /\ b \in Nat
  <2>1. /\ Sorted(v) \in Seq(Nat) /\ Len(Sorted(v)) = n /\ n \in Nat
        /\ Sorted(w) \in Seq(Nat) /\ Len(Sorted(w)) = n
    BY SortedList
  <2>. QED
    BY <2>1, ElementOfSeq
<1>2. SUFFICES ASSUME b < a PROVE FALSE
  BY <1>1
<1>3. /\ Cardinality({i \in D : v[i] < a}) < k
      /\ Cardinality({i \in D : w[i] <= b}) >= k
  BY SortedCounts
<1>4. {i \in D : w[i] <= b} \in SUBSET {i \in D : v[i] < a}
  <2>1. ASSUME NEW i \in D, w[i] <= b PROVE v[i] < a
    <3>1. v[i] \in Nat /\ w[i] \in Nat /\ v[i] <= w[i]
      OBVIOUS
    <3> HIDE DEF a, b
    <3>. QED
      BY <1>1, <1>2, <2>1, <3>1
  <2>. QED
    BY <2>1
<1> HIDE DEF a, b, n
<1>5. IsFiniteSet({i \in D : v[i] < a})
  <2>1. {i \in D : v[i] < a} \in SUBSET D
    OBVIOUS
  <2>. QED
    BY <2>1, FS_Subset
<1>6. Cardinality({i \in D : w[i] <= b}) <= Cardinality({i \in D : v[i] < a})
  BY <1>4, <1>5, FS_Subset
<1>7. IsFiniteSet({i \in D : w[i] <= b}) /\ Cardinality({i \in D : w[i] <= b}) \in Nat
      /\ Cardinality({i \in D : v[i] < a}) \in Nat
  BY <1>4, <1>5, FS_Subset, FS_CardinalityType
<1>8. k \in Int
  BY <1>1 DEF n
<1>. QED
  BY <1>3, <1>6, <1>7, <1>8

-------------------------------------------------------------------------------
(* Sums *)

\* Induction, stated of a set.
LEMMA EveryNat ==
    ASSUME NEW T, 0 \in T, \A n \in Nat : n \in T => n + 1 \in T
    PROVE  Nat \subseteq T
<1> SUFFICES ASSUME NEW m \in Nat, m \notin T PROVE FALSE
  OBVIOUS
<1> DEFINE R == StrictSubsetOrdering(Nat)
           F == {0 .. n : n \in Nat \ T}
<1>1. IsWellFoundedOn(R, FiniteSubsetsOf(Nat))
  BY FS_StrictSubsetOrderingWellFounded
<1>2. ASSUME NEW n \in Nat PROVE 0 .. n \in FiniteSubsetsOf(Nat)
  <2>1. IsFiniteSet(0 .. n)
    BY FS_Interval
  <2>. QED
    BY <2>1 DEF FiniteSubsetsOf
<1>3. F # {} /\ F \subseteq FiniteSubsetsOf(Nat)
  BY <1>2
<1>4. PICK A \in F : \A C \in F : ~ (<<C, A>> \in R)
  <2> HIDE DEF R, F
  <2>. QED
    BY <1>1, <1>3, WFMin
<1>5. PICK n \in Nat \ T : A = 0 .. n
  BY <1>4
<1>6. n # 0 /\ n - 1 \in Nat /\ n - 1 \notin T
  <2>1. n # 0 /\ n - 1 \in Nat
    BY <1>5
  <2>2. (n - 1) + 1 = n
    BY <1>5
  <2>. QED
    BY <1>5, <2>1, <2>2
<1>7. 0 .. (n - 1) \in F
  BY <1>6
<1>8. <<0 .. (n - 1), A>> \in R
  BY <1>5, <1>6 DEF StrictSubsetOrdering
<1>. QED
  BY <1>4, <1>7, <1>8

\* F sums v over every part of S, one element after the other.
SumsUp(F, v, S) ==
    /\ F \in [SUBSET S -> Nat] /\ F[{}] = 0
    /\ \A s \in SUBSET S : s # {} => \E x \in s : F[s] = v[x] + F[s \ {x}]

\* A sum of all of S is reached by taking one element after the other away.
LEMMA SumByElements ==
    ASSUME NEW S, IsFiniteSet(S), NEW v \in [S -> Nat]
    PROVE  \E F : SumsUp(F, v, S) /\ SumOf(v) = F[S]
<1> DEFINE c(s) == CHOOSE x \in s : TRUE
           Upto(n) == {s \in SUBSET S : Cardinality(s) <= n}
           Sums(F, D) == F = [s \in D |-> IF s = {} THEN 0 ELSE v[c(s)] + F[s \ {c(s)}]]
           T == {n \in Nat : \E F \in [Upto(n) -> Nat] : Sums(F, Upto(n))}
<1>1. \A s \in SUBSET S : s # {} => c(s) \in s
  OBVIOUS
<1>2. ASSUME NEW s \in SUBSET S, s # {}
      PROVE  /\ IsFiniteSet(s) /\ Cardinality(s) \in Nat \ {0} /\ s \ {c(s)} \in SUBSET S
             /\ Cardinality(s \ {c(s)}) = Cardinality(s) - 1
  <2>1. IsFiniteSet(s)
    BY FS_Subset
  <2>2. Cardinality(s) \in Nat /\ Cardinality(s) # 0
    BY <1>2, <2>1, FS_CardinalityType, FS_EmptySet
  <2>3. Cardinality(s \ {c(s)}) = Cardinality(s) - 1
    <3> HIDE DEF c
    <3>. QED
      BY <1>1, <1>2, <2>1, FS_RemoveElement
  <2>. QED
    BY <2>1, <2>2, <2>3
<1> HIDE DEF c
<1>3. 0 \in T
  <2> DEFINE F == [s \in Upto(0) |-> 0]
  <2>1. ASSUME NEW s \in Upto(0), s # {} PROVE FALSE
    <3>1. s \in SUBSET S /\ Cardinality(s) <= 0
      OBVIOUS
    <3>2. Cardinality(s) \in Nat \ {0}
      BY <1>2, <2>1, <3>1
    <3>. QED
      BY <3>1, <3>2
  <2>2. F \in [Upto(0) -> Nat]
    OBVIOUS
  <2>3. Sums(F, Upto(0))
    <3> HIDE DEF Upto
    <3>. QED
      BY <2>1
  <2>. QED
    BY <2>2, <2>3
<1>4. ASSUME NEW n \in Nat, n \in T PROVE n + 1 \in T
  <2>1. PICK F \in [Upto(n) -> Nat] : Sums(F, Upto(n))
    BY <1>4
  <2> DEFINE G == [s \in Upto(n + 1) |-> IF s = {} THEN 0 ELSE v[c(s)] + F[s \ {c(s)}]]
  <2>2. \A s \in Upto(n + 1) : s # {} => /\ s \ {c(s)} \in Upto(n) /\ s \ {c(s)} \in Upto(n + 1)
                                        /\ c(s) \in S
    BY <1>1, <1>2
  <2>3. G \in [Upto(n + 1) -> Nat]
    BY <2>2
  <2>4. \A s \in Upto(n) : s \in Upto(n + 1) /\ G[s] = F[s]
    <3>1. Upto(n) \subseteq Upto(n + 1)
      <4>1. \A s \in SUBSET S : Cardinality(s) \in Nat
        BY FS_Subset, FS_CardinalityType
      <4>. QED
        BY <4>1
    <3> HIDE DEF Upto
    <3>. QED
      BY <2>1, <3>1
  <2>5. Sums(G, Upto(n + 1))
    <3> HIDE DEF Upto
    <3>. QED
      BY <2>2, <2>4
  <2>6. \E H \in [Upto(n + 1) -> Nat] : Sums(H, Upto(n + 1))
    <3> HIDE DEF G, Upto, Sums
    <3>. QED
      BY <2>3, <2>5
  <2> HIDE DEF Upto, Sums
  <2>. QED
    BY <2>6
<1>5. Nat \subseteq T
  <2> HIDE DEF T
  <2>. QED
    BY <1>3, <1>4, EveryNat
<1>6. Upto(Cardinality(S)) = SUBSET S
  BY FS_Subset
<1>7. PICK F \in [SUBSET S -> Nat] : Sums(F, SUBSET S)
  <2>1. Cardinality(S) \in T
    BY <1>5, FS_CardinalityType
  <2> HIDE DEF Upto
  <2>. QED
    BY <1>6, <2>1
<1> DEFINE G == CHOOSE f : f = [s \in SUBSET S |-> IF s = {} THEN 0
                                                 ELSE LET x == CHOOSE x \in s : TRUE
                                                      IN  v[x] + f[s \ {x}]]
<1>8. G = [s \in SUBSET S |-> IF s = {} THEN 0 ELSE v[c(s)] + G[s \ {c(s)}]]
  BY <1>7 DEF c
<1>9. SumOf(v) = G[S]
  BY DEF SumOf, MapThenSumSet, MapThenFoldSet
<1>10. F = [s \in SUBSET S |-> IF s = {} THEN 0 ELSE v[c(s)] + F[s \ {c(s)}]]
  BY <1>7
<1> HIDE DEF G, Upto, Sums, T
<1> DEFINE Same == {n \in Nat : \A s \in SUBSET S : Cardinality(s) = n => G[s] = F[s]}
<1>11. 0 \in Same
  <2>1. \A s \in SUBSET S : Cardinality(s) = 0 => s = {}
    BY <1>2
  <2>. QED
    BY <1>8, <1>10, <2>1
<1>12. ASSUME NEW n \in Nat, n \in Same PROVE n + 1 \in Same
  <2>1. ASSUME NEW s \in SUBSET S, Cardinality(s) = n + 1 PROVE G[s] = F[s]
    <3>1. s # {}
      <4>1. Cardinality({}) = 0
        BY FS_EmptySet
      <4>2. Cardinality(s) # 0
        BY <2>1
      <4>. QED
        BY <4>1, <4>2, Zenon
    <3>2. s \ {c(s)} \in SUBSET S /\ Cardinality(s \ {c(s)}) = n
      BY <1>2, <2>1, <3>1
    <3>3. G[s \ {c(s)}] = F[s \ {c(s)}]
      BY <1>12, <3>2
    <3>. QED
      BY <1>8, <1>10, <3>1, <3>3
  <2>. QED
    BY <2>1
<1>13. Nat \subseteq Same
  <2> HIDE DEF Same
  <2>. QED
    BY <1>11, <1>12, EveryNat
<1>14. G[S] = F[S]
  BY <1>13, FS_CardinalityType
<1>15. F[{}] = 0
  BY <1>10
<1>16. ASSUME NEW s \in SUBSET S, s # {}
       PROVE  \E x \in s : F[s] = v[x] + F[s \ {x}]
  BY <1>1, <1>10, <1>16
<1>17. F \in [SUBSET S -> Nat] /\ SumOf(v) = F[S]
  BY <1>7, <1>9, <1>14
<1>. QED
  BY <1>15, <1>16, <1>17 DEF SumsUp

\* The records of a run are those of its streams, each counted once.
LEMMA RecordsOfStreams ==
    ASSUME NEW records \in Seq(BenchmarkRecord)
    PROVE  SumOf([stream \in StreamsIn(records) |-> Received(records, stream)]) = Len(records)
<1> DEFINE S == StreamsIn(records)
           v == [stream \in S |-> Received(records, stream)]
           Of(s) == {i \in DOMAIN records : records[i].stream \in s}
<1>1. DOMAIN records = 1 .. Len(records) /\ Len(records) \in Nat
  BY LenProperties
<1>2. IsFiniteSet(DOMAIN records) /\ Cardinality(DOMAIN records) = Len(records)
  BY <1>1, FS_Interval
<1>3. \A s : IsFiniteSet(Of(s)) /\ Cardinality(Of(s)) \in Nat
  <2>1. \A s : Of(s) \in SUBSET (DOMAIN records)
    OBVIOUS
  <2> HIDE DEF Of
  <2>. QED
    BY <1>2, <2>1, FS_Subset, FS_CardinalityType
<1>4. IsFiniteSet(S)
  <2> DEFINE f == [i \in DOMAIN records |-> records[i].stream]
  <2>1. f \in Surjection(DOMAIN records, S)
    BY DEF StreamsIn, Surjection
  <2> HIDE DEF f, S
  <2>. QED
    BY <1>2, <2>1, FS_Surjection
<1>5. ASSUME NEW x PROVE Received(records, x) = Cardinality(Of({x}))
  <2>1. OnStream(records, x) = Of({x})
    BY DEF OnStream
  <2>. QED
    BY <2>1 DEF Received
<1>6. v \in [S -> Nat]
  <2>1. \A x \in S : Received(records, x) \in Nat
    <3> HIDE DEF Of
    <3>. QED
      BY <1>3, <1>5
  <2>. QED
    BY <2>1
<1>7. PICK F : SumsUp(F, v, S) /\ SumOf(v) = F[S]
  <2> HIDE DEF v, S
  <2>. QED
    BY <1>4, <1>6, SumByElements
<1>8. ASSUME NEW s, NEW x \in s
      PROVE  Cardinality(Of(s)) = Cardinality(Of({x})) + Cardinality(Of(s \ {x}))
  <2>1. Of(s) = Of({x}) \cup Of(s \ {x}) /\ Of({x}) \cap Of(s \ {x}) = {}
    OBVIOUS
  <2> HIDE DEF Of
  <2>2. Cardinality(Of({x}) \cup Of(s \ {x})) =
            Cardinality(Of({x})) + Cardinality(Of(s \ {x})) - Cardinality({})
    BY <1>3, <2>1, FS_Union
  <2>3. Cardinality({}) = 0
    BY FS_EmptySet
  <2>4. Cardinality(Of({x})) \in Nat /\ Cardinality(Of(s \ {x})) \in Nat
    BY <1>3
  <2>. QED
    BY <2>1, <2>2, <2>3, <2>4
<1>9. Cardinality(Of({})) = 0
  <2>1. Of({}) = {}
    OBVIOUS
  <2>. QED
    BY <2>1, FS_EmptySet
<1>10. \A x \in S : v[x] = Cardinality(Of({x}))
  BY <1>5
<1>11. Of(S) = DOMAIN records
  BY DEF StreamsIn
<1> HIDE DEF Of, v, S
<1> DEFINE Same == {n \in Nat : \A s \in SUBSET S : Cardinality(s) = n => F[s] = Cardinality(Of(s))}
<1>12. \A s \in SUBSET S : IsFiniteSet(s) /\ Cardinality(s) \in Nat
  BY <1>4, FS_Subset, FS_CardinalityType
<1>13. 0 \in Same
  <2>1. \A s \in SUBSET S : Cardinality(s) = 0 => s = {}
    BY <1>12, FS_EmptySet
  <2>. QED
    BY <1>7, <1>9, <2>1 DEF SumsUp
<1>14. ASSUME NEW n \in Nat, n \in Same PROVE n + 1 \in Same
  <2>1. ASSUME NEW s \in SUBSET S, Cardinality(s) = n + 1
        PROVE  F[s] = Cardinality(Of(s))
    <3>1. s # {}
      <4>1. Cardinality({}) = 0
        BY FS_EmptySet
      <4>2. Cardinality(s) # 0
        BY <2>1
      <4>. QED
        BY <4>1, <4>2, Zenon
    <3>2. PICK x \in s : F[s] = v[x] + F[s \ {x}]
      BY <1>7, <3>1 DEF SumsUp
    <3>3. Cardinality(s \ {x}) = n
      BY <1>12, <2>1, FS_RemoveElement
    <3>4. F[s \ {x}] = Cardinality(Of(s \ {x}))
      BY <1>14, <3>3
    <3>. QED
      BY <1>8, <1>10, <3>2, <3>4
  <2>. QED
    BY <2>1
<1>15. Nat \subseteq Same
  <2> HIDE DEF Same
  <2>. QED
    BY <1>13, <1>14, EveryNat
<1>16. F[S] = Cardinality(Of(S))
  BY <1>12, <1>15
<1>. QED
  BY <1>2, <1>7, <1>11, <1>16 DEF v, S

-------------------------------------------------------------------------------
(* The statistics of a run *)

\* The latencies of a run are numbers, in order.
Ranked(stats) ==
    /\ stats["min"] \in Nat /\ stats["p50"] \in Nat /\ stats["p90"] \in Nat
    /\ stats["p95"] \in Nat /\ stats["p99"] \in Nat /\ stats["max"] \in Nat
    /\ stats["min"] <= stats["p50"] /\ stats["p50"] <= stats["p90"] /\ stats["p90"] <= stats["p95"]
    /\ stats["p95"] <= stats["p99"] /\ stats["p99"] <= stats["max"]

\* The places of the percentiles among n values.
LEMMA PlacesOfPercentiles ==
    ASSUME NEW n \in Nat, n # 0
    PROVE  /\ (50 * (n - 1)) \div 100 + 1 \in 1 .. n /\ (90 * (n - 1)) \div 100 + 1 \in 1 .. n
           /\ (95 * (n - 1)) \div 100 + 1 \in 1 .. n /\ (99 * (n - 1)) \div 100 + 1 \in 1 .. n
           /\ (50 * (n - 1)) \div 100 + 1 <= (90 * (n - 1)) \div 100 + 1
           /\ (90 * (n - 1)) \div 100 + 1 <= (95 * (n - 1)) \div 100 + 1
           /\ (95 * (n - 1)) \div 100 + 1 <= (99 * (n - 1)) \div 100 + 1
OBVIOUS

LEMMA NotEmpty ==
    ASSUME NEW S, IsFiniteSet(S), S # {}
    PROVE  Cardinality(S) \in Nat /\ Cardinality(S) # 0
BY FS_CardinalityType, FS_EmptySet

LEMMA SingleRunRanked ==
    ASSUME NEW D \in SUBSET Nat, IsFiniteSet(D), NEW latencies \in [D -> Nat],
           NEW sent, NEW received, NEW lost
    PROVE  Ranked(ComputeSingleRun(sent, received, lost, latencies))
<1> DEFINE stats == ComputeSingleRun(sent, received, lost, latencies)
           rtts == Sorted(latencies)
           n == Cardinality(D)
<1>1. DOMAIN latencies = D
  OBVIOUS
<1>2. CASE D = {}
  <2>1. /\ stats["min"] = Head(<<0>>) /\ stats["max"] = Last(<<0>>)
        /\ stats["p50"] = Percentile(<<0>>, 50) /\ stats["p90"] = Percentile(<<0>>, 90)
        /\ stats["p95"] = Percentile(<<0>>, 95) /\ stats["p99"] = Percentile(<<0>>, 99)
    BY <1>1, <1>2 DEF ComputeSingleRun
  <2>2. Head(<<0>>) = 0 /\ Last(<<0>>) = 0
    BY DEF Last
  <2>3. \A pct \in {50, 90, 95, 99} : Percentile(<<0>>, pct) = 0
    BY DEF Percentile
  <2> HIDE DEF stats
  <2>. QED
    BY <2>1, <2>2, <2>3 DEF Ranked, stats
<1>3. CASE D # {}
  <2>1. /\ stats["min"] = Head(rtts) /\ stats["max"] = Last(rtts)
        /\ stats["p50"] = rtts[(50 * (Len(rtts) - 1)) \div 100 + 1]
        /\ stats["p90"] = rtts[(90 * (Len(rtts) - 1)) \div 100 + 1]
        /\ stats["p95"] = rtts[(95 * (Len(rtts) - 1)) \div 100 + 1]
        /\ stats["p99"] = rtts[(99 * (Len(rtts) - 1)) \div 100 + 1]
    <3> HIDE DEF rtts
    <3>. QED
      BY <1>1, <1>3 DEF ComputeSingleRun, Percentile, rtts
  <2>2. /\ rtts \in Seq(Nat) /\ Len(rtts) = n /\ n \in Nat
        /\ \A i, j \in 1 .. n : i <= j => rtts[i] <= rtts[j]
    BY SortedList
  <2>3. n # 0
    BY <1>3, NotEmpty
  <2> HIDE DEF rtts, n, stats
  <2>4. \A i \in 1 .. n : rtts[i] \in Nat
    BY <2>2, ElementOfSeq
  <2>5. Head(rtts) = rtts[1] /\ Last(rtts) = rtts[n]
    BY <2>2, <2>3 DEF Last
  <2> DEFINE a == (50 * (n - 1)) \div 100 + 1
             b == (90 * (n - 1)) \div 100 + 1
             c == (95 * (n - 1)) \div 100 + 1
             d == (99 * (n - 1)) \div 100 + 1
  <2>6. /\ a \in 1 .. n /\ b \in 1 .. n /\ c \in 1 .. n /\ d \in 1 .. n
        /\ 1 \in 1 .. n /\ n \in 1 .. n
        /\ 1 <= a /\ a <= b /\ b <= c /\ c <= d /\ d <= n
    <3>1. /\ a \in 1 .. n /\ b \in 1 .. n /\ c \in 1 .. n /\ d \in 1 .. n
          /\ a <= b /\ b <= c /\ c <= d
      BY <2>2, <2>3, PlacesOfPercentiles
    <3> HIDE DEF a, b, c, d
    <3>. QED
      BY <2>2, <2>3, <3>1
  <2>7. /\ stats["min"] = rtts[1] /\ stats["max"] = rtts[n]
        /\ stats["p50"] = rtts[a] /\ stats["p90"] = rtts[b]
        /\ stats["p95"] = rtts[c] /\ stats["p99"] = rtts[d]
    BY <2>1, <2>2, <2>5
  <2> HIDE DEF a, b, c, d
  <2>8. /\ rtts[1] <= rtts[a] /\ rtts[a] <= rtts[b] /\ rtts[b] <= rtts[c]
        /\ rtts[c] <= rtts[d] /\ rtts[d] <= rtts[n]
    BY <2>2, <2>6
  <2>9. Ranked(stats)
    BY <2>4, <2>6, <2>7, <2>8 DEF Ranked
  <2>. QED
    BY <2>9 DEF stats
<1>. QED
  BY <1>2, <1>3

\* What is larger in every run has the larger median.
LEMMA MediansInOrder ==
    ASSUME NEW D \in SUBSET Nat, IsFiniteSet(D), D # {},
           NEW v \in [D -> Nat], NEW w \in [D -> Nat], \A i \in D : v[i] <= w[i]
    PROVE  Summarize(v).median2 <= Summarize(w).median2
<1> DEFINE n == Cardinality(D)
           a == (n + 1) \div 2
           b == n \div 2 + 1
<1>1. /\ Sorted(v) \in Seq(Nat) /\ Len(Sorted(v)) = n
      /\ Sorted(w) \in Seq(Nat) /\ Len(Sorted(w)) = n
  BY SortedList
<1>2. n \in Nat /\ n # 0
  BY NotEmpty
<1>3. a \in 1 .. n /\ b \in 1 .. n
  <2> HIDE DEF n
  <2>. QED
    BY <1>2
<1>4. \A k \in 1 .. n : Sorted(v)[k] <= Sorted(w)[k]
  BY SortedBelow
<1>5. \A k \in 1 .. n : Sorted(v)[k] \in Nat /\ Sorted(w)[k] \in Nat
  <2> HIDE DEF n
  <2>. QED
    BY <1>1, ElementOfSeq
<1>6. /\ Summarize(v).median2 = Sorted(v)[a] + Sorted(v)[b]
      /\ Summarize(w).median2 = Sorted(w)[a] + Sorted(w)[b]
  <2> HIDE DEF n
  <2>. QED
    BY <1>1 DEF Summarize
<1> HIDE DEF n, a, b
<1>. QED
  BY <1>3, <1>4, <1>5, <1>6

LEMMA AggregateInRank ==
    ASSUME NEW D \in SUBSET Nat, IsFiniteSet(D), NEW stats, DOMAIN stats = D,
           \A run \in D : Ranked(stats[run])
    PROVE  InRank(AggregateStats(stats))
<1> DEFINE agg == AggregateStats(stats)
           Of(m) == [run \in D |-> stats[run][m]]
<1>1. {Ranks[i] : i \in 1 .. 6} \subseteq Metrics /\ Len(Ranks) = 6
  BY DEF Ranks, Metrics
<1>2. ASSUME NEW i \in 1 .. 5, NEW run \in D
      PROVE  /\ stats[run][Ranks[i]] \in Nat /\ stats[run][Ranks[i + 1]] \in Nat
             /\ stats[run][Ranks[i]] <= stats[run][Ranks[i + 1]]
  <2>1. Ranked(stats[run])
    OBVIOUS
  <2>2. i = 1 \/ i = 2 \/ i = 3 \/ i = 4 \/ i = 5
    OBVIOUS
  <2>. QED
    BY <2>1, <2>2 DEF Ranked, Ranks
<1>3. SUFFICES ASSUME NEW i \in 1 .. 5
               PROVE  /\ agg[Ranks[i]].median2 <= agg[Ranks[i + 1]].median2
                      /\ \A run \in DOMAIN agg[Ranks[i]].values :
                            agg[Ranks[i]].values[run] <= agg[Ranks[i + 1]].values[run]
  BY <1>1 DEF InRank
<1> DEFINE low == Ranks[i]
           high == Ranks[i + 1]
<1>4. low \in Metrics /\ high \in Metrics
  BY <1>1
<1>5. CASE D = {}
  <2>1. agg[low] = EmptySummary /\ agg[high] = EmptySummary
    <3> HIDE DEF low, high
    <3>. QED
      BY <1>4, <1>5 DEF AggregateStats
  <2> HIDE DEF agg, low, high
  <2>2. EmptySummary.median2 = 0 /\ DOMAIN EmptySummary.values = {}
    BY DEF EmptySummary
  <2>. QED
    BY <2>1, <2>2 DEF low, high
<1>6. CASE D # {}
  <2>1. agg[low] = Summarize(Of(low)) /\ agg[high] = Summarize(Of(high))
    <3> HIDE DEF low, high
    <3>. QED
      BY <1>4, <1>6 DEF AggregateStats
  <2>2. /\ Of(low) \in [D -> Nat] /\ Of(high) \in [D -> Nat]
        /\ \A run \in D : Of(low)[run] <= Of(high)[run]
    BY <1>2
  <2> HIDE DEF agg, low, high, Of
  <2>3. Summarize(Of(low)).median2 <= Summarize(Of(high)).median2
    BY <1>6, <2>2, MediansInOrder
  <2>4. agg[low].values = Of(low) /\ agg[high].values = Of(high)
    BY <2>1 DEF Summarize
  <2>. QED
    BY <2>1, <2>2, <2>3, <2>4 DEF low, high
<1>. QED
  BY <1>5, <1>6

\* The places of a run's records, and of a stream's among them.
LEMMA PlacesOf ==
    ASSUME NEW records \in Seq(BenchmarkRecord)
    PROVE  /\ DOMAIN records \in SUBSET Nat /\ IsFiniteSet(DOMAIN records)
           /\ Latencies(records, DOMAIN records) \in [DOMAIN records -> Nat]
           /\ \A stream : /\ OnStream(records, stream) \in SUBSET Nat
                          /\ IsFiniteSet(OnStream(records, stream))
                          /\ Latencies(records, OnStream(records, stream)) \in
                                 [OnStream(records, stream) -> Nat]
<1>1. DOMAIN records = 1 .. Len(records) /\ Len(records) \in Nat
  BY LenProperties
<1>2. IsFiniteSet(DOMAIN records)
  BY <1>1, FS_Interval
<1>3. \A i \in DOMAIN records : records[i].rtt \in Nat
  <2>1. \A i \in DOMAIN records : records[i] \in BenchmarkRecord
    BY <1>1, ElementOfSeq
  <2>. QED
    BY <2>1 DEF BenchmarkRecord
<1>4. \A stream : OnStream(records, stream) \in SUBSET (DOMAIN records)
  BY DEF OnStream
<1>5. \A stream : IsFiniteSet(OnStream(records, stream))
  BY <1>2, <1>4, FS_Subset
<1>6. \A places \in SUBSET (DOMAIN records) : Latencies(records, places) \in [places -> Nat]
  BY <1>3 DEF Latencies
<1>7. DOMAIN records \in SUBSET Nat
  BY <1>1
<1>. QED
  BY <1>2, <1>4, <1>5, <1>6, <1>7

LEMMA StreamRanked ==
    ASSUME NEW records \in Seq(BenchmarkRecord), NEW stream
    PROVE  Ranked(StreamStats(records, stream))
<1> DEFINE D == OnStream(records, stream)
           latencies == Latencies(records, D)
           sent == Sent(records, stream)
           received == Received(records, stream)
           lost == Lost(records, stream)
<1>1. D \in SUBSET Nat /\ IsFiniteSet(D) /\ latencies \in [D -> Nat]
  BY PlacesOf
<1>2. StreamStats(records, stream) = ComputeSingleRun(sent, received, lost, latencies)
  BY DEF StreamStats
<1> HIDE DEF D, latencies, sent, received, lost
<1>. QED
  BY <1>1, <1>2, SingleRunRanked

LEMMA GlobalRanked ==
    ASSUME NEW records \in Seq(BenchmarkRecord)
    PROVE  Ranked(GlobalStats(records))
<1> DEFINE D == DOMAIN records
           latencies == Latencies(records, D)
           sent == SumOf([stream \in StreamsIn(records) |-> Sent(records, stream)])
           received == SumOf([stream \in StreamsIn(records) |-> Received(records, stream)])
           lost == SumOf([stream \in StreamsIn(records) |-> Lost(records, stream)])
<1>1. D \in SUBSET Nat /\ IsFiniteSet(D) /\ latencies \in [D -> Nat]
  BY PlacesOf
<1>2. GlobalStats(records) = ComputeSingleRun(sent, received, lost, latencies)
  BY DEF GlobalStats
<1> HIDE DEF D, latencies, sent, received, lost
<1>. QED
  BY <1>1, <1>2, SingleRunRanked

\* The counts in the statistics of a stream and of a run.
LEMMA CountsOfStream ==
    ASSUME NEW records, NEW stream \in StreamsIn(records)
    PROVE  /\ StreamStats(records, stream)["sent"] = Sent(records, stream)
           /\ StreamStats(records, stream)["received"] = Received(records, stream)
           /\ StreamStats(records, stream)["lost"] = Lost(records, stream)
<1>1. OnStream(records, stream) # {}
  BY DEF StreamsIn, OnStream
<1>2. DOMAIN Latencies(records, OnStream(records, stream)) # {}
  BY <1>1 DEF Latencies
<1> DEFINE sent == Sent(records, stream)
           received == Received(records, stream)
           lost == Lost(records, stream)
           latencies == Latencies(records, OnStream(records, stream))
<1>3. StreamStats(records, stream) = ComputeSingleRun(sent, received, lost, latencies)
  BY DEF StreamStats
<1> HIDE DEF sent, received, lost
<1>4. /\ StreamStats(records, stream)["sent"] = sent
      /\ StreamStats(records, stream)["received"] = received
      /\ StreamStats(records, stream)["lost"] = lost
  <2>1. DOMAIN latencies # {}
    BY <1>2
  <2> HIDE DEF latencies
  <2>. QED
    BY <1>3, <2>1 DEF ComputeSingleRun
<1>. QED
  BY <1>4 DEF sent, received, lost

LEMMA CountsOfRun ==
    ASSUME NEW records \in Seq(BenchmarkRecord), records # <<>>
    PROVE  /\ GlobalStats(records)["sent"] =
                  SumOf([stream \in StreamsIn(records) |-> Sent(records, stream)])
           /\ GlobalStats(records)["received"] =
                  SumOf([stream \in StreamsIn(records) |-> Received(records, stream)])
           /\ GlobalStats(records)["lost"] =
                  SumOf([stream \in StreamsIn(records) |-> Lost(records, stream)])
<1> DEFINE latencies == Latencies(records, DOMAIN records)
           sent == SumOf([stream \in StreamsIn(records) |-> Sent(records, stream)])
           received == SumOf([stream \in StreamsIn(records) |-> Received(records, stream)])
           lost == SumOf([stream \in StreamsIn(records) |-> Lost(records, stream)])
<1>1. DOMAIN latencies # {}
  <2>1. DOMAIN records # {}
    <3>1. Len(records) \in Nat \ {0}
      BY EmptySeq
    <3>2. DOMAIN records = 1 .. Len(records)
      BY LenProperties
    <3>3. 1 \in DOMAIN records
      BY <3>1, <3>2
    <3>. QED
      BY <3>3
  <2>. QED
    BY <2>1 DEF Latencies
<1>2. GlobalStats(records) = ComputeSingleRun(sent, received, lost, latencies)
  BY DEF GlobalStats
<1> HIDE DEF sent, received, lost, latencies
<1>3. /\ GlobalStats(records)["sent"] = sent
      /\ GlobalStats(records)["received"] = received
      /\ GlobalStats(records)["lost"] = lost
  BY <1>1, <1>2 DEF ComputeSingleRun
<1>. QED
  BY <1>3 DEF sent, received, lost

-------------------------------------------------------------------------------
(* The report on a pair *)

ValuesOfAll(runs, m) == [run \in RunsCounted(runs) |-> GlobalStats(runs[run])[m]]

ValuesOfStream(runs, stream, m) ==
    [run \in RunsWith(runs, stream) |-> StreamStats(runs[run], stream)[m]]

\* The summaries of all and of a stream: one value for every run counted.
LEMMA SummaryOfAll ==
    ASSUME NEW runs, NEW m \in Metrics
    PROVE  LET summary == AggregateRuns(runs).global[m] IN
           /\ DOMAIN summary.values = RunsCounted(runs)
           /\ \A i \in RunsCounted(runs) : summary.values[i] = GlobalStats(runs[i])[m]
           /\ RunsCounted(runs) # {} => summary.values = ValuesOfAll(runs, m)
<1> DEFINE stats == [run \in RunsCounted(runs) |-> GlobalStats(runs[run])]
           summary == AggregateStats(stats)[m]
<1>1. AggregateRuns(runs).global = AggregateStats(stats)
  BY DEF AggregateRuns
<1>2. CASE RunsCounted(runs) = {}
  <2>1. summary = EmptySummary
    BY <1>2 DEF AggregateStats
  <2>2. DOMAIN EmptySummary.values = {}
    BY DEF EmptySummary
  <2> HIDE DEF summary
  <2>. QED
    BY <1>1, <1>2, <2>1, <2>2 DEF summary
<1>3. CASE RunsCounted(runs) # {}
  <2> DEFINE v == [run \in RunsCounted(runs) |-> GlobalStats(runs[run])[m]]
  <2>1. summary = Summarize([run \in DOMAIN stats |-> stats[run][m]]) /\ DOMAIN stats = RunsCounted(runs)
    BY <1>3 DEF AggregateStats
  <2>2. [run \in DOMAIN stats |-> stats[run][m]] = v
    OBVIOUS
  <2>3. Summarize(v).values = v
    <3> HIDE DEF v
    <3>. QED
      BY DEF Summarize
  <2>4. summary.values = v
    <3> HIDE DEF summary, v, stats
    <3>. QED
      BY <2>1, <2>2, <2>3
  <2> HIDE DEF summary
  <2>. QED
    BY <1>1, <2>4 DEF summary, ValuesOfAll
<1>. QED
  BY <1>2, <1>3

AllStreams(runs) == UNION {StreamsIn(runs[run]) : run \in DOMAIN runs}

LEMMA SummaryOfStream ==
    ASSUME NEW runs, NEW stream \in AllStreams(runs),
           RunsWith(runs, stream) # {}, NEW m \in Metrics
    PROVE  LET summary == AggregateRuns(runs).streams[stream][m] IN
           /\ DOMAIN summary.values = RunsWith(runs, stream)
           /\ \A i \in RunsWith(runs, stream) : summary.values[i] = StreamStats(runs[i], stream)[m]
           /\ summary.values = ValuesOfStream(runs, stream, m)
<1> DEFINE D == RunsWith(runs, stream)
           stats == [run \in D |-> StreamStats(runs[run], stream)]
           summary == AggregateStats(stats)[m]
           v == [run \in D |-> StreamStats(runs[run], stream)[m]]
<1>1. AggregateRuns(runs).streams[stream] = AggregateStats(stats)
  BY DEF AggregateRuns, AllStreams
<1>2. summary = Summarize([run \in DOMAIN stats |-> stats[run][m]]) /\ DOMAIN stats = D
  <2>1. DOMAIN stats = D /\ D # {}
    OBVIOUS
  <2> HIDE DEF stats, D
  <2>. QED
    BY <2>1 DEF AggregateStats
<1>3. [run \in DOMAIN stats |-> stats[run][m]] = v
  OBVIOUS
<1>4. Summarize(v).values = v
  <2> HIDE DEF v
  <2>. QED
    BY DEF Summarize
<1>5. summary.values = v
  <2> HIDE DEF summary, v, stats
  <2>. QED
    BY <1>2, <1>3, <1>4
<1> HIDE DEF summary
<1>. QED
  BY <1>1, <1>5 DEF summary, ValuesOfStream

\* A stream that has records has them in a run that is counted.
LEMMA StreamsHaveRuns ==
    ASSUME NEW runs \in Seq(Seq(BenchmarkRecord))
    PROVE  /\ \A run \in DOMAIN runs : runs[run] \in Seq(BenchmarkRecord)
           /\ DOMAIN runs \in SUBSET Nat /\ IsFiniteSet(DOMAIN runs)
           /\ \A run \in DOMAIN runs : \A stream :
                  stream \in StreamsIn(runs[run]) => run \in RunsWith(runs, stream)
           /\ \A stream \in AllStreams(runs) : RunsWith(runs, stream) # {}
<1>1. DOMAIN runs = 1 .. Len(runs) /\ Len(runs) \in Nat
  BY LenProperties
<1>2. IsFiniteSet(DOMAIN runs) /\ DOMAIN runs \in SUBSET Nat
  BY <1>1, FS_Interval
<1>3. \A run \in DOMAIN runs : runs[run] \in Seq(BenchmarkRecord)
  BY <1>1, ElementOfSeq
<1>4. ASSUME NEW run \in DOMAIN runs, NEW stream, stream \in StreamsIn(runs[run])
      PROVE  run \in RunsWith(runs, stream)
  <2>1. DOMAIN <<>> = {}
    OBVIOUS
  <2>2. runs[run] # <<>>
    BY <1>4, <2>1 DEF StreamsIn
  <2>. QED
    BY <1>4, <2>2 DEF RunsWith, RunsCounted
<1>5. ASSUME NEW stream \in AllStreams(runs)
      PROVE  RunsWith(runs, stream) # {}
  <2>1. PICK run \in DOMAIN runs : stream \in StreamsIn(runs[run])
    BY DEF AllStreams
  <2>. QED
    BY <1>4, <2>1
<1>. QED
  BY <1>2, <1>3, <1>4, <1>5

LEMMA ReportAddsUp ==
    ASSUME NEW runs \in Seq(Seq(BenchmarkRecord))
    PROVE  AddsUp(runs, AggregateRuns(runs))
<1> DEFINE report == AggregateRuns(runs)
           With(i) == {stream \in DOMAIN report.streams :
                          i \in DOMAIN report.streams[stream]["received"].values}
<1>1. report.num_runs = Len(runs)
  BY DEF AggregateRuns
<1>2. DOMAIN report.streams = AllStreams(runs)
  BY DEF AggregateRuns, AllStreams
<1>3. {"sent", "received", "lost"} \subseteq Metrics
  BY DEF Metrics
<1>4. /\ \A run \in DOMAIN runs : runs[run] \in Seq(BenchmarkRecord)
      /\ \A run \in DOMAIN runs : \A stream :
             stream \in StreamsIn(runs[run]) => run \in RunsWith(runs, stream)
      /\ \A stream \in AllStreams(runs) : RunsWith(runs, stream) # {}
  BY StreamsHaveRuns
<1> HIDE DEF report
<1>5. ASSUME NEW stream \in AllStreams(runs), NEW m \in Metrics
      PROVE  /\ DOMAIN report.streams[stream][m].values = RunsWith(runs, stream)
             /\ \A i \in RunsWith(runs, stream) :
                    report.streams[stream][m].values[i] = StreamStats(runs[i], stream)[m]
  <2>1. RunsWith(runs, stream) # {}
    BY <1>4
  <2>. QED
    BY <2>1, SummaryOfStream DEF report
<1>6. ASSUME NEW m \in Metrics
      PROVE  /\ DOMAIN report.global[m].values = RunsCounted(runs)
             /\ \A i \in RunsCounted(runs) : report.global[m].values[i] = GlobalStats(runs[i])[m]
  BY SummaryOfAll DEF report
<1>7. RunsCounted(runs) = {i \in DOMAIN runs : runs[i] # <<>>}
  BY DEF RunsCounted
<1>8. ASSUME NEW i \in RunsCounted(runs)
      PROVE  With(i) = StreamsIn(runs[i])
  <2>1. i \in DOMAIN runs
    BY DEF RunsCounted
  <2>2. StreamsIn(runs[i]) \subseteq AllStreams(runs)
    BY <2>1 DEF AllStreams
  <2>3. \A stream \in AllStreams(runs) : i \in RunsWith(runs, stream) <=> stream \in StreamsIn(runs[i])
    BY <1>4, <2>1 DEF RunsWith
  <2>4. \A stream \in AllStreams(runs) :
            DOMAIN report.streams[stream]["received"].values = RunsWith(runs, stream)
    BY <1>3, <1>5
  <2>. QED
    BY <1>2, <2>2, <2>3, <2>4
<1>9. ASSUME NEW i \in RunsCounted(runs), NEW stream \in StreamsIn(runs[i]), NEW m \in Metrics
      PROVE  report.streams[stream][m].values[i] = StreamStats(runs[i], stream)[m]
  <2>1. i \in DOMAIN runs /\ i \in RunsWith(runs, stream) /\ stream \in AllStreams(runs)
    BY <1>4 DEF RunsCounted, AllStreams
  <2>. QED
    BY <1>5, <2>1
<1> HIDE DEF With
<1>10. ASSUME NEW i \in RunsCounted(runs), NEW m \in {"sent", "received", "lost"}
       PROVE  report.global[m].values[i] =
                  SumOf([stream \in With(i) |-> report.streams[stream][m].values[i]])
  <2>1. runs[i] \in Seq(BenchmarkRecord) /\ runs[i] # <<>>
    BY <1>4 DEF RunsCounted
  <2>2. [stream \in With(i) |-> report.streams[stream][m].values[i]] =
            [stream \in StreamsIn(runs[i]) |-> StreamStats(runs[i], stream)[m]]
    BY <1>3, <1>8, <1>9
  <2>3. report.global[m].values[i] = GlobalStats(runs[i])[m]
    BY <1>3, <1>6
  <2>4. GlobalStats(runs[i])[m] = SumOf([stream \in StreamsIn(runs[i]) |-> StreamStats(runs[i], stream)[m]])
    <3>1. CASE m = "sent"
      <4>1. [stream \in StreamsIn(runs[i]) |-> StreamStats(runs[i], stream)["sent"]] =
                [stream \in StreamsIn(runs[i]) |-> Sent(runs[i], stream)]
        BY CountsOfStream
      <4>. QED
        BY <2>1, <3>1, <4>1, CountsOfRun
    <3>2. CASE m = "received"
      <4>1. [stream \in StreamsIn(runs[i]) |-> StreamStats(runs[i], stream)["received"]] =
                [stream \in StreamsIn(runs[i]) |-> Received(runs[i], stream)]
        BY CountsOfStream
      <4>. QED
        BY <2>1, <3>2, <4>1, CountsOfRun
    <3>3. CASE m = "lost"
      <4>1. [stream \in StreamsIn(runs[i]) |-> StreamStats(runs[i], stream)["lost"]] =
                [stream \in StreamsIn(runs[i]) |-> Lost(runs[i], stream)]
        BY CountsOfStream
      <4>. QED
        BY <2>1, <3>3, <4>1, CountsOfRun
    <3>. QED
      BY <3>1, <3>2, <3>3
  <2>. QED
    BY <2>2, <2>3, <2>4
<1>11. ASSUME NEW i \in RunsCounted(runs)
       PROVE  report.global["received"].values[i] = Len(runs[i])
  <2>1. runs[i] \in Seq(BenchmarkRecord) /\ runs[i] # <<>>
    BY <1>4 DEF RunsCounted
  <2>2. report.global["received"].values[i] = GlobalStats(runs[i])["received"]
    BY <1>3, <1>6
  <2>. QED
    BY <2>1, <2>2, CountsOfRun, RecordsOfStreams
<1>12. AddsUp(runs, report)
  BY <1>1, <1>6, <1>7, <1>10, <1>11 DEF AddsUp, With
<1>. QED
  BY <1>12 DEF report

LEMMA ReportAgrees ==
    ASSUME NEW runs \in Seq(Seq(BenchmarkRecord))
    PROVE  AgreesWithSingleFile(runs, AggregateRuns(runs))
<1> DEFINE report == AggregateRuns(runs)
           single == AnalyzeSingleFile(runs[1])
<1>1. SUFFICES ASSUME DOMAIN runs = {1}, runs[1] # <<>>
               PROVE  /\ \A m \in Metrics : report.global[m].values = <<single.global[m]>>
                      /\ DOMAIN report.streams = DOMAIN single.streams
                      /\ \A stream \in DOMAIN single.streams : \A m \in Metrics :
                            report.streams[stream][m].values = <<single.streams[stream][m]>>
  BY DEF AgreesWithSingleFile
<1>2. /\ RunsCounted(runs) = {1} /\ AllStreams(runs) = StreamsIn(runs[1])
      /\ \A stream \in StreamsIn(runs[1]) : RunsWith(runs, stream) = {1}
  BY <1>1 DEF RunsCounted, AllStreams, RunsWith
<1>3. /\ single.global = GlobalStats(runs[1])
      /\ DOMAIN single.streams = StreamsIn(runs[1])
      /\ \A stream \in StreamsIn(runs[1]) : single.streams[stream] = StreamStats(runs[1], stream)
  BY DEF AnalyzeSingleFile
<1>4. DOMAIN report.streams = StreamsIn(runs[1])
  BY <1>2 DEF AggregateRuns, AllStreams
<1> HIDE DEF report, single
<1>5. ASSUME NEW m \in Metrics PROVE report.global[m].values = <<single.global[m]>>
  <2>1. report.global[m].values = [run \in {1} |-> GlobalStats(runs[run])[m]]
    <3>1. RunsCounted(runs) = {1} /\ RunsCounted(runs) # {}
      BY <1>2
    <3>2. report.global[m].values = ValuesOfAll(runs, m)
      BY <3>1, SummaryOfAll DEF report
    <3>. QED
      BY <3>1, <3>2 DEF ValuesOfAll
  <2>. QED
    BY <1>3, <2>1
<1>6. ASSUME NEW stream \in StreamsIn(runs[1]), NEW m \in Metrics
      PROVE  report.streams[stream][m].values = <<single.streams[stream][m]>>
  <2>1. stream \in AllStreams(runs) /\ RunsWith(runs, stream) # {}
    BY <1>2
  <2>2. report.streams[stream][m].values = ValuesOfStream(runs, stream, m)
    BY <2>1, SummaryOfStream DEF report
  <2>3. RunsWith(runs, stream) = {1}
    BY <1>2
  <2>4. report.streams[stream][m].values = [run \in {1} |-> StreamStats(runs[run], stream)[m]]
    BY <2>2, <2>3 DEF ValuesOfStream
  <2>. QED
    BY <1>3, <2>4
<1>. QED
  BY <1>3, <1>4, <1>5, <1>6

LEMMA ReportInRank ==
    ASSUME NEW runs \in Seq(Seq(BenchmarkRecord))
    PROVE  /\ InRank(AggregateRuns(runs).global)
           /\ \A stream \in DOMAIN AggregateRuns(runs).streams :
                  InRank(AggregateRuns(runs).streams[stream])
<1>1. /\ \A run \in DOMAIN runs : runs[run] \in Seq(BenchmarkRecord)
      /\ DOMAIN runs \in SUBSET Nat /\ IsFiniteSet(DOMAIN runs)
  BY StreamsHaveRuns
<1>2. InRank(AggregateRuns(runs).global)
  <2> DEFINE D == RunsCounted(runs)
             stats == [run \in D |-> GlobalStats(runs[run])]
  <2>1. D \in SUBSET (DOMAIN runs)
    BY DEF RunsCounted
  <2>2. DOMAIN stats = D /\ \A run \in D : Ranked(stats[run])
    BY <1>1, <2>1, GlobalRanked
  <2>3. AggregateRuns(runs).global = AggregateStats(stats)
    BY DEF AggregateRuns
  <2> HIDE DEF D, stats
  <2>4. D \in SUBSET Nat /\ IsFiniteSet(D)
    BY <1>1, <2>1, FS_Subset
  <2>. QED
    BY <2>2, <2>3, <2>4, AggregateInRank
<1>3. ASSUME NEW stream \in DOMAIN AggregateRuns(runs).streams
      PROVE  InRank(AggregateRuns(runs).streams[stream])
  <2> DEFINE D == RunsWith(runs, stream)
             stats == [run \in D |-> StreamStats(runs[run], stream)]
  <2>1. D \in SUBSET (DOMAIN runs)
    BY DEF RunsWith, RunsCounted
  <2>2. DOMAIN stats = D /\ \A run \in D : Ranked(stats[run])
    BY <1>1, <2>1, StreamRanked
  <2>3. AggregateRuns(runs).streams[stream] = AggregateStats(stats)
    BY <1>3 DEF AggregateRuns
  <2> HIDE DEF D, stats
  <2>4. D \in SUBSET Nat /\ IsFiniteSet(D)
    BY <1>1, <2>1, FS_Subset
  <2>. QED
    BY <2>2, <2>3, <2>4, AggregateInRank
<1>. QED
  BY <1>2, <1>3

-------------------------------------------------------------------------------
(* The sweep *)

Present(pair) == {run \in Runs : files[pair][run] # Absent}

\* The pairs the last call is past.
Past == IF sweep = "none" THEN {} ELSE Discovered \ ToSet(todo)

SweepInv ==
    /\ SweepTypeOK /\ DOMAIN reports = Pairs
    /\ sweep = "running" => ToSet(todo) \subseteq Discovered
    /\ \A pair \in Past : reports[pair] = Saved(Report(pair)) /\ Loads(pair)
    /\ sweep = "failed" => todo # <<>> /\ ~Loads(Head(todo))
    /\ sweep = "saved" => todo = <<>>

LEMMA RunFilesOf ==
    ASSUME SweepTypeOK, NEW pair \in Pairs
    PROVE  /\ RunFiles(pair) \in Seq(Runs) /\ Len(RunFiles(pair)) = Cardinality(Present(pair))
           /\ Len(RunFiles(pair)) \in 0 .. Cardinality(Runs)
           /\ pair \in Discovered => Len(RunFiles(pair)) # 0
           /\ ToSet(RunFiles(pair)) = Present(pair)
<1> DEFINE S == Present(pair)
           list == RunFiles(pair)
<1>1. IsFiniteSet(Runs) /\ Runs \subseteq Nat /\ S \in SUBSET Runs
  BY SweepAssumption DEF Present
<1>2. S \in SUBSET Nat /\ IsFiniteSet(S) /\ Cardinality(S) <= Cardinality(Runs)
      /\ Cardinality(S) \in Nat /\ Cardinality(Runs) \in Nat
  <2> HIDE DEF S
  <2>. QED
    BY <1>1, FS_Subset, FS_CardinalityType
<1>3. list = NumbersOf(S)
  BY DEF RunFiles, NumbersOf, Listed, Present
<1> HIDE DEF S, list
<1>4. list \in Seq(S) /\ Len(list) = Cardinality(S) /\ Len(list) \in Nat /\ ToSet(list) = S
  BY <1>2, <1>3, NumbersListed
<1>5. DOMAIN list = 1 .. Len(list) /\ \A k \in 1 .. Len(list) : list[k] \in Runs
  BY <1>1, <1>4, LenProperties, ElementOfSeq
<1>6. list \in [1 .. Len(list) -> Runs]
  BY <1>4, <1>5
<1>7. list \in Seq(Runs)
  BY <1>4, <1>6, ListOfLength
<1>8. pair \in Discovered => S # {}
  BY DEF Discovered, S, Present
<1>9. pair \in Discovered => Cardinality(S) # 0
  BY <1>2, <1>8, NotEmpty
<1>10. Len(list) \in 0 .. Cardinality(Runs)
  BY <1>2, <1>4
<1>. QED
  BY <1>4, <1>7, <1>9, <1>10 DEF S, list

LEMMA RunRecordsOf ==
    ASSUME SweepTypeOK, NEW pair \in Pairs
    PROVE  /\ RunRecords(pair) \in Seq(Seq(BenchmarkRecord))
           /\ Len(RunRecords(pair)) = Len(RunFiles(pair))
<1> DEFINE n == Len(RunFiles(pair))
<1>1. n \in Nat /\ DOMAIN RunFiles(pair) = 1 .. n /\ \A i \in 1 .. n : RunFiles(pair)[i] \in Runs
  BY RunFilesOf, LenProperties, ElementOfSeq
<1>2. \A run \in Runs : files[pair][run].records \in Seq(BenchmarkRecord)
  <2>1. \A run \in Runs : files[pair][run] \in Contents
    BY DEF SweepTypeOK
  <2>2. \A content \in Contents : content.records \in Seq(BenchmarkRecord)
    <3>1. <<>> \in Seq(BenchmarkRecord)
      BY EmptySeq
    <3>2. Recorded \subseteq Seq(BenchmarkRecord)
      BY SweepAssumption
    <3>3. ASSUME NEW content \in Contents
          PROVE  content.records = <<>> \/ content.records \in Recorded
      BY DEF Contents, Absent, Torn, Whole
    <3>. QED
      BY <3>1, <3>2, <3>3
  <2>. QED
    BY <2>1, <2>2
<1>3. RunRecords(pair) \in [1 .. n -> Seq(BenchmarkRecord)]
  <2> HIDE DEF n
  <2>. QED
    BY <1>1, <1>2 DEF RunRecords
<1>4. \A S : \A list \in [1 .. n -> S] : list \in Seq(S) /\ Len(list) = n
  <2> HIDE DEF n
  <2>. QED
    BY <1>1, ListOfLength
<1> HIDE DEF n
<1>5. RunRecords(pair) \in Seq(Seq(BenchmarkRecord)) /\ Len(RunRecords(pair)) = n
  BY <1>3, <1>4
<1>. QED
  BY <1>5 DEF n

LEMMA NumRuns ==
    ASSUME SweepTypeOK, NEW pair \in Pairs, pair \in Discovered
    PROVE  Report(pair).num_runs \in 1 .. Cardinality(Runs)
<1>1. Report(pair).num_runs = Len(RunRecords(pair))
  BY DEF Report, AggregateRuns
<1>2. Len(RunRecords(pair)) = Len(RunFiles(pair))
  BY RunRecordsOf
<1>3. Len(RunFiles(pair)) \in 0 .. Cardinality(Runs) /\ Len(RunFiles(pair)) # 0
  BY RunFilesOf
<1>4. Cardinality(Runs) \in Nat
  BY SweepAssumption, FS_CardinalityType
<1>. QED
  BY <1>1, <1>2, <1>3, <1>4

LEMMA SameFiles ==
    ASSUME UNCHANGED files
    PROVE  /\ Discovered' = Discovered
           /\ \A pair : Report(pair)' = Report(pair) /\ (Loads(pair)' <=> Loads(pair))
<1>1. Discovered' = Discovered
  BY DEF Discovered
<1>2. ASSUME NEW pair PROVE Report(pair)' = Report(pair) /\ (Loads(pair)' <=> Loads(pair))
  <2> DEFINE S == {run \in Runs : files[pair][run] # Absent}
  <2>1. RunFiles(pair) = NumbersOf(S) /\ RunFiles(pair)' = NumbersOf(S')
    BY DEF RunFiles, NumbersOf, Listed
  <2>2. S' = S
    OBVIOUS
  <2>3. RunFiles(pair)' = RunFiles(pair)
    <3> HIDE DEF S
    <3>. QED
      BY <2>1, <2>2
  <2>4. RunRecords(pair)' = RunRecords(pair)
    BY <2>3 DEF RunRecords
  <2>5. Report(pair)' = Report(pair)
    BY <2>4 DEF Report
  <2>6. Loads(pair)' <=> Loads(pair)
    BY DEF Loads
  <2>. QED
    BY <2>5, <2>6
<1>. QED
  BY <1>1, <1>2

\* What is left to do after the first pair.
LEMMA TodoTail ==
    ASSUME NEW S, NEW t \in Seq(S), t # <<>>
    PROVE  /\ Head(t) \in S /\ Head(t) \in ToSet(t) /\ Tail(t) \in Seq(S)
           /\ ToSet(Tail(t)) \subseteq ToSet(t)
           /\ ToSet(t) \subseteq {Head(t)} \cup ToSet(Tail(t))
           /\ \A i, j \in 1 .. Len(Tail(t)) : i < j =>
                  \E k, l \in 1 .. Len(t) : k < l /\ Tail(t)[i] = t[k] /\ Tail(t)[j] = t[l]
<1>1. /\ Head(t) \in S /\ Tail(t) \in Seq(S) /\ Len(Tail(t)) = Len(t) - 1
      /\ \A i \in 1 .. Len(Tail(t)) : Tail(t)[i] = t[i + 1]
      /\ Head(t) = t[1] /\ Len(t) \in Nat \ {0}
  BY HeadTailProperties, EmptySeq
<1>2. DOMAIN t = 1 .. Len(t) /\ DOMAIN Tail(t) = 1 .. Len(Tail(t))
  BY <1>1, LenProperties
<1> DEFINE h == Head(t)
           r == Tail(t)
<1> HIDE DEF h, r
<1>3. /\ h \in S /\ r \in Seq(S) /\ Len(r) = Len(t) - 1 /\ h = t[1]
      /\ \A i \in 1 .. Len(r) : r[i] = t[i + 1]
      /\ DOMAIN t = 1 .. Len(t) /\ DOMAIN r = 1 .. Len(r) /\ Len(t) \in Nat \ {0}
  BY <1>1, <1>2 DEF h, r
<1>4. h \in ToSet(t)
  BY <1>3 DEF ToSet
<1>5. ToSet(r) \subseteq ToSet(t)
  BY <1>3 DEF ToSet
<1>6. ToSet(t) \subseteq {h} \cup ToSet(r)
  <2>1. ASSUME NEW i \in 1 .. Len(t), i # 1 PROVE t[i] \in ToSet(r)
    <3>1. i - 1 \in 1 .. Len(r) /\ r[i - 1] = t[(i - 1) + 1] /\ (i - 1) + 1 = i
      BY <1>3, <2>1
    <3>. QED
      BY <1>3, <3>1 DEF ToSet
  <2>. QED
    BY <1>3, <2>1 DEF ToSet
<1>7. ASSUME NEW i \in 1 .. Len(r), NEW j \in 1 .. Len(r), i < j
      PROVE  \E k, l \in 1 .. Len(t) : k < l /\ r[i] = t[k] /\ r[j] = t[l]
  <2>1. i + 1 \in 1 .. Len(t) /\ j + 1 \in 1 .. Len(t) /\ i + 1 < j + 1
    BY <1>3, <1>7
  <2>. QED
    BY <1>3, <2>1
<1>. QED
  BY <1>3, <1>4, <1>5, <1>6, <1>7 DEF h, r

LEMMA SweepInvInit == SweepInit => SweepInv
<1> SUFFICES ASSUME SweepInit PROVE SweepInv
  OBVIOUS
<1>1. /\ files = [pair \in Pairs |-> [run \in Runs |-> Absent]]
      /\ reports = [pair \in Pairs |-> NoReport]
      /\ sweep = "none" /\ todo = <<>> /\ written = 0 /\ sweeps = 0
  BY DEF SweepInit
<1>2. files \in [Pairs -> [Runs -> Contents]]
  BY <1>1 DEF Contents
<1>3. \A pair \in Pairs : reports[pair].state = "none"
  BY <1>1 DEF NoReport
<1>4. todo \in Seq(Pairs) /\ IsSorted(todo, Earlier)
  <2>1. todo \in Seq(Pairs) /\ Len(todo) = 0
    BY <1>1, EmptySeq
  <2>. QED
    BY <2>1 DEF IsSorted
<1>5. SweepTypeOK
  BY <1>1, <1>2, <1>3, <1>4, SweepAssumption DEF SweepTypeOK
<1>. QED
  BY <1>1, <1>5 DEF SweepInv, Past

LEMMA WriteStep == SweepInv /\ WriteFile => SweepInv'
<1> SUFFICES ASSUME SweepInv, WriteFile PROVE SweepInv'
  OBVIOUS
<1>1. /\ UNCHANGED <<reports, todo, sweeps>> /\ sweep' = "none" /\ written' = written + 1
      /\ written < MaxWrites
  BY DEF WriteFile
<1>2. files' \in [Pairs -> [Runs -> Contents]]
  <2>1. PICK pair \in Pairs, run \in Runs, content \in Contents \ {Absent} :
            files' = [files EXCEPT ![pair][run] = content]
    BY DEF WriteFile
  <2>. QED
    BY <2>1 DEF SweepInv, SweepTypeOK
<1>3. written' \in 0 .. MaxWrites
  BY <1>1, SweepAssumption DEF SweepInv, SweepTypeOK
<1>4. IsSorted(todo, Earlier)'
  BY <1>1 DEF SweepInv, SweepTypeOK, IsSorted, Earlier
<1>5. SweepTypeOK'
  BY <1>1, <1>2, <1>3, <1>4 DEF SweepInv, SweepTypeOK
<1>. QED
  BY <1>1, <1>5 DEF SweepInv, Past

\* The files are the same, and the reports either.
LEMMA SweepTypeSame ==
    ASSUME SweepTypeOK, UNCHANGED <<files, reports, todo, written>>,
           sweep' \in {"none", "running", "saved", "failed", "killed"},
           sweeps' \in 0 .. MaxSweeps
    PROVE  SweepTypeOK'
<1>1. IsSorted(todo, Earlier)'
  BY DEF SweepTypeOK, IsSorted, Earlier
<1>. QED
  BY <1>1 DEF SweepTypeOK

LEMMA StartStep == SweepInv /\ StartSweep => SweepInv'
<1> SUFFICES ASSUME SweepInv, StartSweep PROVE SweepInv'
  OBVIOUS
<1>1. /\ UNCHANGED <<files, reports, written>> /\ sweep' = "running" /\ sweeps' = sweeps + 1
      /\ sweeps < MaxSweeps /\ todo' = InOrder(Discovered)
  BY DEF StartSweep
<1>2. Discovered \in SUBSET Pairs
  BY DEF Discovered
<1>3. /\ todo' \in Seq(Discovered) /\ Len(todo') \in Nat /\ ToSet(todo') = Discovered
      /\ \A i, j \in 1 .. Len(todo') : i < j => Earlier(todo'[i], todo'[j])
  BY <1>1, <1>2, PairsListed
<1>4. IsSorted(todo, Earlier)'
  BY <1>3 DEF IsSorted, Earlier
<1>5. todo' \in Seq(Pairs)
  <2>1. DOMAIN todo' = 1 .. Len(todo') /\ \A i \in 1 .. Len(todo') : todo'[i] \in Pairs
    BY <1>2, <1>3, LenProperties, ElementOfSeq
  <2>2. todo' \in [1 .. Len(todo') -> Discovered]
    BY <1>3, LenProperties
  <2>3. todo' \in [1 .. Len(todo') -> Pairs]
    BY <1>2, <2>2
  <2>. QED
    BY <1>3, <2>3, ListOfLength
<1>6. sweeps' \in 0 .. MaxSweeps
  BY <1>1, SweepAssumption DEF SweepInv, SweepTypeOK
<1>7. SweepTypeOK'
  BY <1>1, <1>4, <1>5, <1>6 DEF SweepInv, SweepTypeOK
<1>8. Discovered' = Discovered
  BY <1>1, SameFiles
<1>9. ToSet(todo)' = Discovered
  BY <1>3
<1>10. Past' = {}
  BY <1>1, <1>8, <1>9 DEF Past
<1>. QED
  BY <1>1, <1>7, <1>8, <1>9, <1>10 DEF SweepInv

LEMMA SaveStep == SweepInv /\ SavePair => SweepInv'
<1> SUFFICES ASSUME SweepInv, SavePair PROVE SweepInv'
  OBVIOUS
<1> DEFINE h == Head(todo)
           report == Report(h)
<1>1. /\ UNCHANGED <<files, sweep, written, sweeps>> /\ sweep = "running" /\ todo # <<>>
      /\ Loads(h) /\ reports' = [reports EXCEPT ![h] = Saved(report)] /\ todo' = Tail(todo)
  BY DEF SavePair
<1>2. /\ SweepTypeOK /\ DOMAIN reports = Pairs /\ ToSet(todo) \subseteq Discovered
      /\ todo \in Seq(Pairs)
      /\ \A pair \in Past : reports[pair] = Saved(Report(pair)) /\ Loads(pair)
  BY <1>1 DEF SweepInv, SweepTypeOK
<1>3. /\ h \in Pairs /\ h \in ToSet(todo) /\ todo' \in Seq(Pairs)
      /\ ToSet(todo') \subseteq ToSet(todo) /\ ToSet(todo) \subseteq {h} \cup ToSet(todo')
      /\ \A i, j \in 1 .. Len(todo') : i < j =>
            \E k, l \in 1 .. Len(todo) : k < l /\ todo'[i] = todo[k] /\ todo'[j] = todo[l]
  BY <1>1, <1>2, TodoTail
<1>4. IsSorted(todo, Earlier)'
  <2>1. \A k, l \in 1 .. Len(todo) : k < l => Earlier(todo[k], todo[l])
    BY <1>2 DEF SweepTypeOK, IsSorted
  <2>2. \A i, j \in 1 .. Len(todo') : i < j => Earlier(todo'[i], todo'[j])
    BY <1>3, <2>1
  <2>. QED
    BY <2>2 DEF IsSorted, Earlier
<1>5. report.num_runs \in 1 .. Cardinality(Runs)
  BY <1>2, <1>3, NumRuns
<1>6. /\ Discovered' = Discovered
      /\ \A pair : Report(pair)' = Report(pair) /\ (Loads(pair)' <=> Loads(pair))
  BY <1>1, SameFiles
<1> HIDE DEF h, report
<1>7. DOMAIN reports' = Pairs /\ reports'[h] = Saved(report)
      /\ \A pair \in Pairs : pair # h => reports'[pair] = reports[pair]
  BY <1>1, <1>2, <1>3
<1>8. ASSUME NEW pair \in Pairs
      PROVE  /\ reports'[pair].state \in {"none", "torn", "saved"}
             /\ reports'[pair].state = "saved" =>
                    reports'[pair].report.num_runs \in 1 .. Cardinality(Runs)
  <2>1. CASE pair = h
    BY <1>5, <1>7, <2>1 DEF Saved
  <2>2. CASE pair # h
    BY <1>2, <1>7, <2>2 DEF SweepTypeOK
  <2>. QED
    BY <2>1, <2>2
<1>9. SweepTypeOK'
  BY <1>1, <1>2, <1>3, <1>4, <1>8 DEF SweepTypeOK
<1>10. ASSUME NEW pair \in Past'
       PROVE  reports'[pair] = Saved(Report(pair)') /\ Loads(pair)'
  <2>1. pair \in Discovered /\ pair \notin ToSet(todo')
    BY <1>1, <1>6 DEF Past
  <2>2. CASE pair = h
    BY <1>1, <1>6, <1>7, <2>2 DEF report
  <2>3. CASE pair # h
    <3>1. pair \in Past /\ pair \in Pairs
      BY <1>1, <1>3, <2>1, <2>3 DEF Past, Discovered
    <3>. QED
      BY <1>2, <1>6, <1>7, <2>3, <3>1
  <2>. QED
    BY <2>2, <2>3
<1>11. ToSet(todo)' \subseteq Discovered'
  BY <1>2, <1>3, <1>6
<1>. QED
  BY <1>1, <1>7, <1>9, <1>10, <1>11 DEF SweepInv, Saved

\* The call ends.
LEMMA EndStep == SweepInv /\ (FailPair \/ FinishSweep) => SweepInv'
<1> SUFFICES ASSUME SweepInv, FailPair \/ FinishSweep PROVE SweepInv'
  OBVIOUS
<1>1. /\ UNCHANGED <<files, reports, todo, written, sweeps>> /\ sweep = "running"
      /\ \/ sweep' = "failed" /\ todo # <<>> /\ ~Loads(Head(todo))
         \/ sweep' = "saved" /\ todo = <<>>
  BY DEF FailPair, FinishSweep
<1>2. SweepTypeOK'
  BY <1>1, SweepTypeSame DEF SweepInv, SweepTypeOK
<1>3. /\ Discovered' = Discovered
      /\ \A pair : Report(pair)' = Report(pair) /\ (Loads(pair)' <=> Loads(pair))
  BY <1>1, SameFiles
<1>4. Past' = Past
  BY <1>1, <1>3 DEF Past, ToSet
<1>5. \A pair \in Past' : reports'[pair] = Saved(Report(pair)') /\ Loads(pair)'
  BY <1>1, <1>3, <1>4 DEF SweepInv
<1>6. (sweep = "failed" => todo # <<>> /\ ~Loads(Head(todo)))'
  <2>1. Loads(Head(todo))' <=> Loads(Head(todo))
    BY <1>1 DEF Loads
  <2>. QED
    BY <1>1, <2>1
<1>. QED
  BY <1>1, <1>2, <1>5, <1>6 DEF SweepInv, Saved

LEMMA KillStep == SweepInv /\ KillSweep => SweepInv'
<1> SUFFICES ASSUME SweepInv, KillSweep PROVE SweepInv'
  OBVIOUS
<1> DEFINE h == Head(todo)
<1>1. /\ UNCHANGED <<files, todo, written, sweeps>> /\ sweep = "running" /\ sweep' = "killed"
      /\ \/ UNCHANGED reports
         \/ todo # <<>> /\ reports' = [reports EXCEPT ![h] = TornReport]
  BY DEF KillSweep
<1>2. /\ SweepTypeOK /\ DOMAIN reports = Pairs /\ todo \in Seq(Pairs)
      /\ \A pair \in Past : reports[pair] = Saved(Report(pair)) /\ Loads(pair)
  BY DEF SweepInv, SweepTypeOK
<1>3. /\ Discovered' = Discovered
      /\ \A pair : Report(pair)' = Report(pair) /\ (Loads(pair)' <=> Loads(pair))
  BY <1>1, SameFiles
<1>4. Past' = Past /\ Past = Discovered \ ToSet(todo) /\ Past \subseteq Pairs
  BY <1>1, <1>3 DEF Past, ToSet, Discovered
<1>5. todo # <<>> => h \in Pairs /\ h \in ToSet(todo)
  BY <1>2, TodoTail
<1> HIDE DEF h
<1>6. /\ DOMAIN reports' = Pairs
      /\ \A pair \in Past : reports'[pair] = reports[pair]
      /\ \A pair \in Pairs : reports'[pair] = reports[pair] \/ reports'[pair] = TornReport
  BY <1>1, <1>2, <1>4, <1>5
<1>7. \A pair \in Pairs :
          /\ reports'[pair].state \in {"none", "torn", "saved"}
          /\ reports'[pair].state = "saved" =>
                 reports'[pair].report.num_runs \in 1 .. Cardinality(Runs)
  BY <1>2, <1>6 DEF SweepTypeOK, TornReport
<1>8. IsSorted(todo, Earlier)'
  BY <1>1, <1>2 DEF SweepTypeOK, IsSorted, Earlier
<1>9. SweepTypeOK'
  BY <1>1, <1>2, <1>7, <1>8 DEF SweepTypeOK
<1>10. \A pair \in Past' : reports'[pair] = Saved(Report(pair)') /\ Loads(pair)'
  BY <1>2, <1>3, <1>4, <1>6
<1>. QED
  BY <1>1, <1>6, <1>9, <1>10 DEF SweepInv, Saved

LEMMA SweepStep == SweepInv /\ [SweepNext]_sweepVars => SweepInv'
<1> SUFFICES ASSUME SweepInv, [SweepNext]_sweepVars PROVE SweepInv'
  OBVIOUS
<1>1. CASE UNCHANGED sweepVars
  <2>1. UNCHANGED <<files, reports, sweep, todo, written, sweeps>>
    BY <1>1 DEF sweepVars
  <2>2. SweepTypeOK'
    BY <2>1, SweepTypeSame DEF SweepInv, SweepTypeOK
  <2>3. /\ Discovered' = Discovered
        /\ \A pair : Report(pair)' = Report(pair) /\ (Loads(pair)' <=> Loads(pair))
    BY <2>1, SameFiles
  <2>4. Past' = Past /\ ToSet(todo)' = ToSet(todo)
    BY <2>1, <2>3 DEF Past, ToSet
  <2>5. \A pair \in Past' : reports'[pair] = Saved(Report(pair)') /\ Loads(pair)'
    BY <2>1, <2>3, <2>4 DEF SweepInv
  <2>6. (sweep = "failed" => todo # <<>> /\ ~Loads(Head(todo)))'
    <3>1. Loads(Head(todo))' <=> Loads(Head(todo))
      BY <2>1 DEF Loads
    <3>. QED
      BY <2>1, <3>1 DEF SweepInv
  <2>. QED
    BY <2>1, <2>2, <2>3, <2>4, <2>5, <2>6 DEF SweepInv, Saved
<1>2. CASE SweepNext
  BY <1>2, WriteStep, StartStep, SaveStep, EndStep, KillStep DEF SweepNext
<1>. QED
  BY <1>1, <1>2

LEMMA SweepTheorem == SweepSpec => []SweepInv
BY SweepInvInit, SweepStep, PTL DEF SweepSpec

\* For every set of scenarios, protocols and runs, whatever is written and
\* whenever the program is killed: the files and the reports are what the
\* program can meet and leave, and the pairs left to do are in order.
THEOREM SweepTypeTheorem == SweepSpec => []SweepTypeOK
<1>1. SweepInv => SweepTypeOK
  BY DEF SweepInv
<1>. QED
  BY <1>1, SweepTheorem, PTL

\* What is printed for some of the pairs, all of which can be read.
LEMMA FilteredReports ==
    ASSUME NEW S, NEW P,
           \A pair \in Discovered \cap (S \X P) : Loads(pair) /\ reports[pair] = Saved(Report(pair))
    PROVE  ToSet(Filtered(S, P)) =
               {[pair |-> pair, report |-> reports[pair].report] : pair \in Discovered \cap (S \X P)}
<1> DEFINE D == Discovered \cap (S \X P)
           m == InOrder(D)
<1>1. D \in SUBSET Pairs
  BY DEF Discovered
<1>2. m \in Seq(D) /\ Len(m) \in Nat /\ ToSet(m) = D
  <2> HIDE DEF D
  <2>. QED
    BY <1>1, PairsListed
<1>3. \A i \in DOMAIN m : m[i] \in D
  BY <1>2, LenProperties, ElementOfSeq
<1>4. \A i \in DOMAIN m : Loads(m[i]) /\ reports[m[i]].report = Report(m[i])
  <2>1. \A pair \in D : Loads(pair) /\ reports[pair] = Saved(Report(pair))
    OBVIOUS
  <2> HIDE DEF m, D
  <2>2. \A report : Saved(report).report = report
    BY DEF Saved
  <2>. QED
    BY <1>3, <2>1, <2>2
<1>5. Filtered(S, P) = [i \in DOMAIN m |-> [pair |-> m[i], report |-> Report(m[i])]]
  <2>1. \A i \in DOMAIN m : Loads(m[i])
    BY <1>4
  <2>. QED
    BY <2>1 DEF Filtered
<1> HIDE DEF m, D
<1>6. Filtered(S, P) = [i \in DOMAIN m |-> [pair |-> m[i], report |-> reports[m[i]].report]]
  BY <1>4, <1>5
<1>7. ToSet(Filtered(S, P)) = {[pair |-> m[i], report |-> reports[m[i]].report] : i \in DOMAIN m}
  BY <1>6 DEF ToSet
<1>8. D = {m[i] : i \in DOMAIN m}
  BY <1>2 DEF ToSet
<1>9. {[pair |-> m[i], report |-> reports[m[i]].report] : i \in DOMAIN m} =
          {[pair |-> pair, report |-> reports[pair].report] : pair \in D}
  BY <1>8
<1>. QED
  BY <1>7, <1>9 DEF D

\* For every instance: a pair the sweep is past has the report of the files
\* that are there, a sweep that ends well is past all of them, one that fails
\* stops at a pair it cannot read, and what a call with a filter prints is
\* what the sweep has saved.
THEOREM CurrentTheorem == SweepSpec => []ReportsAreCurrent
<1>1. ASSUME SweepInv PROVE ReportsAreCurrent
  <2> DEFINE past == IF sweep = "none" THEN {} ELSE Discovered \ ToSet(todo)
  <2>1. past = Past
    BY DEF Past
  <2>2. ASSUME NEW pair
        PROVE  Loads(pair) <=> \A run \in Runs : files[pair][run] # Torn
    BY DEF Loads
  <2>3. \A content \in Contents : content = Torn <=> content.state = "torn"
    BY DEF Contents, Absent, Torn, Whole
  <2>4. \A pair \in Pairs : Loads(pair) <=> \A run \in Runs : files[pair][run].state # "torn"
    <3>1. \A pair \in Pairs, run \in Runs : files[pair][run] \in Contents
      BY <1>1 DEF SweepInv, SweepTypeOK
    <3>. QED
      BY <2>3, <3>1 DEF Loads
  <2>5. Past \subseteq Discovered /\ Discovered \subseteq Pairs
    BY DEF Past, Discovered
  <2>6. \A pair \in Past : reports[pair] = Saved(Report(pair)) /\ Loads(pair)
    BY <1>1 DEF SweepInv
  <2>7. ASSUME sweep = "failed"
        PROVE  \E run \in Runs : files[Head(todo)][run].state = "torn"
    <3>1. todo \in Seq(Pairs) /\ todo # <<>> /\ ~Loads(Head(todo))
      BY <1>1, <2>7 DEF SweepInv, SweepTypeOK
    <3>2. Head(todo) \in Pairs
      BY <3>1, TodoTail
    <3>. QED
      BY <2>4, <3>1, <3>2
  <2>8. ASSUME sweep = "saved" PROVE Past = Discovered
    <3>1. todo = <<>>
      BY <1>1, <2>8 DEF SweepInv
    <3>2. ToSet(todo) = {}
      BY <3>1 DEF ToSet
    <3>. QED
      BY <2>8, <3>2 DEF Past
  <2>9. ASSUME sweep = "saved", NEW S \in SUBSET Scenarios, NEW p \in Protocols
        PROVE  ToSet(Filtered(S, {p})) =
                   {[pair |-> pair, report |-> reports[pair].report] :
                        pair \in Discovered \cap (S \X {p})}
    <3>1. \A pair \in Discovered \cap (S \X {p}) :
              Loads(pair) /\ reports[pair] = Saved(Report(pair))
      BY <2>6, <2>8, <2>9
    <3>. QED
      BY <3>1, FilteredReports
  <2> HIDE DEF past
  <2>10. \A pair \in past :
            reports[pair] = Saved(Report(pair)) /\ \A run \in Runs : files[pair][run].state # "torn"
    BY <2>1, <2>4, <2>5, <2>6
  <2>11. sweep = "saved" => past = Discovered
    BY <2>1, <2>8
  <2>. QED
    BY <2>7, <2>9, <2>10, <2>11 DEF ReportsAreCurrent, past
<1>. QED
  BY <1>1, SweepTheorem, PTL

\* For every instance, and files of any records: the report on a pair adds up
\* in every run, has its latencies in order, in the runs and in the medians
\* over them, and on a single file agrees with its analysis.
THEOREM SoundTheorem == SweepSpec => []ReportsAreSound
<1>1. ASSUME SweepInv PROVE ReportsAreSound
  <2>1. SUFFICES ASSUME NEW pair \in Discovered
                 PROVE  /\ AddsUp(RunRecords(pair), Report(pair))
                        /\ AgreesWithSingleFile(RunRecords(pair), Report(pair))
                        /\ InRank(Report(pair).global)
                        /\ \A stream \in DOMAIN Report(pair).streams :
                              InRank(Report(pair).streams[stream])
    BY DEF ReportsAreSound
  <2>2. RunRecords(pair) \in Seq(Seq(BenchmarkRecord))
    BY <1>1, RunRecordsOf DEF SweepInv, Discovered
  <2>3. Report(pair) = AggregateRuns(RunRecords(pair))
    BY DEF Report
  <2>. QED
    BY <2>2, <2>3, ReportAddsUp, ReportAgrees, ReportInRank
<1>. QED
  BY <1>1, SweepTheorem, PTL

===============================================================================
