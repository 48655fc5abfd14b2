------------------------------- MODULE Benchmark -------------------------------
(***************************************************************************)
(* One run of the benchmark: the loop of src/bin/client.rs, the echo of    *)
(* src/bin/server.rs and a transport between them that is no more than     *)
(* what GamePeer shows of it.  What the client records, the recorder       *)
(* writes.                                                                 *)
(*                                                                         *)
(* Time is counted in ticks.  The loop spins, but nothing holds it to one  *)
(* turn per tick, so any number of ticks may pass between two turns.       *)
(* A packet is its stream and its id.  The two streams are named by their  *)
(* kind: the client creates one of each.                                   *)
(***************************************************************************)
EXTENDS Stats, Recorder

CONSTANTS
    Second,             \* ticks of a second
    Interval60Hz,       \* ticks between packets of the unreliable stream
    Interval20Hz,       \* ticks between packets of the reliable stream
    Duration,           \* --duration, in seconds
    Warmup,             \* --warmup, in seconds
    Lossy,              \* streams the transport loses, duplicates and reorders
    MaxCopies,          \* bound on the packets that are duplicated
    MaxDial,            \* bound on the ticks until the dial is answered
    MaxClock,           \* bound on the clock
    MayRefuse,          \* whether the dial may fail
    MayDisconnect,      \* whether the connection may end
    MayCorrupt,         \* whether a packet may fail its checksum
    MayFail             \* whether a call of GamePeer may return an error

Streams == {"Unreliable", "Reliable"}

ASSUME BenchmarkAssumption ==
    /\ Second \in Nat \ {0} /\ Interval60Hz \in Nat \ {0} /\ Interval20Hz \in Nat \ {0}
    /\ Duration \in Nat /\ Warmup \in Nat /\ MaxCopies \in Nat /\ MaxDial \in Nat
    /\ MaxClock \in Nat /\ MaxClock >= MaxDial + Duration * Second
    /\ Lossy \subseteq Streams
    /\ {MayRefuse, MayDisconnect, MayCorrupt, MayFail} \subseteq BOOLEAN

Interval == [stream \in Streams |->
                IF stream = "Unreliable" THEN Interval60Hz ELSE Interval20Hz]

Packet == [stream : Streams, id : 0 .. MaxClock]

NotStarted == -1

VARIABLES
    clock,              \* ticks since the client started
    at,                 \* the loop: "poll", "send", "returned", "failed"
    link,               \* the transport: "dialing", "refused", "up", "down"
    creating,           \* streams asked for and not answered
    connected,          \* server_id is Some
    start,              \* benchmark_start_time
    open,               \* the streams that are Some
    last,               \* last_60hz_tick and last_20hz_tick
    seq,                \* packet_sequences
    need_stop,
    out,                \* packets on their way to the server
    back,               \* packets on their way to the client
    copies,             \* packets that were duplicated
    recorded,           \* the records, in their order
    seen                \* history: packets the client has got

transportVars == <<link, creating, out, back, copies>>
clientVars == <<at, connected, start, open, last, seq, need_stop, recorded, seen>>
vars == <<clock, transportVars, clientVars, recorderVars>>

\* The ids a stream has given out bound those anywhere else.
TypeOK ==
    /\ RecorderTypeOK
    /\ clock \in 0 .. MaxClock
    /\ at \in {"poll", "send", "returned", "failed"}
    /\ link \in {"dialing", "refused", "up", "down"}
    /\ creating \subseteq Streams /\ open \subseteq Streams
    /\ {connected, need_stop} \subseteq BOOLEAN
    /\ start \in {NotStarted} \cup 0 .. clock
    /\ last \in [Streams -> 0 .. clock]
    /\ seq \in [Streams -> Nat]
    /\ out \cup back \cup seen \cup {recorded[i] : i \in DOMAIN recorded}
          \subseteq {p \in Packet : p.id < seq[p.stream]}
    /\ copies \in 0 .. MaxCopies

Init ==
    /\ RecorderInit
    /\ clock = 0
    /\ at = "poll"
    /\ link = "dialing"
    /\ creating = {}
    /\ connected = FALSE
    /\ start = NotStarted
    /\ open = {}
    /\ last = [stream \in Streams |-> 0]
    /\ seq = [stream \in Streams |-> 0]
    /\ need_stop = FALSE
    /\ out = {}
    /\ back = {}
    /\ copies = 0
    /\ recorded = <<>>
    /\ seen = {}

\* The loop has not been left, and the process is there.
Running == at \in {"poll", "send"} /\ process = "running"

Polling == at = "poll" /\ Running

\* Bound: a dial is answered within MaxDial ticks.
Tick ==
    /\ Running /\ clock < MaxClock
    /\ link = "dialing" => clock < MaxDial
    /\ clock' = clock + 1
    /\ UNCHANGED <<transportVars, clientVars>>

-------------------------------------------------------------------------------
(* The transport and the server's echo *)

\* A stream that loses nothing keeps its order.
Deliverable(packets, p) ==
    /\ p \in packets
    /\ p.stream \in Lossy \/ \A q \in packets : q.stream = p.stream => p.id <= q.id

\* A packet leaves the network, unless the network makes another of it.
TakesOrCopies(packets, rest, p) ==
    \/ rest = packets \ {p} /\ UNCHANGED copies
    \/ /\ p.stream \in Lossy /\ copies < MaxCopies
       /\ rest = packets /\ copies' = copies + 1

\* The server answers the packets that pass the checksum, and what it answers
\* with is the same packet.
ServerEcho(p) ==
    /\ Running /\ Deliverable(out, p)
    /\ TakesOrCopies(out, out', p)
    /\ back' = back \cup {p}
    /\ UNCHANGED <<clock, link, creating, clientVars>>

ServerRejects(p) ==
    /\ Running /\ MayCorrupt /\ p.stream \in Lossy /\ Deliverable(out, p)
    /\ out' = out \ {p}
    /\ UNCHANGED <<clock, link, creating, back, copies, clientVars>>

-------------------------------------------------------------------------------
(* The events of the client's poll loop *)

HandleConnected ==
    /\ Polling /\ link = "dialing"
    /\ link' = "up"
    /\ creating' = Streams
    /\ connected' = TRUE
    /\ start' = IF start = NotStarted THEN clock ELSE start
    /\ UNCHANGED <<clock, out, back, copies, at, open, last, seq, need_stop, recorded, seen>>

\* The dial failed: an Error event, which the loop writes to its log.
HandleError ==
    /\ Polling /\ link = "dialing" /\ MayRefuse
    /\ link' = "refused"
    /\ UNCHANGED <<clock, creating, out, back, copies, clientVars>>

HandleStreamCreated(stream) ==
    /\ Polling /\ link = "up" /\ stream \in creating
    /\ creating' = creating \ {stream}
    /\ open' = open \cup {stream}
    /\ UNCHANGED <<clock, link, out, back, copies, at, connected, start, last, seq, need_stop,
                   recorded, seen>>

\* Mutant: no need to stop, the server may come back.
HandleDisconnectedStays ==
    /\ Polling /\ link = "up" /\ MayDisconnect
    /\ link' = "down"
    /\ connected' = FALSE
    /\ at' = "send"
    /\ UNCHANGED <<clock, creating, out, back, copies, start, open, last, seq, need_stop,
                   recorded, seen>>

\* The poll loop is left and the rest of the turn follows.
HandleDisconnected ==
    /\ Polling /\ link = "up" /\ MayDisconnect
    /\ link' = "down"
    /\ connected' = FALSE
    /\ need_stop' = TRUE
    /\ at' = "send"
    /\ UNCHANGED <<clock, creating, out, back, copies, start, open, last, seq, recorded, seen>>

\* Whole seconds since the start, compared with >.
AfterWarmup == start # NotStarted /\ (clock - start) \div Second > Warmup

HandleMessage(p) ==
    /\ Polling /\ link = "up" /\ Deliverable(back, p)
    /\ TakesOrCopies(back, back', p)
    /\ IF AfterWarmup
       THEN recorded' = Append(recorded, p) /\ Record(Len(recorded) + 1)
       ELSE UNCHANGED <<recorded, recorderVars>>
    /\ seen' = seen \cup {p}
    /\ UNCHANGED <<clock, link, creating, out, at, connected, start, open, last, seq, need_stop>>

HandleInvalidMessage(p) ==
    /\ Polling /\ link = "up" /\ MayCorrupt /\ p.stream \in Lossy /\ Deliverable(back, p)
    /\ back' = back \ {p}
    /\ UNCHANGED <<clock, link, creating, out, copies, clientVars>>

\* poll, create_stream or send finds the backend's thread gone.
CallFails ==
    /\ Running /\ MayFail
    /\ at' = "failed"
    /\ UNCHANGED <<clock, transportVars, connected, start, open, last, seq, need_stop,
                   recorded, seen>>

-------------------------------------------------------------------------------
(* The rest of a turn, when poll has no more events *)

Due(stream) == clock - last[stream] >= Interval[stream]

Missing(stream) == Due(stream) /\ stream \notin open

\* A due stream that is not there sends the loop back to poll: before the
\* other stream if it is the unreliable one, and always before need_stop.
Continues == connected /\ \E stream \in Streams : Missing(stream)

Sending ==
    IF connected /\ ~Missing("Unreliable") THEN {stream \in open : Due(stream)} ELSE {}

NextPacket(stream) == [stream |-> stream, id |-> seq[stream]]

\* Mutant: the warm-up is a part of the duration.
DurationWithWarmup == connected /\ clock - start >= (Duration - Warmup) * Second

DurationReached == connected /\ clock - start >= Duration * Second

\* Mutant: one timer does for both streams.
TurnOneTimer ==
    /\ Running
    /\ out' = out \cup {NextPacket(stream) : stream \in Sending}
    /\ seq' = [stream \in Streams |-> seq[stream] + IF stream \in Sending THEN 1 ELSE 0]
    /\ last' = [stream \in Streams |->
                   last[stream] + IF stream \in Sending THEN Interval60Hz ELSE 0]
    /\ need_stop' = (need_stop \/ DurationReached)
    /\ at' = IF need_stop' /\ ~Continues THEN "returned" ELSE "poll"
    /\ UNCHANGED <<clock, link, creating, back, copies, connected, start, open, recorded, seen>>

\* Mutant: ids begin with one.
TurnCountsFirst ==
    /\ Running
    /\ out' = out \cup {[stream |-> stream, id |-> seq[stream] + 1] : stream \in Sending}
    /\ seq' = [stream \in Streams |-> seq[stream] + IF stream \in Sending THEN 1 ELSE 0]
    /\ last' = [stream \in Streams |->
                   last[stream] + IF stream \in Sending THEN Interval[stream] ELSE 0]
    /\ need_stop' = (need_stop \/ DurationReached)
    /\ at' = IF need_stop' /\ ~Continues THEN "returned" ELSE "poll"
    /\ UNCHANGED <<clock, link, creating, back, copies, connected, start, open, recorded, seen>>

Turn ==
    /\ Running
    /\ out' = out \cup {NextPacket(stream) : stream \in Sending}
    /\ seq' = [stream \in Streams |-> seq[stream] + IF stream \in Sending THEN 1 ELSE 0]
    /\ last' = [stream \in Streams |->
                   last[stream] + IF stream \in Sending THEN Interval[stream] ELSE 0]
    /\ need_stop' = (need_stop \/ DurationReached)
    /\ at' = IF need_stop' /\ ~Continues THEN "returned" ELSE "poll"
    /\ UNCHANGED <<clock, link, creating, back, copies, connected, start, open, recorded, seen>>

-------------------------------------------------------------------------------
HandleEvent ==
    \/ HandleConnected \/ HandleError \/ HandleDisconnected
    \/ \E stream \in Streams : HandleStreamCreated(stream)
    \/ \E p \in back : HandleInvalidMessage(p)

\* The recorder is a local of run_benchmark: dropped after its last line.
Return == at \in {"returned", "failed"} /\ Drop

RecorderStep == Return \/ Join \/ WriterStep \/ FailUnwinding \/ FailAborting \/ Kill

BenchmarkStep ==
    \/ Tick
    \/ \E p \in out : ServerEcho(p) \/ ServerRejects(p)
    \/ HandleEvent
    \/ CallFails
    \/ Turn

Next ==
    \/ BenchmarkStep /\ UNCHANGED recorderVars
    \/ \E p \in back : HandleMessage(p)
    \/ RecorderStep /\ UNCHANGED <<clock, transportVars, clientVars>>

Spec == Init /\ [][Next]_vars

(***************************************************************************)
(* Time passes, the loop spins, the two threads run.  What the transport   *)
(* has answered, poll returns.  Nothing is owed to packets.                *)
(***************************************************************************)
Fairness ==
    /\ WF_vars(Tick /\ UNCHANGED recorderVars)
    /\ WF_vars(Turn /\ UNCHANGED recorderVars)
    /\ WF_vars(HandleConnected /\ UNCHANGED recorderVars)
    /\ \A stream \in Streams : WF_vars(HandleStreamCreated(stream) /\ UNCHANGED recorderVars)
    /\ WF_vars((Return \/ Join \/ WriterStep) /\ UNCHANGED <<clock, transportVars, clientVars>>)

FairSpec == Spec /\ Fairness

-------------------------------------------------------------------------------
(* Properties *)

Elapsed == clock - start

(***************************************************************************)
(* A run that returns has lasted --duration from the connection on, or the *)
(* connection has ended: neither a slow connect nor missing streams        *)
(* shorten it.                                                             *)
(***************************************************************************)
RunsFullDuration ==
    at = "returned" => link = "down" \/ Elapsed >= Duration * Second

(***************************************************************************)
(* Since the client started, a stream never had more packets than its      *)
(* frequency gives, however often and however late the loop turns.         *)
(***************************************************************************)
RateHolds == \A stream \in Streams : seq[stream] * Interval[stream] <= clock

IdsSeen(stream) == {p.id : p \in {q \in seen : q.stream = stream}}

\* Packets before the last record of a stream whose echo the client has not got.
LostBeforeLast(stream) == (0 .. Max(IdsOn(recorded, stream))) \ IdsSeen(stream)

(***************************************************************************)
(* bin/stats.rs counts every packet that was lost before the last record   *)
(* of its stream, and never more than the client sent, when no packet was  *)
(* duplicated.                                                             *)
(***************************************************************************)
LossesAreCounted ==
    \A stream \in StreamsIn(recorded) : copies = 0 =>
        /\ Cardinality(LostBeforeLast(stream)) <= Lost(recorded, stream)
        /\ Sent(recorded, stream) <= seq[stream]

(***************************************************************************)
(* src/README.md:155 has the warm-up "discarded", and src/README.md:230    *)
(* shows the result as "Packet Loss": of the packets before the last       *)
(* record, the report calls lost only those that did not come back.        *)
(***************************************************************************)
ReportedLossIsLoss ==
    \A stream \in StreamsIn(recorded) : copies = 0 =>
        Lost(recorded, stream) <= Cardinality(LostBeforeLast(stream))

(***************************************************************************)
(* Whatever happens to the writer or the process, the file holds what the  *)
(* client recorded, in order and each once, and at most its last line is   *)
(* torn: what bin/stats.rs reads is a beginning of the run.                *)
(***************************************************************************)
FileIsPrefix == IsPrefix(file, Complete(Len(recorded)))

(***************************************************************************)
(* When the client's process has ended by itself, every record is in the   *)
(* file, unless the file could not be written: dropping the recorder waits *)
(* for the thread, and the thread for the channel and the buffer.          *)
(***************************************************************************)
EndedIsWritten ==
    process = "ended" /\ writer # "panicked" => file = Complete(Len(recorded))

(***************************************************************************)
(* Once the client is connected its run ends: when its time is over, when  *)
(* the connection ends or when a call fails, and never for want of a       *)
(* stream or an echo; then the recorder's thread ends, whatever it had     *)
(* left to write or failed to, and the process with it.                    *)
(***************************************************************************)
ConnectedRunEnds == link = "up" ~> process \in {"ended", "killed"}

===============================================================================
