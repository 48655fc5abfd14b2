-------------------------------- MODULE Recorder --------------------------------
(***************************************************************************)
(* The metrics recorder of src/bin/utils/metrics.rs: the client's loop     *)
(* sends records through a channel to a thread that writes them to a       *)
(* buffered file.  Benchmark extends this module with the loop.            *)
(*                                                                         *)
(* A record is the number of its call of record.  Its line reaches the     *)
(* buffer in pieces, two of them here, because writeln! writes every field *)
(* by itself; line 0 is the header.                                        *)
(***************************************************************************)
EXTENDS Integers, Sequences, SequencesExt

CONSTANTS
    Capacity,           \* pieces the BufWriter holds
    Panics,             \* what a panic may do: "unwind" (debug builds) or "abort" (release)
    MayBeKilled         \* whether the process may be killed

ASSUME RecorderAssumption ==
    /\ Capacity \in Nat \ {0} /\ Panics \subseteq {"unwind", "abort"} /\ MayBeKilled \in BOOLEAN

Line(record) == <<<<record, 1>>, <<record, 2>>>>

Piece == Nat \X {1, 2}

VARIABLES
    tx,                 \* the sender: "open" until the recorder is dropped
    queue,              \* the channel
    writer,             \* the writer thread: "starting", "running", "exited", "panicked", "killed"
    line,               \* the pieces of a line the thread has still to write
    buffer,             \* the BufWriter
    file,               \* what the operating system has of the file
    process             \* the main thread: "running", "joining", "ended", "killed"

recorderVars == <<tx, queue, writer, line, buffer, file, process>>

RecorderTypeOK ==
    /\ tx \in {"open", "dropped"}
    /\ queue \in Seq(Nat)
    /\ writer \in {"starting", "running", "exited", "panicked", "killed"}
    /\ line \in Seq(Piece) /\ Len(line) <= 2
    /\ buffer \in Seq(Piece) /\ Len(buffer) <= Capacity
    /\ file \in Seq(Piece)
    /\ process \in {"running", "joining", "ended", "killed"}

RecorderInit ==
    /\ tx = "open"
    /\ queue = <<>>
    /\ writer = "starting"
    /\ line = <<>>
    /\ buffer = <<>>
    /\ file = <<>>
    /\ process = "running"

-------------------------------------------------------------------------------
(* The client's thread *)

\* The receiver is gone when the thread has panicked, and record does not tell.
Record(n) ==
    /\ queue' = IF writer = "panicked" THEN queue ELSE Append(queue, n)
    /\ UNCHANGED <<tx, writer, line, buffer, file, process>>

\* Mutant: join before the sender is dropped.
DropJoinsFirst ==
    /\ process = "running"
    /\ process' = "joining"
    /\ UNCHANGED <<tx, queue, writer, line, buffer, file>>

\* run_benchmark returns, by any of its paths.
Drop ==
    /\ process = "running"
    /\ tx' = "dropped"
    /\ process' = "joining"
    /\ UNCHANGED <<queue, writer, line, buffer, file>>

\* The panic of the thread is what join returns, and it is ignored.
Join ==
    /\ process = "joining" /\ writer \in {"exited", "panicked"}
    /\ process' = "ended"
    /\ UNCHANGED <<tx, queue, writer, line, buffer, file>>

-------------------------------------------------------------------------------
(* The writer thread *)

CreateFile ==
    /\ writer = "starting"
    /\ writer' = "running"
    /\ line' = Line(0)
    /\ UNCHANGED <<tx, queue, buffer, file, process>>

\* Mutant: the newest record first.
TakeNewest ==
    /\ writer = "running" /\ line = <<>> /\ queue # <<>>
    /\ line' = Line(Last(queue))
    /\ queue' = Front(queue)
    /\ UNCHANGED <<tx, writer, buffer, file, process>>

Take ==
    /\ writer = "running" /\ line = <<>> /\ queue # <<>>
    /\ line' = Line(Head(queue))
    /\ queue' = Tail(queue)
    /\ UNCHANGED <<tx, writer, buffer, file, process>>

\* A full buffer goes to the file before the next piece, which may be the
\* middle of a line.
Write ==
    /\ writer = "running" /\ line # <<>>
    /\ line' = Tail(line)
    /\ IF Len(buffer) < Capacity
       THEN buffer' = Append(buffer, Head(line)) /\ UNCHANGED file
       ELSE buffer' = <<Head(line)>> /\ file' = file \o buffer
    /\ UNCHANGED <<tx, queue, writer, process>>

\* Mutant: the thread looks at the sender before it looks at the channel.
ExitEarly ==
    /\ writer = "running" /\ line = <<>>
    /\ tx = "dropped"
    /\ writer' = "exited"
    /\ file' = file \o buffer
    /\ buffer' = <<>>
    /\ UNCHANGED <<tx, queue, line, process>>

\* recv fails when the sender is dropped and the channel empty; the buffer is
\* flushed.
Exit ==
    /\ writer = "running" /\ line = <<>>
    /\ tx = "dropped" /\ queue = <<>>
    /\ writer' = "exited"
    /\ file' = file \o buffer
    /\ buffer' = <<>>
    /\ UNCHANGED <<tx, queue, line, process>>

WriterStep == CreateFile \/ Take \/ Write \/ Exit

\* Where the file is created or written, which may fail.
MayPanic ==
    \/ writer = "starting"
    \/ writer = "running" /\ line # <<>> /\ Len(buffer) = Capacity
    \/ writer = "running" /\ line = <<>> /\ tx = "dropped" /\ queue = <<>>

Forgotten == buffer' = <<>> /\ line' = <<>> /\ queue' = <<>>

\* What the buffer holds gets to the file up to some piece: a part of the
\* write that failed, or what the BufWriter can write when it is dropped.
Spills == \E i \in 0 .. Len(buffer) : file' = file \o SubSeq(buffer, 1, i)

\* A debug build unwinds the thread and leaves the client alone.
FailUnwinding ==
    /\ MayPanic /\ "unwind" \in Panics
    /\ Spills /\ Forgotten
    /\ writer' = "panicked"
    /\ UNCHANGED <<tx, process>>

\* Cargo.toml has panic = "abort" for release builds: the process ends.
FailAborting ==
    /\ MayPanic /\ "abort" \in Panics
    /\ Spills /\ Forgotten
    /\ writer' = "killed"
    /\ process' = "killed"
    /\ tx' = "dropped"

\* The process is killed: the channel and the buffer are gone.
Kill ==
    /\ MayBeKilled /\ process \in {"running", "joining"}
    /\ Forgotten
    /\ process' = "killed"
    /\ writer' = "killed"
    /\ tx' = "dropped"
    /\ UNCHANGED file

-------------------------------------------------------------------------------
\* What the complete file of n records has.
Complete(n) == [i \in 1 .. 2 * (n + 1) |-> <<(i - 1) \div 2, ((i - 1) % 2) + 1>>]

===============================================================================
