--------------------------------- MODULE Sweep ---------------------------------
(***************************************************************************)
(* The program of src/bin/stats.rs on a directory of results: `--all`      *)
(* saves a report for every pair of scenario and protocol, a call with a   *)
(* filter prints some of them.  Between its calls clients write files of   *)
(* runs, whole, torn (a client killed or out of disk space) or without     *)
(* records.                                                                *)
(*                                                                         *)
(* Names are numbers, in their alphabetical order.  Run 0 is the file      *)
(* without a number, proto.csv, which is before proto_run01.csv.           *)
(***************************************************************************)
EXTENDS Stats

CONSTANTS
    Scenarios, Protocols, Runs,
    Recorded,           \* the records a client may leave in a file
    MaxWrites,          \* bound on the files written
    MaxSweeps,          \* bound on the calls with --all
    MayKillSweep        \* whether the program may be killed

ASSUME SweepAssumption ==
    /\ \A names \in {Scenarios, Protocols, Runs} : names \subseteq Nat /\ IsFiniteSet(names)
    /\ Recorded \subseteq Seq(BenchmarkRecord)
    /\ MaxWrites \in Nat /\ MaxSweeps \in Nat /\ MayKillSweep \in BOOLEAN

Pairs == Scenarios \X Protocols

Absent == [state |-> "absent", records |-> <<>>]
Torn == [state |-> "torn", records |-> <<>>]
Whole(records) == [state |-> "whole", records |-> records]
Contents == {Absent, Torn} \cup {Whole(records) : records \in Recorded}

\* Of a report: whether it is there, and what it was made from.
NoReport == [state |-> "none", report |-> <<>>]
TornReport == [state |-> "torn", report |-> <<>>]
Saved(report) == [state |-> "saved", report |-> report]

VARIABLES
    files,              \* the file of every run of every pair
    reports,            \* aggregated/<scenario>_<protocol>.json
    sweep,              \* the last call with --all: "none", "running", "saved", "failed", "killed"
    todo,               \* the pairs the running or stopped call has not saved, in order
    written, sweeps     \* counts for the bounds

sweepVars == <<files, reports, sweep, todo, written, sweeps>>

-------------------------------------------------------------------------------
(* Files *)

\* find_run_files: by name, with and without a number.
RunFiles(pair) == Listed({run \in Runs : files[pair][run] # Absent}, <)

\* discover_protocols: a pair is there when one of its files is.
Discovered == {pair \in Pairs : \E run \in Runs : files[pair][run] # Absent}

Earlier(p, q) == p[1] < q[1] \/ (p[1] = q[1] /\ p[2] < q[2])

\* Mutant: in the order of the directory, whatever that is.
InOrderOfDirectory(S) == Reverse(Listed(S, Earlier))

\* The scenarios by name, and the protocols of each by name.
InOrder(S) == Listed(S, Earlier)

\* load_csv gives up at a line that is not a record.
Loads(pair) == \A run \in Runs : files[pair][run] # Torn

RunRecords(pair) == [i \in DOMAIN RunFiles(pair) |-> files[pair][RunFiles(pair)[i]].records]

Report(pair) == AggregateRuns(RunRecords(pair))

\* process_filtered: nothing is printed when one of the files cannot be read.
Filtered(S, P) ==
    LET matching == InOrder(Discovered \cap (S \X P)) IN
    IF \A i \in DOMAIN matching : Loads(matching[i])
    THEN [i \in DOMAIN matching |-> [pair |-> matching[i], report |-> Report(matching[i])]]
    ELSE <<>>

-------------------------------------------------------------------------------
SweepInit ==
    /\ files = [pair \in Pairs |-> [run \in Runs |-> Absent]]
    /\ reports = [pair \in Pairs |-> NoReport]
    /\ sweep = "none" /\ todo = <<>>
    /\ written = 0 /\ sweeps = 0

\* A client writes the file of a run, anew if it was there.
WriteFile ==
    /\ sweep # "running" /\ written < MaxWrites
    /\ \E pair \in Pairs, run \in Runs, content \in Contents \ {Absent} :
          files' = [files EXCEPT ![pair][run] = content]
    /\ written' = written + 1
    /\ sweep' = "none"
    /\ UNCHANGED <<reports, todo, sweeps>>

StartSweep ==
    /\ sweep # "running" /\ sweeps < MaxSweeps
    /\ sweep' = "running"
    /\ todo' = InOrder(Discovered)
    /\ sweeps' = sweeps + 1
    /\ UNCHANGED <<files, reports, written>>

SavePair ==
    /\ sweep = "running" /\ todo # <<>>
    /\ Loads(Head(todo))
    /\ reports' = [reports EXCEPT ![Head(todo)] = Saved(Report(Head(todo)))]
    /\ todo' = Tail(todo)
    /\ UNCHANGED <<files, sweep, written, sweeps>>

\* Mutant: a pair that cannot be read is passed over.
PassPair ==
    /\ sweep = "running" /\ todo # <<>>
    /\ ~Loads(Head(todo))
    /\ todo' = Tail(todo)
    /\ UNCHANGED <<files, reports, sweep, written, sweeps>>

\* One file that cannot be read ends the sweep: the pairs that come after it
\* keep the reports they have.
FailPair ==
    /\ sweep = "running" /\ todo # <<>>
    /\ ~Loads(Head(todo))
    /\ sweep' = "failed"
    /\ UNCHANGED <<files, reports, todo, written, sweeps>>

FinishSweep ==
    /\ sweep = "running" /\ todo = <<>>
    /\ sweep' = "saved"
    /\ UNCHANGED <<files, reports, todo, written, sweeps>>

\* The write of a report is not atomic.
KillSweep ==
    /\ MayKillSweep /\ sweep = "running"
    /\ sweep' = "killed"
    /\ \/ UNCHANGED reports
       \/ /\ todo # <<>> /\ Loads(Head(todo))
          /\ reports' = [reports EXCEPT ![Head(todo)] = TornReport]
    /\ UNCHANGED <<files, todo, written, sweeps>>

SweepNext == WriteFile \/ StartSweep \/ SavePair \/ FailPair \/ FinishSweep \/ KillSweep

SweepSpec == SweepInit /\ [][SweepNext]_sweepVars

-------------------------------------------------------------------------------
\* The files and the reports are what the program can meet and leave.
SweepTypeOK ==
    /\ files \in [Pairs -> [Runs -> Contents]]
    /\ \A pair \in Pairs :
          /\ reports[pair].state \in {"none", "torn", "saved"}
          /\ reports[pair].state = "saved" => reports[pair].report.num_runs \in 1 .. Cardinality(Runs)
    /\ sweep \in {"none", "running", "saved", "failed", "killed"}
    /\ todo \in Seq(Pairs) /\ IsSorted(todo, Earlier)
    /\ written \in 0 .. MaxWrites /\ sweeps \in 0 .. MaxSweeps

(***************************************************************************)
(* A sweep has saved, for every pair it is past, the report of the files   *)
(* that are there, all of which it could read; it is past all pairs when   *)
(* it ends well and stops at one it cannot read when it fails.  A call     *)
(* with a filter prints what the sweep has saved.                          *)
(***************************************************************************)
ReportsAreCurrent ==
    LET past == IF sweep = "none" THEN {} ELSE Discovered \ ToSet(todo) IN
    /\ \A pair \in past :
          reports[pair] = Saved(Report(pair)) /\ \A run \in Runs : files[pair][run].state # "torn"
    /\ sweep = "failed" => \E run \in Runs : files[Head(todo)][run].state = "torn"
    /\ sweep = "saved" => past = Discovered
    /\ sweep = "saved" =>
          \A S \in SUBSET Scenarios, p \in Protocols :
              ToSet(Filtered(S, {p})) =
                  {[pair |-> pair, report |-> reports[pair].report] : pair \in Discovered \cap (S \X {p})}

(***************************************************************************)
(* In every run that has records, what the summaries of the streams say    *)
(* adds up to what the summary of all says, and every record counts once.  *)
(***************************************************************************)
AddsUp(runs, report) ==
    LET counted == {i \in DOMAIN runs : runs[i] # <<>>} IN
    /\ report.num_runs = Len(runs)
    /\ \A m \in Metrics : DOMAIN report.global[m].values = counted
    /\ \A i \in counted :
          LET streams == {stream \in DOMAIN report.streams :
                             i \in DOMAIN report.streams[stream]["received"].values} IN
          /\ \A m \in {"sent", "received", "lost"} :
                report.global[m].values[i] =
                    SumOf([stream \in streams |-> report.streams[stream][m].values[i]])
          /\ report.global["received"].values[i] = Len(runs[i])

\* On a pair of one run the report says what the analysis of its file says.
AgreesWithSingleFile(runs, report) ==
    DOMAIN runs = {1} /\ runs[1] # <<>> =>
        LET single == AnalyzeSingleFile(runs[1])
            SameAs(summaries, stats) == \A m \in Metrics : summaries[m].values = <<stats[m]>>
        IN /\ SameAs(report.global, single.global)
           /\ DOMAIN report.streams = DOMAIN single.streams
           /\ \A stream \in DOMAIN single.streams :
                 SameAs(report.streams[stream], single.streams[stream])

Ranks == <<"min", "p50", "p90", "p95", "p99", "max">>

\* Latencies are in order in every run, and so are their medians over the runs.
InRank(stats) ==
    \A i \in 1 .. Len(Ranks) - 1 :
        LET low == stats[Ranks[i]]
            high == stats[Ranks[i + 1]]
        IN low.median2 <= high.median2 /\ \A run \in DOMAIN low.values : low.values[run] <= high.values[run]

(***************************************************************************)
(* A report on files of any kind, with losses, copies, runs without        *)
(* records and streams some runs do not have, adds up, has its latencies   *)
(* in order and agrees with the analysis of single files.                  *)
(***************************************************************************)
ReportsAreSound ==
    \A pair \in {p \in Discovered : Loads(p)} :
        LET report == Report(pair) IN
        /\ AddsUp(RunRecords(pair), report) /\ AgreesWithSingleFile(RunRecords(pair), report)
        /\ InRank(report.global)
        /\ \A stream \in DOMAIN report.streams : InRank(report.streams[stream])

===============================================================================
