--------------------------------- MODULE Stats ---------------------------------
(***************************************************************************)
(* What src/bin/stats.rs computes from the records of a run, and of        *)
(* several.  The file of a run is a sequence of records, in the order they *)
(* were received.                                                          *)
(*                                                                         *)
(* A quotient is kept as what is divided: the sum of the round trips for   *)
(* their mean, twice the median.  Throughput, deviations and confidence    *)
(* intervals are left out.                                                 *)
(***************************************************************************)
EXTENDS Integers, Sequences, FiniteSets, FiniteSetsExt, SequencesExt

\* The records of one stream, as the set of their places in the file.
OnStream(records, stream) == {i \in DOMAIN records : records[i].stream = stream}

StreamsIn(records) == {records[i].stream : i \in DOMAIN records}

IdsOn(records, stream) == {records[i].id : i \in OnStream(records, stream)}

Received(records, stream) == Cardinality(OnStream(records, stream))

\* Mutant: the highest id is taken for the number of packets.
SentWithoutZero(records, stream) ==
    IF OnStream(records, stream) = {} THEN 0 ELSE Max(IdsOn(records, stream))

\* Ids begin with 0 on every stream, so the highest tells how many were sent.
Sent(records, stream) ==
    IF OnStream(records, stream) = {} THEN 0 ELSE Max(IdsOn(records, stream)) + 1

\* saturating_sub: never below zero
Lost(records, stream) ==
    LET sent == Sent(records, stream)
        received == Received(records, stream)
    IN IF received > sent THEN 0 ELSE sent - received

-------------------------------------------------------------------------------
(* Order and sums.  Values have names: places in a file, or runs. *)

\* The elements of S, each once, by the strict order Before.
Listed(S, Before(_, _)) ==
    [k \in 1 .. Cardinality(S) |-> CHOOSE x \in S : Cardinality({y \in S : Before(y, x)}) = k - 1]

\* The values by size.
Sorted(values) ==
    LET Before(i, j) == values[i] < values[j] \/ (values[i] = values[j] /\ i < j)
        names == Listed(DOMAIN values, Before)
    IN [k \in DOMAIN names |-> values[names[k]]]

SumOf(values) == MapThenSumSet(LAMBDA i : values[i], DOMAIN values)

-------------------------------------------------------------------------------
(* One run *)

\* What load_csv makes of a line, as far as it matters here.
BenchmarkRecord == [stream : Nat, id : Nat, rtt : Nat]

Latencies(records, places) == [i \in places |-> records[i].rtt]

\* The nearest rank below.
Percentile(sorted, pct) == sorted[(pct * (Len(sorted) - 1)) \div 100 + 1]

Metrics == {"sent", "received", "lost", "min", "max", "sum", "p50", "p90", "p95", "p99"}

\* Without latencies the counts stay, and every time is 0.
ComputeSingleRun(sent, received, lost, latencies) ==
    LET rtts == IF DOMAIN latencies = {} THEN <<0>> ELSE Sorted(latencies)
    IN [sent |-> sent, received |-> received, lost |-> lost,
        min |-> Head(rtts), max |-> Last(rtts), sum |-> SumOf(latencies),
        p50 |-> Percentile(rtts, 50), p90 |-> Percentile(rtts, 90),
        p95 |-> Percentile(rtts, 95), p99 |-> Percentile(rtts, 99)]

StreamStats(records, stream) ==
    ComputeSingleRun(Sent(records, stream), Received(records, stream), Lost(records, stream),
                     Latencies(records, OnStream(records, stream)))

\* Mutant: the losses of a run are one difference, so that copies on one
\* stream make up for losses on another.
GlobalStatsOfSums(records) ==
    LET sent == SumOf([stream \in StreamsIn(records) |-> Sent(records, stream)])
    IN ComputeSingleRun(sent, Len(records),
                        IF Len(records) > sent THEN 0 ELSE sent - Len(records),
                        Latencies(records, DOMAIN records))

\* The counts of the streams are added up, the latencies taken together.
GlobalStats(records) ==
    LET Total(Count(_, _)) == SumOf([stream \in StreamsIn(records) |-> Count(records, stream)])
    IN ComputeSingleRun(Total(Sent), Total(Received), Total(Lost), Latencies(records, DOMAIN records))

\* The report of one file, which has records.
AnalyzeSingleFile(records) ==
    [global |-> GlobalStats(records),
     streams |-> [stream \in StreamsIn(records) |-> StreamStats(records, stream)]]

-------------------------------------------------------------------------------
(* Several runs *)

\* values has one value per run, at least one.
Summarize(values) ==
    LET sorted == Sorted(values)
        n == Len(sorted)
    IN [min |-> Head(sorted), max |-> Last(sorted), values |-> values,
        median2 |-> sorted[(n + 1) \div 2] + sorted[n \div 2 + 1]]

\* No run has records: every number is zero and there are no values.
EmptySummary == [min |-> 0, max |-> 0, values |-> <<>>, median2 |-> 0]

AggregateStats(stats) ==
    [m \in Metrics |-> IF DOMAIN stats = {} THEN EmptySummary
                       ELSE Summarize([run \in DOMAIN stats |-> stats[run][m]])]

\* A run without records is passed over.
RunsCounted(runs) == {run \in DOMAIN runs : runs[run] # <<>>}

RunsWith(runs, stream) == {run \in RunsCounted(runs) : stream \in StreamsIn(runs[run])}

\* The report on the runs of a pair, in the order of their files.
AggregateRuns(runs) ==
    [num_runs |-> Len(runs),
     global |-> AggregateStats([run \in RunsCounted(runs) |-> GlobalStats(runs[run])]),
     streams |-> [stream \in UNION {StreamsIn(runs[run]) : run \in DOMAIN runs} |->
                     AggregateStats([run \in RunsWith(runs, stream) |-> StreamStats(runs[run], stream)])]]

===============================================================================
