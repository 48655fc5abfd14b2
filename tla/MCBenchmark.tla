------------------------------ MODULE MCBenchmark ------------------------------
EXTENDS Benchmark

OnlyUnreliable == {"Unreliable"}
NoStream == {}
EveryBuild == {"unwind", "abort"}
NoBuild == {}

===============================================================================
