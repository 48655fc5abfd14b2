-------------------------------- MODULE MCSweep --------------------------------
(***************************************************************************)
(* Sweep for TLC: two scenarios, of which a pair may have a file without a *)
(* number and a numbered one.                                              *)
(***************************************************************************)
EXTENDS Sweep

R(stream, id, rtt) == [stream |-> stream, id |-> id, rtt |-> rtt]

TwoScenarios == {1, 2}
OneProtocol == {1}
TwoRuns == {0, 1}

\* One stream with a loss; a copy on one stream and losses on the other.
RunsOfFour ==
    {<<>>, <<R(1, 2, 3), R(1, 0, 1)>>,
     <<R(1, 0, 1), R(7, 2, 5), R(1, 0, 4), R(7, 0, 2)>>}

===============================================================================
