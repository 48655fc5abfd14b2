----------------------------- MODULE MCQuicBackend -----------------------------
(***************************************************************************)
(* QuicBackend for TLC.                                                    *)
(***************************************************************************)
EXTENDS QuicBackend

CONSTANTS s, c1

OneClient == {s, c1}
BothKinds == {"Reliable", "Unreliable"}
ReliableOnly == {"Reliable"}
Dialers == DialEnds
Acceptors == AcceptEnds
OnlyC1 == {c1}
OnlyServer == {s}
None == {}
EveryBuild == {"unwind", "abort"}
ReleaseBuild == {"abort"}
Dialogue == [e \in Ends |-> IF e[2] = "dial" THEN 3 ELSE 2]
Exchange == [e \in Ends |-> 1]

===============================================================================
