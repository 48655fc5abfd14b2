----------------------------- MODULE MCTcpBackend -----------------------------
(***************************************************************************)
(* TcpBackend for TLC.  Every capacity is one, so that each queue fills up *)
(* within a few sends.                                                     *)
(***************************************************************************)
EXTENDS TcpBackend

CONSTANTS s, c1, c2

OneClient == {s, c1}
TwoClients == {s, c1, c2}

Dialers == DialEnds
ReliableOnly == {"Reliable"}
OnlyC1 == {c1}
OnlyServer == {s}
None == {}
EveryBuild == {"unwind", "abort"}
ReleaseBuild == {"abort"}

\* The one end that creates and closes streams: the other client only connects.
OnlyDial1 == {<<c1, "dial">>}

(***************************************************************************)
(* Who sends how much.  A monologue of the first client.  Duplex: enough   *)
(* on both sides to fill the buffers of both directions.  A flood: and so  *)
(* much more from the client that its loop waits as well.                  *)
(***************************************************************************)
Monologue == [e \in Ends |-> IF e = <<c1, "dial">> THEN 2 ELSE 0]
Duplex == [e \in Ends |-> IF e[2] = "dial" THEN 3 ELSE 2]
Flood == [e \in Ends |-> IF e[2] = "dial" THEN 5 ELSE 2]

===============================================================================
