----------------------------- MODULE MCGnsBackend -----------------------------
(***************************************************************************)
(* GnsBackend for TLC.                                                     *)
(***************************************************************************)
EXTENDS GnsBackend

CONSTANTS s, c1

OneClient == {s, c1}
OnlyC1 == {c1}
OnlyServer == {s}
None == {}
Both == {"Unreliable", "Reliable"}

\* The client sends twice, the server not at all.
OneWay == [side \in {"dial", "accept"} |-> IF side = "dial" THEN 2 ELSE 0]

===============================================================================
