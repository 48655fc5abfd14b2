----------------------------- MODULE MCUdpBackend -----------------------------
(***************************************************************************)
(* UdpBackend for TLC.                                                     *)
(***************************************************************************)
EXTENDS UdpBackend

CONSTANTS s, c1, c2

TwoClients == {s, c1, c2}
UnreliableOnly == {"Unreliable"}
OnlyC1 == {c1}
OnlyC2 == {c2}
OnlyServer == {s}

===============================================================================
