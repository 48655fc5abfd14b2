----------------------------- MODULE MCStreamIds ------------------------------
(***************************************************************************)
(* StreamIds for TLC: 3 indices fit, so the shift wraps after 3 streams    *)
(* and the counter after 12; 14 streams pass both limits.                  *)
(***************************************************************************)
EXTENDS StreamIds

MCSlots == 3
MCMaxCreated == 14
MCMaxLive == 3

===============================================================================
