----------------------------- MODULE ReliableLinks -----------------------------
(***************************************************************************)
(* What a connection promises, without queues, tasks or sockets: what a    *)
(* backend accepted from its application at one end of a connection        *)
(* reaches the application at the other end in the order it was accepted,  *)
(* each message once and none left out, until an end is gone.  An end that *)
(* is gone accepts and delivers nothing more.                              *)
(***************************************************************************)
EXTENDS Naturals, Sequences

CONSTANTS
    Ends,
    Opposite,           \* the other end of the connection, for every end
    Packet

VARIABLES accepted, delivered, gone

linkVars == <<accepted, delivered, gone>>

Init ==
    /\ accepted = [e \in Ends |-> <<>>]
    /\ delivered = [e \in Ends |-> <<>>]
    /\ gone = {}

Accept(e, m) ==
    /\ e \notin gone
    /\ accepted' = [accepted EXCEPT ![e] = Append(@, m)]
    /\ UNCHANGED <<delivered, gone>>

\* The oldest message of the other end that was not delivered yet.
Deliver(e) ==
    /\ e \notin gone
    /\ Len(delivered[e]) < Len(accepted[Opposite[e]])
    /\ delivered' = [delivered EXCEPT ![e] =
                         Append(@, accepted[Opposite[e]][Len(@) + 1])]
    /\ UNCHANGED <<accepted, gone>>

Leave ==
    /\ gone' \in SUBSET Ends /\ gone \subseteq gone'
    /\ UNCHANGED <<accepted, delivered>>

Next ==
    \/ Leave
    \/ \E e \in Ends : Deliver(e)
    \/ \E e \in Ends, m \in Packet : Accept(e, m)

Spec == Init /\ [][Next]_linkVars

===============================================================================
