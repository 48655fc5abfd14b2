------------------------------- MODULE StreamIds -------------------------------
(***************************************************************************)
(* The allocation of stream identifiers by one GamePeer over a long        *)
(* session: create_stream takes the next index from the u16 counter        *)
(* next_stream_id, the backend answers with the handle                     *)
(* GameStream::new(index, reliability), and everything that follows (send, *)
(* close_stream, the backends' tables, the results file) names the stream  *)
(* by that handle alone.                                                   *)
(*                                                                         *)
(* live is what the application believes to be open: one record for every  *)
(* stream created and not closed.  serial is a history value, the number   *)
(* of the create_stream call.                                              *)
(***************************************************************************)
EXTENDS GameStream, FiniteSets

CONSTANTS MaxCreated,   \* bound on the calls of create_stream
          MaxLive       \* bound on the streams open at a time

ASSUME BoundsAssumption == MaxCreated \in Nat /\ MaxLive \in Nat

VARIABLES next_stream_id, created, live

vars == <<next_stream_id, created, live>>

Stream == [serial : Nat, index : StreamId, reliability : Reliability, handle : StreamId]

TypeOK ==
    /\ next_stream_id \in StreamId
    /\ created \in Nat
    /\ live \subseteq Stream

Init ==
    /\ next_stream_id = 0
    /\ created = 0
    /\ live = {}

\* Mutant: the counter is wider than a stream_id and does not wrap.
CreateStreamNoWrap(reliability) ==
    LET index == next_stream_id + 1 IN
    /\ created < MaxCreated
    /\ Cardinality(live) < MaxLive
    /\ next_stream_id' = index
    /\ created' = created + 1
    /\ live' = live \cup {[serial |-> created + 1, index |-> index,
                           reliability |-> reliability,
                           handle |-> NewStream(index, reliability)]}

(***************************************************************************)
(* create_stream and the backend's answer.  The counter wraps: the release *)
(* build does not check u16 additions for overflow.                        *)
(***************************************************************************)
CreateStream(reliability) ==
    LET index == (next_stream_id + 1) % IdSpace IN
    /\ created < MaxCreated
    /\ Cardinality(live) < MaxLive
    /\ next_stream_id' = index
    /\ created' = created + 1
    /\ live' = live \cup {[serial |-> created + 1, index |-> index,
                           reliability |-> reliability,
                           handle |-> NewStream(index, reliability)]}

\* Mutant: the mask keeps the kind bits of the handle in place of the others.
CloseStreamByKind(handle) ==
    /\ live' = {s \in live : s.handle % 4 # handle % 4}
    /\ UNCHANGED <<next_stream_id, created>>

\* close_stream passes the handle on, so every stream that shares it is closed.
CloseStream(handle) ==
    /\ live' = {s \in live : s.handle # handle}
    /\ UNCHANGED <<next_stream_id, created>>

Next ==
    \/ \E reliability \in Reliability : CreateStream(reliability)
    \/ \E s \in live : CloseStream(s.handle)

Spec == Init /\ [][Next]_vars

-------------------------------------------------------------------------------
(***************************************************************************)
(* Two open streams share a handle only if a multiple of Slots calls of    *)
(* create_stream lies between them and they are of the same kind.  Sends   *)
(* and closes of streams nearer than that never reach the wrong stream,    *)
(* also after the shift and the counter have wrapped.                      *)
(***************************************************************************)
AliasOnlyAcrossWrap ==
    \A s, t \in live : s.handle = t.handle =>
        /\ s.serial % Slots = t.serial % Slots
        /\ s.reliability = t.reliability

(***************************************************************************)
(* The analysis of a results file recovers from a handle the kind the      *)
(* stream was created with, and its index up to the bits the shift drops.  *)
(***************************************************************************)
AnalysisReadsBack ==
    \A s \in live :
        /\ StreamType(s.handle) = s.reliability
        /\ StreamIndex(s.handle) = s.index % Slots

(***************************************************************************)
(* Closing a stream closes no other one that was created less than Slots   *)
(* calls away from it.                                                     *)
(***************************************************************************)
CloseIsPrecise ==
    [][\A s, t \in live \ live' :
           s.serial < t.serial => t.serial - s.serial >= Slots]_vars

===============================================================================
