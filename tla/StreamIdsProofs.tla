---------------------------- MODULE StreamIdsProofs ----------------------------
(***************************************************************************)
(* Stream identifiers for every width of the identifier: Spec => []TypeOK, *)
(* []AliasOnlyAcrossWrap, []AnalysisReadsBack and CloseIsPrecise.          *)
(*                                                                         *)
(* The inductive invariant ties each open stream to the call that created  *)
(* it: its index is its serial number modulo the width of the counter, and *)
(* its handle is computed from that index.  The arithmetic is in the       *)
(* lemmas, which reduce the shift to a multiplication of a remainder.      *)
(***************************************************************************)
EXTENDS StreamIds, GameStreamProofs

-------------------------------------------------------------------------------
(* The invariant *)

(***************************************************************************)
(* The counter is the number of calls modulo its width, and every open     *)
(* stream carries the handle computed from the call that created it.       *)
(***************************************************************************)
Computed(s, calls) ==
    /\ s.serial \in 1 .. calls
    /\ s.reliability \in Reliability
    /\ s.index = s.serial % IdSpace
    /\ s.handle = NewStream(s.index, s.reliability)

HandlesComputed ==
    /\ created \in Nat
    /\ next_stream_id = created % IdSpace
    /\ \A s \in live : Computed(s, created)

\* The range of the counter.
LEMMA CounterRange ==
    ASSUME NEW n \in Nat
    PROVE  n % IdSpace \in StreamId /\ n % IdSpace \in Nat
<1>1. IdSpace \in Nat \ {0} /\ n \in Int
  BY SlotsAssumption DEF IdSpace
<1>2. n % IdSpace \in 0 .. (IdSpace - 1)
  BY <1>1, DivMod
<1>. QED
  BY <1>1, <1>2 DEF StreamId

\* A handle computed from a serial determines its slot and its kind.
LEMMA ComputedParts ==
    ASSUME NEW s, NEW calls \in Nat, Computed(s, calls)
    PROVE  /\ s.handle \in StreamId
           /\ s.handle \div 4 = s.serial % Slots
           /\ s.handle \div 4 = s.index % Slots
           /\ s.handle % 4 = KindBits[s.reliability]
<1>1. s.serial \in Nat /\ s.index \in Nat
  BY CounterRange DEF Computed
<1>2. s.index % Slots = s.serial % Slots
  BY <1>1, WrapKeepsSlot DEF Computed
<1>. QED
  BY <1>1, <1>2, HandleParts DEF Computed

LEMMA InitComputed == Init => HandlesComputed
<1> SUFFICES ASSUME Init PROVE HandlesComputed
  OBVIOUS
<1>1. IdSpace \in Nat \ {0} /\ 0 = (IdSpace * 0) + 0
  BY SlotsAssumption DEF IdSpace
<1>2. 0 % IdSpace = 0
  BY <1>1, RemainderUnique
<1>. QED
  BY <1>2 DEF Init, HandlesComputed

\* create_stream: the new record is computed from the new value of the counter.
LEMMA CreateComputed ==
    ASSUME HandlesComputed, NEW k \in Reliability, CreateStream(k)
    PROVE  HandlesComputed'
<1> DEFINE new == [serial |-> created + 1, index |-> (next_stream_id + 1) % IdSpace,
                   reliability |-> k,
                   handle |-> NewStream((next_stream_id + 1) % IdSpace, k)]
<1>1. created' = created + 1 /\ created' \in Nat /\ created \in Nat
  BY DEF HandlesComputed, CreateStream
<1>2. next_stream_id' = (next_stream_id + 1) % IdSpace /\ live' = live \cup {new}
  BY DEF CreateStream
<1>3. (next_stream_id + 1) % IdSpace = (created + 1) % IdSpace
  <2>1. IdSpace \in Nat \ {0}
    BY SlotsAssumption DEF IdSpace
  <2>. QED
    BY <1>1, <2>1, SuccessorRemainder DEF HandlesComputed
<1>4. Computed(new, created')
  BY <1>1, <1>3 DEF Computed
<1>5. ASSUME NEW s \in live PROVE Computed(s, created')
  BY <1>1, <1>5 DEF HandlesComputed, Computed
<1> HIDE DEF new
<1>. QED
  BY <1>1, <1>2, <1>3, <1>4, <1>5 DEF HandlesComputed

LEMMA NextComputed == HandlesComputed /\ [Next]_vars => HandlesComputed'
<1> SUFFICES ASSUME HandlesComputed, [Next]_vars PROVE HandlesComputed'
  OBVIOUS
<1>1. ASSUME NEW k \in Reliability, CreateStream(k) PROVE HandlesComputed'
  BY <1>1, CreateComputed
<1>2. ASSUME NEW s \in live, CloseStream(s.handle) PROVE HandlesComputed'
  BY <1>2 DEF CloseStream, HandlesComputed, Computed
<1>3. CASE UNCHANGED vars
  BY <1>3 DEF vars, HandlesComputed, Computed
<1>. QED
  BY <1>1, <1>2, <1>3 DEF Next

LEMMA AlwaysComputed == Spec => []HandlesComputed
BY InitComputed, NextComputed, PTL DEF Spec

-------------------------------------------------------------------------------
(* The properties *)

LEMMA ComputedImpliesAlias == HandlesComputed => AliasOnlyAcrossWrap
<1> SUFFICES ASSUME HandlesComputed, NEW s \in live, NEW t \in live, s.handle = t.handle
             PROVE  s.serial % Slots = t.serial % Slots /\ s.reliability = t.reliability
  BY DEF AliasOnlyAcrossWrap
<1>1. created \in Nat /\ Computed(s, created) /\ Computed(t, created)
  BY DEF HandlesComputed
<1>2. s.reliability \in Reliability /\ t.reliability \in Reliability
  BY <1>1 DEF Computed
<1>. QED
  BY <1>1, <1>2, ComputedParts, KindBitsInjective

LEMMA ComputedImpliesReadsBack == HandlesComputed => AnalysisReadsBack
<1> SUFFICES ASSUME HandlesComputed, NEW s \in live
             PROVE  /\ StreamType(s.handle) = s.reliability
                    /\ StreamIndex(s.handle) = s.index % Slots
  BY DEF AnalysisReadsBack
<1>1. created \in Nat /\ Computed(s, created) /\ s.reliability \in Reliability
  BY DEF HandlesComputed, Computed
<1>2. StreamIndex(s.handle) = s.index % Slots
  BY <1>1, ComputedParts DEF StreamIndex
<1>3. s.handle % 4 = KindBits[s.reliability]
  BY <1>1, ComputedParts
<1>. QED
  BY <1>1, <1>2, <1>3 DEF StreamType, IsOrdered, KindBits, Reliability

(***************************************************************************)
(* Type correctness: the counter, the handles and the indices stay within  *)
(* the integer type for any number of streams.                             *)
(***************************************************************************)
THEOREM TypeTheorem == Spec => []TypeOK
<1>1. Init => TypeOK
  <2>1. 0 \in StreamId
    BY SlotsAssumption DEF StreamId, IdSpace
  <2>. QED
    BY <2>1 DEF Init, TypeOK
<1>2. ASSUME TypeOK, [Next]_vars PROVE TypeOK'
  <2>1. ASSUME NEW k \in Reliability, CreateStream(k) PROVE TypeOK'
    <3>1. next_stream_id + 1 \in Nat /\ created + 1 \in Nat
      BY <1>2 DEF TypeOK, StreamId
    <3>2. /\ (next_stream_id + 1) % IdSpace \in StreamId
          /\ (next_stream_id + 1) % IdSpace \in Nat
      BY <3>1, CounterRange
    <3>3. NewStream((next_stream_id + 1) % IdSpace, k) \in StreamId
      BY <3>2, HandleParts
    <3>. QED
      BY <1>2, <2>1, <3>1, <3>2, <3>3 DEF TypeOK, CreateStream, Stream
  <2>2. ASSUME NEW s \in live, CloseStream(s.handle) PROVE TypeOK'
    BY <1>2, <2>2 DEF TypeOK, CloseStream
  <2>3. CASE UNCHANGED vars
    BY <1>2, <2>3 DEF TypeOK, vars
  <2>. QED
    BY <1>2, <2>1, <2>2, <2>3 DEF Next
<1>. QED
  BY <1>1, <1>2, PTL DEF Spec

(***************************************************************************)
(* For every width of the identifiers and every number of calls, two open  *)
(* streams with the same handle were created a multiple of Slots calls     *)
(* apart and are of the same kind: the shift in GameStream::new and the    *)
(* wrap of next_stream_id lose nothing else.                               *)
(***************************************************************************)
THEOREM AliasTheorem == Spec => []AliasOnlyAcrossWrap
BY AlwaysComputed, ComputedImpliesAlias, PTL

(***************************************************************************)
(* For every width of the identifiers the analysis reads back from a       *)
(* handle the kind and the slot the stream was created with.               *)
(***************************************************************************)
THEOREM ReadsBackTheorem == Spec => []AnalysisReadsBack
BY AlwaysComputed, ComputedImpliesReadsBack, PTL

(***************************************************************************)
(* close_stream never closes two streams that were created less than Slots *)
(* calls apart.                                                            *)
(***************************************************************************)
THEOREM CloseTheorem == Spec => CloseIsPrecise
<1>1. ASSUME HandlesComputed, [Next]_vars
      PROVE  [\A s, t \in live \ live' :
                  s.serial < t.serial => t.serial - s.serial >= Slots]_vars
  <2> SUFFICES ASSUME NEW s \in live \ live', NEW t \in live \ live',
                      s.serial < t.serial, Next
               PROVE  t.serial - s.serial >= Slots
    BY <1>1
  <2>1. s.handle = t.handle
    BY DEF Next, CreateStream, CloseStream
  <2>2. s.serial % Slots = t.serial % Slots
    BY <1>1, <2>1, ComputedImpliesAlias DEF AliasOnlyAcrossWrap
  <2>3. s.serial \in Nat /\ t.serial \in Nat
    BY <1>1 DEF HandlesComputed, Computed
  <2>. QED
    BY <2>2, <2>3, SlotsAssumption, CongruentApart
<1>. QED
  BY <1>1, AlwaysComputed, PTL DEF Spec, CloseIsPrecise

===============================================================================
