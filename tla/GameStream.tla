------------------------------ MODULE GameStream ------------------------------
(***************************************************************************)
(* Stream identifiers: `GameStream` of src/lib.rs and the way              *)
(* src/bin/stats.rs reads the same identifiers back from a results file.   *)
(*                                                                         *)
(* A stream_id is a u16: the stream's index shifted left by two, and two   *)
(* low bits for the kind of the stream.  The shift drops the index's high  *)
(* bits, so only Slots = 2^14 indices have an identifier of their own.     *)
(* Slots is a parameter here, so that TLC can exhaust a small identifier   *)
(* space and the theorems hold for every one.                              *)
(***************************************************************************)
EXTENDS Integers

CONSTANT Slots          \* indices that fit above the two tag bits, 2^14 in the code

ASSUME SlotsAssumption == Slots \in Nat \ {0}

IdSpace == 4 * Slots    \* the values of the integer type of stream_id (u16)

Reliability == {"Reliable", "Unreliable", "Ordered"}

StreamId == 0 .. (IdSpace - 1)

(***************************************************************************)
(* The low two bits: ORDERING_MASK is 0b10, RELIABILITY_MASK is 0b11.  The *)
(* shift leaves these bits clear, so the code's |= is an addition.         *)
(***************************************************************************)
KindBits == [Unreliable |-> 0, Ordered |-> 2, Reliable |-> 3]

\* Mutant: the index is shifted by one bit and runs into the tag bits.
NewStreamShiftByOne(index, reliability) ==
    ((2 * index) % IdSpace) + KindBits[reliability]

\* GameStream::new
NewStream(index, reliability) == ((4 * index) % IdSpace) + KindBits[reliability]

IsReliable(id) == id % 4 # 0

IsOrdered(id) == id % 4 \in {2, 3}

\* Mutant: the analysis tests the bits the way the library does.
StreamTypeAsLibrary(id) ==
    IF IsReliable(id) THEN "Reliable" ELSE "Unreliable"

(***************************************************************************)
(* How the analysis labels the stream of a recorded packet.  Its test for  *)
(* a reliable stream compares with the whole mask, the library's compares  *)
(* with zero.                                                              *)
(***************************************************************************)
StreamType(id) ==
    IF id % 4 = 3 THEN "Reliable" ELSE IF IsOrdered(id) THEN "Ordered" ELSE "Unreliable"

StreamIndex(id) == id \div 4

===============================================================================
