--------------------------- MODULE GameStreamProofs ---------------------------
(***************************************************************************)
(* The arithmetic of stream identifiers, for every width: remainders, the  *)
(* shift of GameStream::new, and what a handle is made of.                 *)
(***************************************************************************)
EXTENDS GameStream, FiniteSetTheorems, WellFoundedInduction, TLAPS

-------------------------------------------------------------------------------
(* Induction, stated of a set so that the provers can use it.  The numbers  *)
(* that are not in T would have a least interval 0 .. n among them.         *)

LEMMA AllNat ==
    ASSUME NEW T, 0 \in T, \A n \in Nat : n \in T => n + 1 \in T
    PROVE  Nat \subseteq T
<1> SUFFICES ASSUME NEW m \in Nat, m \notin T PROVE FALSE
  OBVIOUS
<1> DEFINE R == StrictSubsetOrdering(Nat)
           F == {0 .. n : n \in Nat \ T}
<1>1. IsWellFoundedOn(R, FiniteSubsetsOf(Nat))
  BY FS_StrictSubsetOrderingWellFounded
<1>2. ASSUME NEW n \in Nat PROVE 0 .. n \in FiniteSubsetsOf(Nat)
  <2>1. IsFiniteSet(0 .. n)
    BY FS_Interval
  <2>. QED
    BY <2>1 DEF FiniteSubsetsOf
<1>3. F # {} /\ F \subseteq FiniteSubsetsOf(Nat)
  BY <1>2
<1>4. PICK A \in F : \A B \in F : ~ (<<B, A>> \in R)
  <2> HIDE DEF R, F
  <2>. QED
    BY <1>1, <1>3, WFMin
<1>5. PICK n \in Nat \ T : A = 0 .. n
  BY <1>4
<1>6. n - 1 \in Nat \ T
  BY <1>5
<1>7. 0 .. (n - 1) \in F
  BY <1>6
<1>8. <<0 .. (n - 1), A>> \in R
  BY <1>5, <1>6 DEF StrictSubsetOrdering
<1>. QED
  BY <1>4, <1>7, <1>8

-------------------------------------------------------------------------------
(* Remainders *)

\* Division with remainder, as the provers are to see it.
LEMMA DivMod ==
    ASSUME NEW a \in Int, NEW b \in Nat \ {0}
    PROVE  /\ a = (b * (a \div b)) + (a % b)
           /\ a \div b \in Int
           /\ a % b \in 0 .. (b - 1)
OBVIOUS

\* A positive multiple of b is at least b, a negative one at most -b.
LEMMA MultipleAbove ==
    ASSUME NEW b \in Nat \ {0}, NEW k \in Int, k >= 1
    PROVE  b * k >= b
OBVIOUS

LEMMA MultipleBelow ==
    ASSUME NEW b \in Nat \ {0}, NEW k \in Int, k <= -1
    PROVE  b * k <= -b
OBVIOUS

\* The remainder is the only decomposition of a with a rest below b.
LEMMA RemainderUnique ==
    ASSUME NEW a \in Int, NEW b \in Nat \ {0},
           NEW q \in Int, NEW r \in 0 .. (b - 1), a = (b * q) + r
    PROVE  a % b = r /\ a \div b = q
<1> DEFINE p == a \div b
           s == a % b
<1>1. a = (b * p) + s /\ p \in Int /\ s \in 0 .. (b - 1)
  BY DivMod
<1> HIDE DEF p, s
<1>2. b * (q - p) = s - r
  BY <1>1
<1>3. ~(q - p >= 1)
  BY <1>1, <1>2, MultipleAbove
<1>4. ~(q - p <= -1)
  BY <1>1, <1>2, MultipleBelow
<1>5. q = p /\ s = r
  BY <1>1, <1>3, <1>4
<1>. QED
  BY <1>5 DEF p, s

\* Taking the remainder before adding one changes nothing: the counter may wrap.
LEMMA SuccessorRemainder ==
    ASSUME NEW n \in Nat, NEW b \in Nat \ {0}
    PROVE  ((n % b) + 1) % b = (n + 1) % b
<1> DEFINE q == n \div b
           r == n % b
<1>1. n = (b * q) + r /\ q \in Int /\ r \in 0 .. (b - 1)
  BY DivMod
<1> HIDE DEF q, r
<1>2. CASE r + 1 < b
  <2>1. n + 1 = (b * q) + (r + 1) /\ r + 1 \in 0 .. (b - 1) /\ n + 1 \in Int
    BY <1>1, <1>2
  <2>2. (n + 1) % b = r + 1
    BY <1>1, <2>1, RemainderUnique
  <2>3. r + 1 = (b * 0) + (r + 1)
    BY <1>1
  <2>4. (r + 1) % b = r + 1
    BY <2>1, <2>3, RemainderUnique
  <2>. QED
    BY <2>2, <2>4 DEF r
<1>3. CASE r + 1 = b
  <2>1. n + 1 = (b * (q + 1)) + 0 /\ q + 1 \in Int
    BY <1>1, <1>3
  <2>2. (n + 1) % b = 0
    BY <2>1, RemainderUnique
  <2>3. r + 1 = (b * 1) + 0 /\ r + 1 \in Int
    BY <1>1, <1>3
  <2>4. (r + 1) % b = 0
    BY <2>3, RemainderUnique
  <2>. QED
    BY <2>2, <2>4 DEF r
<1>. QED
  BY <1>1, <1>2, <1>3

-------------------------------------------------------------------------------
(* Identifiers *)

\* The shift keeps the index modulo Slots: what falls off is the rest.
LEMMA ShiftIsRemainder ==
    ASSUME NEW n \in Nat
    PROVE  (4 * n) % IdSpace = 4 * (n % Slots)
<1> DEFINE q == n \div Slots
           r == n % Slots
<1>1. n = (Slots * q) + r /\ q \in Int /\ r \in 0 .. (Slots - 1)
  BY SlotsAssumption, DivMod
<1> HIDE DEF q, r
<1>2. 4 * n = ((4 * Slots) * q) + (4 * r)
  BY <1>1, SlotsAssumption
<1>3. 4 * n \in Int /\ 4 * Slots \in Nat \ {0} /\ 4 * r \in 0 .. ((4 * Slots) - 1)
  BY <1>1, SlotsAssumption
<1>4. (4 * n) % (4 * Slots) = 4 * r
  BY <1>1, <1>2, <1>3, RemainderUnique
<1>. QED
  BY <1>4 DEF r, IdSpace

\* A remainder modulo IdSpace has the same remainder modulo Slots.
LEMMA WrapKeepsSlot ==
    ASSUME NEW n \in Nat
    PROVE  (n % IdSpace) % Slots = n % Slots
<1> DEFINE q == n \div IdSpace
           r == n % IdSpace
           u == r \div Slots
           v == r % Slots
<1>1. IdSpace \in Nat \ {0} /\ IdSpace = 4 * Slots
  BY SlotsAssumption DEF IdSpace
<1>2. n = (IdSpace * q) + r /\ q \in Int /\ r \in 0 .. (IdSpace - 1)
  <2>1. n \in Int
    OBVIOUS
  <2>. QED
    BY <1>1, <2>1, DivMod DEF q, r
<1> HIDE DEF q, r
<1>3. r = (Slots * u) + v /\ u \in Int /\ v \in 0 .. (Slots - 1)
  BY <1>1, <1>2, SlotsAssumption, DivMod
<1> HIDE DEF u, v
<1>4. n = ((4 * Slots) * q) + ((Slots * u) + v)
  BY <1>1, <1>2, <1>3
<1>5. n = (Slots * ((4 * q) + u)) + v /\ (4 * q) + u \in Int
  BY <1>2, <1>3, <1>4, SlotsAssumption
<1>6. n % Slots = v
  BY <1>3, <1>5, SlotsAssumption, RemainderUnique
<1>. QED
  BY <1>6 DEF r, v

\* A handle is four times the index's slot plus the kind, and nothing else.
LEMMA HandleParts ==
    ASSUME NEW n \in Nat, NEW k \in Reliability
    PROVE  /\ NewStream(n, k) \in StreamId
           /\ NewStream(n, k) \div 4 = n % Slots
           /\ NewStream(n, k) % 4 = KindBits[k]
<1>1. n % Slots \in 0 .. (Slots - 1)
  BY SlotsAssumption, DivMod
<1>2. KindBits[k] \in 0 .. 3
  BY DEF KindBits, Reliability
<1>3. NewStream(n, k) = (4 * (n % Slots)) + KindBits[k]
  BY ShiftIsRemainder DEF NewStream
<1> DEFINE slot == n % Slots
           bits == KindBits[k]
<1> HIDE DEF slot, bits
<1>4. slot \in 0 .. (Slots - 1) /\ bits \in 0 .. 3 /\ NewStream(n, k) = (4 * slot) + bits
  BY <1>1, <1>2, <1>3 DEF slot, bits
<1>5. NewStream(n, k) \in StreamId
  BY <1>4, SlotsAssumption DEF StreamId, IdSpace
<1>6. NewStream(n, k) % 4 = bits /\ NewStream(n, k) \div 4 = slot
  BY <1>4, RemainderUnique
<1>. QED
  BY <1>5, <1>6 DEF slot, bits

\* The low two bits determine the kind.
LEMMA KindBitsInjective ==
    ASSUME NEW j \in Reliability, NEW k \in Reliability, KindBits[j] = KindBits[k]
    PROVE  j = k
BY DEF KindBits, Reliability

\* Two numbers with the same remainder are a whole divisor apart.
LEMMA CongruentApart ==
    ASSUME NEW m \in Nat, NEW n \in Nat, NEW b \in Nat \ {0}, m < n, m % b = n % b
    PROVE  n - m >= b
<1> DEFINE p == m \div b
           q == n \div b
           r == m % b
<1>1. m = (b * p) + r /\ p \in Int /\ r \in 0 .. (b - 1)
  BY DivMod
<1>2. n = (b * q) + r /\ q \in Int
  BY DivMod
<1> HIDE DEF p, q, r
<1>3. n - m = b * (q - p) /\ q - p \in Int
  BY <1>1, <1>2
<1>4. ~(q - p <= -1)
  BY <1>3, MultipleBelow
<1>5. q - p # 0
  BY <1>1, <1>2
<1>. QED
  BY <1>3, <1>4, <1>5, MultipleAbove

\* A remainder is no more than the number.
LEMMA RemainderSmaller ==
    ASSUME NEW n \in Nat, NEW b \in Nat \ {0}
    PROVE  n % b \in 0 .. n
<1> DEFINE q == n \div b
           r == n % b
<1>1. n = (b * q) + r /\ q \in Int /\ r \in 0 .. (b - 1)
  BY DivMod
<1> HIDE DEF q, r
<1>2. ~(q <= -1)
  BY <1>1, MultipleBelow
<1>3. q = 0 \/ q >= 1
  BY <1>1, <1>2
<1>4. b * q >= 0
  BY <1>3, MultipleAbove, <1>1
<1>. QED
  BY <1>1, <1>4 DEF r

===============================================================================
