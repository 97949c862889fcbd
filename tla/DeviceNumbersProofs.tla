------------------------ MODULE DeviceNumbersProofs ------------------------
(***************************************************************************)
(* What deviceNumbers.assign (hurd/build.go) finds, whatever is taken: the *)
(* facts that the proofs about Herd and about ConfigCheck rest on.         *)
(***************************************************************************)
EXTENDS DeviceNumbers, FiniteSetTheorems, WellFoundedInduction, TLAPS

\* A nonempty set of naturals has a least element.
LEMMA LeastNat ==
    ASSUME NEW S \in SUBSET Nat, S # {}
    PROVE  \E n \in S : \A m \in S : n <= m
<1>1. PICK n \in S : \A m \in S : ~(<<m, n>> \in OpToRel(<, Nat))
    BY NatLessThanWellFounded, WFMin
<1>2. ASSUME NEW m \in S PROVE n <= m
    <2>1. ~(<<m, n>> \in OpToRel(<, Nat))
        BY <1>1
    <2>2. m \in Nat /\ n \in Nat
        OBVIOUS
    <2> QED
        BY <2>1, <2>2 DEF OpToRel
<1> QED
    BY <1>2

\* A finite set of numbers leaves one of 0..Cardinality free, so the loop of
\* deviceNumbers.assign ends and finds a number that nobody has.
LEMMA LowestFreeIsFree ==
    ASSUME NEW T \in SUBSET Nat, IsFiniteSet(T)
    PROVE  /\ LowestFree(T) \in Nat /\ LowestFree(T) \notin T
           /\ \A m \in 0..(LowestFree(T) - 1) : m \in T
<1> DEFINE c == Cardinality(T)
           F == (0..c) \ T
<1>1. c \in Nat
    BY FS_CardinalityType
<1>2. F # {}
    <2> SUFFICES ASSUME F = {} PROVE FALSE
        OBVIOUS
    <2>1. 0..c \in SUBSET T
        OBVIOUS
    <2>2. Cardinality(0..c) <= c
        BY <2>1, FS_Subset
    <2>3. Cardinality(0..c) = c + 1
        BY <1>1, FS_Interval
    <2> QED
        BY <1>1, <2>2, <2>3
<1>3. F \in SUBSET Nat
    BY <1>1
<1>4. PICK n \in F : \A m \in F : n <= m
    BY <1>2, <1>3, LeastNat
<1>5. n \in 0..c /\ n \notin T
    BY <1>4
<1>6. \A m \in 0..(n - 1) : m \in T
    BY <1>1, <1>3, <1>4
<1>7. \E k \in 0..Cardinality(T) : k \notin T /\ \A m \in 0..(k - 1) : m \in T
    BY <1>5, <1>6
<1>8. /\ LowestFree(T) \in 0..Cardinality(T) /\ LowestFree(T) \notin T
      /\ \A m \in 0..(LowestFree(T) - 1) : m \in T
    BY <1>7 DEF LowestFree
<1> QED
    BY <1>1, <1>8

\* Whatever number assign claims is a natural number that was free.
LEMMA NumberIsFree ==
    ASSUME NEW T \in SUBSET Nat, IsFiniteSet(T), NEW p \in Int, CanAssign(T, p)
    PROVE  NumberFor(T, p) \in Nat /\ NumberFor(T, p) \notin T
    BY LowestFreeIsFree DEF NumberFor, CanAssign, AutoNum

\* A table that holds no more than another never gets ahead of it: what is free in
\* the larger one is free here, and the number taken here is then taken there too.
LEMMA NumberStaysWithin ==
    ASSUME NEW T \in SUBSET Nat, IsFiniteSet(T), NEW S \in SUBSET T, NEW p \in Int
    PROVE  /\ CanAssign(T, p) => CanAssign(S, p)
           /\ CanAssign(S, p) =>
                 NumberFor(S, p) \in T \union (IF CanAssign(T, p) THEN {NumberFor(T, p)} ELSE {})
<1>1. IsFiniteSet(S)
    BY FS_Subset
<1>2. LowestFree(S) \in T \union {LowestFree(T)}
    <2>1. /\ LowestFree(S) \in Nat /\ \A m \in 0..(LowestFree(S) - 1) : m \in S
          /\ LowestFree(T) \in Nat /\ LowestFree(T) \notin T
          /\ \A m \in 0..(LowestFree(T) - 1) : m \in T
        BY <1>1, LowestFreeIsFree
    <2>2. ~(LowestFree(T) < LowestFree(S))
        BY <2>1
    <2>3. CASE LowestFree(S) < LowestFree(T)
        BY <2>1, <2>3
    <2> QED
        BY <2>1, <2>2, <2>3
<1> QED
    BY <1>2 DEF CanAssign, NumberFor
=============================================================================
