------------------------------ MODULE Codec_proofs ------------------------------
(***************************************************************************)
(* Proofs about the operations of BitVector (module BitVectors, checked by *)
(* VectorBits): for vectors of every length, every parity generator, every *)
(* map and every set of positions to leave out, what is written is what is *)
(* read.  The loops of BitVector are recursive functions; what they        *)
(* compute is shown by induction on sets of numbers (UpTo), and that they  *)
(* compute anything at all by Recursion.  And about the codec of short     *)
(* messages that is built on them (SmsCodec): what a phone sends is what   *)
(* is parsed, and what the other phone reads.                              *)
(***************************************************************************)
EXTENDS VectorBits, SmsCodec, SequenceTheorems, FiniteSetTheorems, WellFoundedInduction, TLAPS

--------------------------------------------------------------------------------
(* Induction and recursion; shifts and numbers *)

\* A non-empty set of natural numbers has a smallest element.
LEMMA LeastOf ==
    ASSUME NEW T, T \subseteq Nat, T # {}
    PROVE  \E n \in T : \A m \in T : n <= m
<1>1. PICK x \in T : \A m \in T : <<m, x>> \notin OpToRel(<, Nat)
    BY WFMin, NatLessThanWellFounded, Zenon
<1>2. \A m \in T : m \in Nat /\ x \in Nat /\ ~(m < x)
    BY <1>1, Zenon DEF OpToRel
<1>3. \A m \in T : x <= m
    BY <1>2
<1> QED BY <1>3

\* Induction up to n, on the set of the numbers for which something holds.
LEMMA UpTo ==
    ASSUME NEW n \in Nat, NEW P, 0 \in P, \A k \in 0..(n - 1) : k \in P => k + 1 \in P
    PROVE  \A k \in 0..n : k \in P
<1> DEFINE T == {k \in 0..n : k \notin P}
<1> SUFFICES ASSUME T # {} PROVE FALSE
    OBVIOUS
<1>1. T \subseteq Nat
    OBVIOUS
<1>2. PICK l \in T : \A m \in T : l <= m
    <2> HIDE DEF T
    <2> QED BY <1>1, LeastOf
<1>3. l \in 1..n /\ l \notin P
    BY <1>2
<1>4. l - 1 \in 0..(n - 1) /\ l - 1 \notin T
    BY <1>2, <1>3
<1>5. l - 1 \in P
    BY <1>4
<1>6. (l - 1) + 1 \in P
    BY <1>4, <1>5
<1> QED BY <1>3, <1>6

\* There is a function that is defined by recursion up to n: from b, by the steps T.
Recursive(S, n, b, T) ==
    \E f \in [0..n -> S] : f[0] = b /\ \A k \in 1..n : f[k] = T[k][f[k - 1]]

\* It is there: the steps are taken one after the other.
LEMMA Recursion ==
    ASSUME NEW S, NEW n \in Nat, NEW b \in S, NEW T \in [1..n -> [S -> S]]
    PROVE  Recursive(S, n, b, T)
<1> DEFINE P == {m \in Nat : \E f \in [0..m -> S] : f[0] = b /\ \A k \in 1..m : f[k] = T[k][f[k - 1]]}
<1>1. 0 \in P
    <2> DEFINE g == [k \in 0..0 |-> b]
    <2>1. g \in [0..0 -> S] /\ g[0] = b
        OBVIOUS
    <2>2. \A k \in 1..0 : g[k] = T[k][g[k - 1]]
        OBVIOUS
    <2> HIDE DEF g
    <2> QED BY <2>1, <2>2
<1>2. \A m \in 0..(n - 1) : m \in P => m + 1 \in P
    <2> SUFFICES ASSUME NEW m \in 0..(n - 1), m \in P PROVE m + 1 \in P
        OBVIOUS
    <2>1. PICK f \in [0..m -> S] : f[0] = b /\ \A k \in 1..m : f[k] = T[k][f[k - 1]]
        OBVIOUS
    <2> DEFINE g == [k \in 0..(m + 1) |-> IF k = m + 1 THEN T[m + 1][f[m]] ELSE f[k]]
    <2>2. T[m + 1][f[m]] \in S
        OBVIOUS
    <2>3. g \in [0..(m + 1) -> S]
        BY <2>1, <2>2
    <2>4. g[0] = b
        BY <2>1
    <2>5. \A k \in 1..(m + 1) : g[k] = T[k][g[k - 1]]
        BY <2>1
    <2> HIDE DEF g
    <2>6. \E h \in [0..(m + 1) -> S] : h[0] = b /\ \A k \in 1..(m + 1) : h[k] = T[k][h[k - 1]]
        BY <2>3, <2>4, <2>5
    <2>7. m + 1 \in Nat
        OBVIOUS
    <2> QED BY <2>6, <2>7
<1> HIDE DEF P
<1>3. n \in P
    <2>1. \A k \in 0..n : k \in P
        BY <1>1, <1>2, UpTo
    <2> QED BY <2>1
<1> QED BY <1>3 DEF P, Recursive

Bit == {0, 1}

\* What the shifts of a number leave.
LEMMA RightShiftsAre ==
    ASSUME NEW value \in Nat, NEW n \in Nat
    PROVE  /\ RightShifts(value, n) \in [0..n -> Nat]
           /\ RightShifts(value, n)[0] = value
           /\ \A k \in 1..n : RightShifts(value, n)[k] = RightShifts(value, n)[k - 1] \div 2
<1> DEFINE T == [k \in 1..n |-> [x \in Nat |-> x \div 2]]
           r == RightShifts(value, n)
<1>1. T \in [1..n -> [Nat -> Nat]]
    OBVIOUS
<1>2. PICK f \in [0..n -> Nat] : f[0] = value /\ \A k \in 1..n : f[k] = T[k][f[k - 1]]
    <2> HIDE DEF T
    <2>1. Recursive(Nat, n, value, T)
        BY <1>1, Recursion
    <2> QED BY <2>1 DEF Recursive
<1>3. \A k \in 1..n : f[k] = f[k - 1] \div 2
    <2> SUFFICES ASSUME NEW k \in 1..n PROVE f[k] = f[k - 1] \div 2
        OBVIOUS
    <2>1. f[k - 1] \in Nat
        BY <1>2
    <2>2. T[k] = [x \in Nat |-> x \div 2]
        OBVIOUS
    <2> HIDE DEF T
    <2> QED BY <1>2, <2>1, <2>2
<1>4. f = [k \in 0..n |-> IF k = 0 THEN value ELSE f[k - 1] \div 2]
    <2>1. \A k \in 0..n : f[k] = IF k = 0 THEN value ELSE f[k - 1] \div 2
        BY <1>2, <1>3
    <2> HIDE DEF T
    <2> QED BY <1>2, <2>1
<1>5. r = [k \in 0..n |-> IF k = 0 THEN value ELSE r[k - 1] \div 2]
    BY <1>4 DEF RightShifts
<1> HIDE DEF r
<1> DEFINE P == {k \in 0..n : r[k] \in Nat}
<1>6. \A k \in 0..n : k \in P
    <2>1. 0 \in P
        BY <1>5
    <2>2. \A k \in 0..(n - 1) : k \in P => k + 1 \in P
        <3> SUFFICES ASSUME NEW k \in 0..(n - 1), r[k] \in Nat PROVE r[k + 1] \in Nat
            OBVIOUS
        <3>1. r[k + 1] = r[k] \div 2
            BY <1>5
        <3> QED BY <3>1
    <2> HIDE DEF P
    <2> QED BY <2>1, <2>2, UpTo
<1>7. r \in [0..n -> Nat]
    <2>1. \A k \in 0..n : r[k] \in Nat
        BY <1>6
    <2> QED BY <1>5, <2>1
<1>8. r[0] = value /\ \A k \in 1..n : r[k] = r[k - 1] \div 2
    BY <1>5
<1> QED BY <1>7, <1>8 DEF r

\* The shifts to the left, in the same way.
LEMMA LeftShiftsAre ==
    ASSUME NEW value \in Nat, NEW n \in Nat
    PROVE  /\ LeftShifts(value, n) \in [0..n -> Nat]
           /\ LeftShifts(value, n)[0] = value
           /\ \A k \in 1..n : LeftShifts(value, n)[k] = 2 * LeftShifts(value, n)[k - 1]
<1> DEFINE T == [k \in 1..n |-> [x \in Nat |-> 2 * x]]
           r == LeftShifts(value, n)
<1>1. T \in [1..n -> [Nat -> Nat]]
    OBVIOUS
<1>2. PICK f \in [0..n -> Nat] : f[0] = value /\ \A k \in 1..n : f[k] = T[k][f[k - 1]]
    <2> HIDE DEF T
    <2>1. Recursive(Nat, n, value, T)
        BY <1>1, Recursion
    <2> QED BY <2>1 DEF Recursive
<1>3. \A k \in 1..n : f[k] = 2 * f[k - 1]
    <2> SUFFICES ASSUME NEW k \in 1..n PROVE f[k] = 2 * f[k - 1]
        OBVIOUS
    <2>1. f[k - 1] \in Nat
        BY <1>2
    <2>2. T[k] = [x \in Nat |-> 2 * x]
        OBVIOUS
    <2> HIDE DEF T
    <2> QED BY <1>2, <2>1, <2>2
<1>4. f = [k \in 0..n |-> IF k = 0 THEN value ELSE 2 * f[k - 1]]
    <2>1. \A k \in 0..n : f[k] = IF k = 0 THEN value ELSE 2 * f[k - 1]
        BY <1>2, <1>3
    <2> HIDE DEF T
    <2> QED BY <1>2, <2>1
<1>5. r = [k \in 0..n |-> IF k = 0 THEN value ELSE 2 * r[k - 1]]
    BY <1>4 DEF LeftShifts
<1> HIDE DEF r
<1> DEFINE P == {k \in 0..n : r[k] \in Nat}
<1>6. \A k \in 0..n : k \in P
    <2>1. 0 \in P
        BY <1>5
    <2>2. \A k \in 0..(n - 1) : k \in P => k + 1 \in P
        <3> SUFFICES ASSUME NEW k \in 0..(n - 1), r[k] \in Nat PROVE r[k + 1] \in Nat
            OBVIOUS
        <3>1. r[k + 1] = 2 * r[k]
            BY <1>5
        <3> QED BY <3>1
    <2> HIDE DEF P
    <2> QED BY <2>1, <2>2, UpTo
<1>7. r \in [0..n -> Nat]
    <2>1. \A k \in 0..n : r[k] \in Nat
        BY <1>6
    <2> QED BY <1>5, <2>1
<1>8. r[0] = value /\ \A k \in 1..n : r[k] = 2 * r[k - 1]
    BY <1>5
<1> QED BY <1>7, <1>8 DEF r

\* The loop of peekField.
LEMMA AccumIs ==
    ASSUME NEW v \in Seq(Bit)
    PROVE  /\ Accum(v) \in [0..Len(v) -> Nat]
           /\ Accum(v)[0] = 0
           /\ \A k \in 1..Len(v) : Accum(v)[k] = 2 * Accum(v)[k - 1] + v[k]
<1> DEFINE n == Len(v)
           T == [k \in 1..n |-> [x \in Nat |-> 2 * x + v[k]]]
           r == Accum(v)
<1>0. n \in Nat /\ \A k \in 1..n : v[k] \in Nat
    BY DEF Bit
<1>1. T \in [1..n -> [Nat -> Nat]]
    BY <1>0
<1> HIDE DEF n
<1>2. PICK f \in [0..n -> Nat] : f[0] = 0 /\ \A k \in 1..n : f[k] = T[k][f[k - 1]]
    <2> HIDE DEF T
    <2>1. Recursive(Nat, n, 0, T)
        BY <1>0, <1>1, Recursion
    <2> QED BY <2>1 DEF Recursive
<1>3. \A k \in 1..n : f[k] = 2 * f[k - 1] + v[k]
    <2> SUFFICES ASSUME NEW k \in 1..n PROVE f[k] = 2 * f[k - 1] + v[k]
        OBVIOUS
    <2>1. f[k - 1] \in Nat
        BY <1>0, <1>2
    <2>2. T[k] = [x \in Nat |-> 2 * x + v[k]]
        OBVIOUS
    <2> HIDE DEF T
    <2> QED BY <1>2, <2>1, <2>2
<1>4. f = [k \in 0..n |-> IF k = 0 THEN 0 ELSE 2 * f[k - 1] + v[k]]
    <2>1. \A k \in 0..n : f[k] = IF k = 0 THEN 0 ELSE 2 * f[k - 1] + v[k]
        BY <1>0, <1>2, <1>3
    <2> HIDE DEF T
    <2> QED BY <1>2, <2>1
<1>5. r = [k \in 0..n |-> IF k = 0 THEN 0 ELSE 2 * r[k - 1] + v[k]]
    BY <1>4 DEF Accum, n
<1> HIDE DEF r
<1> DEFINE P == {k \in 0..n : r[k] \in Nat}
<1>6. \A k \in 0..n : k \in P
    <2>1. 0 \in P
        BY <1>0, <1>5
    <2>2. \A k \in 0..(n - 1) : k \in P => k + 1 \in P
        <3> SUFFICES ASSUME NEW k \in 0..(n - 1), r[k] \in Nat PROVE k + 1 \in 0..n /\ r[k + 1] \in Nat
            OBVIOUS
        <3>1. r[k + 1] = 2 * r[k] + v[k + 1] /\ k + 1 \in 1..n
            BY <1>0, <1>5
        <3>2. v[k + 1] \in Nat
            BY <1>0, <3>1
        <3> QED BY ONLY <3>1, <3>2, r[k] \in Nat, k \in 0..(n - 1), <1>0
    <2> HIDE DEF P
    <2> QED BY <1>0, <2>1, <2>2, UpTo
<1>7. r \in [0..n -> Nat]
    <2>1. \A k \in 0..n : r[k] \in Nat
        BY <1>6
    <2> QED BY <1>5, <2>1
<1>8. r[0] = 0 /\ \A k \in 1..n : r[k] = 2 * r[k - 1] + v[k]
    BY <1>0, <1>5
<1> QED BY <1>7, <1>8 DEF r, n

\* A bit more or less.
LEMMA DoubleAndHalf ==
    /\ \A x \in Nat, b \in Bit : (2 * x + b) \div 2 = x /\ (2 * x + b) % 2 = b
    /\ \A x \in Nat : (2 * x) \div 2 = x
    /\ \A x \in Nat : x \div 2 \in Nat /\ x % 2 \in Bit /\ x = 2 * (x \div 2) + (x % 2)
    /\ \A b \in Bit : b % 2 = b
    BY DEF Bit

\* Shifting the number of some bits to the right leaves the number of the first of them.
LEMMA ShiftsOfNumber ==
    ASSUME NEW v \in Seq(Bit)
    PROVE  /\ Number(v) \in Nat
           /\ \A k \in 0..Len(v) : RightShifts(Number(v), Len(v))[k] = Accum(v)[Len(v) - k]
<1> DEFINE n == Len(v)
           r == RightShifts(Number(v), n)
           P == {k \in 0..n : r[k] = Accum(v)[n - k]}
<1>1. n \in Nat /\ \A k \in 1..n : v[k] \in Bit
    OBVIOUS
<1>2. /\ Accum(v) \in [0..n -> Nat]
      /\ Accum(v)[0] = 0
      /\ \A k \in 1..n : Accum(v)[k] = 2 * Accum(v)[k - 1] + v[k]
    BY AccumIs
<1>3. Number(v) \in Nat
    BY <1>1, <1>2 DEF Number
<1> HIDE DEF n
<1>4. /\ r[0] = Number(v)
      /\ \A k \in 1..n : r[k] = r[k - 1] \div 2
    BY <1>1, <1>3, RightShiftsAre
<1> HIDE DEF r
<1>5. \A k \in 0..n : k \in P
    <2>1. 0 \in P
        BY <1>1, <1>4 DEF Number, n
    <2>2. \A k \in 0..(n - 1) : k \in P => k + 1 \in P
        <3> SUFFICES ASSUME NEW k \in 0..(n - 1), r[k] = Accum(v)[n - k]
                     PROVE  k + 1 \in 0..n /\ r[k + 1] = Accum(v)[n - (k + 1)]
            OBVIOUS
        <3>1. k + 1 \in 1..n /\ n - k \in 1..n /\ (n - k) - 1 = n - (k + 1) /\ (n - k) - 1 \in 0..n
              /\ (k + 1) - 1 = k /\ k + 1 \in 0..n
            BY <1>1
        <3>2. r[k + 1] = r[k] \div 2
            BY <1>4, <3>1
        <3>3. Accum(v)[n - k] = 2 * Accum(v)[n - (k + 1)] + v[n - k]
            BY <1>2, <3>1
        <3>4. Accum(v)[n - (k + 1)] \in Nat /\ v[n - k] \in Bit
            BY <1>1, <1>2, <3>1
        <3>5. (2 * Accum(v)[n - (k + 1)] + v[n - k]) \div 2 = Accum(v)[n - (k + 1)]
            BY <3>4, DoubleAndHalf
        <3> QED BY <3>1, <3>2, <3>3, <3>5
    <2> HIDE DEF P
    <2> QED BY <1>1, <2>1, <2>2, UpTo
<1> QED BY <1>3, <1>5 DEF r, n

\* A field of the number of some bits is these bits.
LEMMA FieldOfNumber ==
    ASSUME NEW v \in Seq(Bit)
    PROVE  /\ Field(Number(v), Len(v)) = v
           /\ FieldReversed(Number(v), Len(v)) = [i \in 1..Len(v) |-> v[Len(v) + 1 - i]]
<1> DEFINE n == Len(v)
           r == RightShifts(Number(v), n)
<1>1. n \in Nat /\ (\A k \in 1..n : v[k] \in Bit) /\ v = [i \in 1..n |-> v[i]]
    OBVIOUS
<1>2. \A k \in 0..n : r[k] = Accum(v)[n - k]
    BY ShiftsOfNumber
<1>3. /\ Accum(v) \in [0..n -> Nat]
      /\ \A k \in 1..n : Accum(v)[k] = 2 * Accum(v)[k - 1] + v[k]
    BY AccumIs
<1> HIDE DEF n, r
<1>4. \A k \in 1..n : Accum(v)[k] % 2 = v[k]
    <2> SUFFICES ASSUME NEW k \in 1..n PROVE Accum(v)[k] % 2 = v[k]
        OBVIOUS
    <2>1. Accum(v)[k - 1] \in Nat
        BY <1>1, <1>3
    <2>2. (2 * Accum(v)[k - 1] + v[k]) % 2 = v[k]
        BY <1>1, <2>1, DoubleAndHalf
    <2> QED BY <1>3, <2>2
<1>5. \A i \in 1..n : r[n - i] % 2 = v[i]
    <2> SUFFICES ASSUME NEW i \in 1..n PROVE r[n - i] % 2 = v[i]
        OBVIOUS
    <2>1. n - i \in 0..n /\ n - (n - i) = i
        BY <1>1
    <2> QED BY <1>2, <1>4, <2>1
<1>6. \A i \in 1..n : r[i - 1] % 2 = v[n + 1 - i]
    <2> SUFFICES ASSUME NEW i \in 1..n PROVE r[i - 1] % 2 = v[n + 1 - i]
        OBVIOUS
    <2>1. i - 1 \in 0..n /\ n - (i - 1) = n + 1 - i /\ n + 1 - i \in 1..n
        BY <1>1
    <2> QED BY <1>2, <1>4, <2>1
<1>7. Field(Number(v), n) = [i \in 1..n |-> r[n - i] % 2]
    BY DEF Field, r
<1>8. FieldReversed(Number(v), n) = [i \in 1..n |-> r[i - 1] % 2]
    BY DEF FieldReversed, r
<1>9. Field(Number(v), n) = v
    BY <1>1, <1>5, <1>7
<1>10. FieldReversed(Number(v), n) = [i \in 1..n |-> v[n + 1 - i]]
    BY <1>6, <1>8
<1> QED BY <1>9, <1>10 DEF n

\* A field is as many bits as it is wide.
LEMMA FieldType ==
    ASSUME NEW value \in Nat, NEW n \in Nat
    PROVE  Field(value, n) \in [1..n -> Bit]
<1>1. \A i \in 1..n : n - i \in 0..n
    OBVIOUS
<1>2. \A i \in 1..n : RightShifts(value, n)[n - i] \in Nat
    BY <1>1, RightShiftsAre
<1> QED BY <1>2, DoubleAndHalf DEF Field

--------------------------------------------------------------------------------
(* Fields *)

\* A function on 1..n is a sequence of n elements.
LEMMA SeqIs ==
    ASSUME NEW S, NEW n \in Nat, NEW f \in [1..n -> S]
    PROVE  f \in Seq(S) /\ Len(f) = n /\ DOMAIN f = 1..n
    OBVIOUS

\* The n elements of a vector behind the first rp.
Part(v, rp, n) == [i \in 1..n |-> v[rp + i]]

\* It lies within the vector.
LEMMA PartIs ==
    ASSUME NEW v \in Seq(Bit), NEW rp \in Nat, NEW n \in Nat, rp + n <= Len(v)
    PROVE  /\ Part(v, rp, n) \in Seq(Bit)
           /\ Len(Part(v, rp, n)) = n
           /\ \A i \in 1..n : rp + i \in 1..Len(v) /\ v[rp + i] \in Bit
<1>1. \A i \in 1..n : rp + i \in 1..Len(v) /\ v[rp + i] \in Bit
    OBVIOUS
<1> QED BY <1>1 DEF Part

\* peekField reads the number of the elements.
LEMMA PeekIs ==
    ASSUME NEW v \in Seq(Bit), NEW rp \in Nat, NEW n \in Nat, rp + n <= Len(v)
    PROVE  Peek(v, rp, n) = Number(Part(v, rp, n))
<1>1. \A i \in 1..n : rp + i <= Len(v) /\ v[rp + i] % 2 = v[rp + i]
    BY PartIs, DoubleAndHalf
<1>2. [i \in 1..n |-> IF rp + i <= Len(v) THEN v[rp + i] % 2 ELSE 0] = Part(v, rp, n)
    BY <1>1 DEF Part
<1> QED BY <1>2 DEF Peek

\* And the field of it is the elements again.
LEMMA FieldOfPeek ==
    ASSUME NEW v \in Seq(Bit), NEW rp \in Nat, NEW n \in Nat, rp + n <= Len(v)
    PROVE  /\ Peek(v, rp, n) \in Nat
           /\ Field(Peek(v, rp, n), n) = Part(v, rp, n)
    BY PartIs, PeekIs, FieldOfNumber, ShiftsOfNumber

\* The octet of a position, and the digit.
LEMMA Octet ==
    \A x \in Nat : /\ x \div 8 \in Nat /\ x % 8 \in 0..7 /\ x = 8 * (x \div 8) + (x % 8)
                  /\ x \div 4 \in Nat /\ x % 4 \in 0..3 /\ x = 4 * (x \div 4) + (x % 4)
    OBVIOUS

\* A field is read back at every position and of every width, and taken back from what was read.
LEMMA FieldsRead ==
    ASSUME NEW v \in Seq(Bit)
    PROVE  FieldsAgree(v)
<1> DEFINE n == Len(v)
<1>0. n \in Nat /\ (\A i \in 1..n : v[i] \in Bit) /\ v = [i \in 1..n |-> v[i]] /\ DOMAIN v = 1..n
    OBVIOUS
<1> HIDE DEF n
<1>1. Field(Peek(v, 0, n), n) = v
    <2>1. Part(v, 0, n) = v
        BY <1>0 DEF Part
    <2>2. 0 + n <= Len(v) /\ 0 \in Nat
        BY <1>0 DEF n
    <2> QED BY <1>0, <2>1, <2>2, FieldOfPeek
<1>2. FieldReversed(PeekReversed(v, 0, n), n) = v
    <2> DEFINE w == [i \in 1..n |-> v[n + 1 - i]]
    <2>1. \A i \in 1..n : n + 1 - i \in 1..n /\ n + 1 - (n + 1 - i) = i
        BY <1>0
    <2>2. w \in Seq(Bit) /\ Len(w) = n
        <3>1. \A i \in 1..n : v[n + 1 - i] \in Bit
            BY <1>0, <2>1
        <3>2. w \in [1..n -> Bit]
            BY <3>1
        <3> HIDE DEF w
        <3> QED BY <1>0, <3>2, SeqIs
    <2>3. [i \in 1..n |-> v[0 + n + 1 - i] % 2] = w
        <3>1. \A i \in 1..n : v[0 + n + 1 - i] % 2 = w[i]
            BY <1>0, <2>1, DoubleAndHalf
        <3> QED BY <3>1
    <2>4. PeekReversed(v, 0, n) = Number(w)
        BY <2>3 DEF PeekReversed
    <2>5. [i \in 1..n |-> w[n + 1 - i]] = v
        BY <1>0, <2>1
    <2> HIDE DEF w
    <2> QED BY <2>2, <2>4, <2>5, FieldOfNumber
<1>3. ASSUME NEW at \in 0..n, NEW m \in 0..MaxField, at + m <= n
      PROVE  /\ Filled(v, at, Peek(v, at, m), m) = v
             /\ \A field \in [1..m -> {0, 1}] :
                   Peek(Filled(v, at, Number(field), m), at, m) = Number(field)
    <2>0. at \in Nat /\ m \in Nat /\ at + m <= Len(v)
        BY <1>0, <1>3, VectorBitsAssumption DEF VectorBitsAssumption, n
    <2>1. Filled(v, at, Peek(v, at, m), m) = v
        <3>1. Field(Peek(v, at, m), m) = Part(v, at, m)
            BY <2>0, FieldOfPeek
        <3>2. \A i \in 1..n : i - at \in 1..m => Part(v, at, m)[i - at] = v[i]
            BY <1>0, <2>0 DEF Part
        <3> QED BY <1>0, <3>1, <3>2 DEF Filled
    <2>2. ASSUME NEW field \in [1..m -> {0, 1}]
          PROVE  Peek(Filled(v, at, Number(field), m), at, m) = Number(field)
        <3> DEFINE w == Filled(v, at, Number(field), m)
        <3>1. field \in Seq(Bit) /\ Len(field) = m
            BY <2>0 DEF Bit
        <3>2. Field(Number(field), m) = field
            BY <3>1, FieldOfNumber
        <3>3. w = [i \in 1..n |-> IF i - at \in 1..m THEN field[i - at] ELSE v[i]]
            BY <1>0, <3>2 DEF Filled
        <3> HIDE DEF w
        <3>4. w \in Seq(Bit) /\ Len(w) = n
            <4>1. \A i \in 1..n : w[i] \in Bit
                BY <1>0, <3>3 DEF Bit
            <4> QED BY <1>0, <3>3, <4>1
        <3>5. Part(w, at, m) = field
            <4>1. \A i \in 1..m : at + i \in 1..n /\ (at + i) - at = i
                BY <1>0, <1>3, <2>0
            <4>2. \A i \in 1..m : w[at + i] = field[i]
                BY <3>3, <4>1
            <4> QED BY <4>2 DEF Part
        <3>6. Peek(w, at, m) = Number(field)
            BY <1>3, <2>0, <3>4, <3>5, PeekIs
        <3> QED BY <3>6 DEF w
    <2> QED BY <2>1, <2>2
<1>4. LSB8MSB(LSB8MSB(v)) = v
    <2> DEFINE w == LSB8MSB(v)
    <2>1. w = [i \in 1..n |-> IF 8 * ((i - 1) \div 8) + 8 <= n
                               THEN v[8 * ((i - 1) \div 8) + 8 - ((i - 1) % 8)] ELSE v[i]]
        BY <1>0 DEF LSB8MSB, n
    <2>2. DOMAIN w = 1..n /\ Len(w) = n
        BY <1>0, <2>1
    <2> HIDE DEF w
    <2>3. LSB8MSB(w) = [i \in 1..n |-> IF 8 * ((i - 1) \div 8) + 8 <= n
                                        THEN w[8 * ((i - 1) \div 8) + 8 - ((i - 1) % 8)] ELSE w[i]]
        BY <2>2 DEF LSB8MSB
    <2>4. \A i \in 1..n : (IF 8 * ((i - 1) \div 8) + 8 <= n
                           THEN w[8 * ((i - 1) \div 8) + 8 - ((i - 1) % 8)] ELSE w[i]) = v[i]
        <3> SUFFICES ASSUME NEW i \in 1..n
                     PROVE  (IF 8 * ((i - 1) \div 8) + 8 <= n
                             THEN w[8 * ((i - 1) \div 8) + 8 - ((i - 1) % 8)] ELSE w[i]) = v[i]
            OBVIOUS
        <3> DEFINE o == (i - 1) \div 8
                   j == 8 * o + 8 - ((i - 1) % 8)
        <3>1. o \in Nat /\ (i - 1) % 8 \in 0..7 /\ i - 1 = 8 * o + ((i - 1) % 8)
            <4>1. i - 1 \in Nat
                OBVIOUS
            <4> QED BY <4>1, Octet
        <3>2. (j - 1) \div 8 = o /\ (j - 1) % 8 = 7 - ((i - 1) % 8)
            BY <3>1
        <3>3. 8 * o + 8 <= n => j \in 1..n
            <4> HIDE DEF o
            <4> QED BY <1>0, <3>1 DEF j
        <3>4. 8 * o + 8 - (7 - ((i - 1) % 8)) = i
            BY <3>1
        <3> QED BY <2>1, <3>2, <3>3, <3>4
    <2> QED BY <1>0, <2>3, <2>4 DEF w
<1>5. Bits(Inverted(v)) = [i \in 1..n |-> 1 - v[i]]
    <2>1. \A b \in Bit : (-1 - b) % 2 = 1 - b
        BY DEF Bit
    <2>2. Inverted(v) = [i \in 1..n |-> -1 - v[i]]
        BY <1>0 DEF Inverted
    <2>3. Bits(Inverted(v)) = [i \in 1..n |-> (-1 - v[i]) % 2]
        BY <2>2 DEF Bits
    <2> QED BY <1>0, <2>1, <2>3
<1>6. Inverted(Inverted(v)) = v
    <2>1. Inverted(v) = [i \in 1..n |-> -1 - v[i]]
        BY <1>0 DEF Inverted
    <2>2. Inverted(Inverted(v)) = [i \in 1..n |-> -1 - (-1 - v[i])]
        BY <2>1 DEF Inverted
    <2>3. \A i \in 1..n : -1 - (-1 - v[i]) = v[i]
        BY <1>0 DEF Bit
    <2> QED BY <1>0, <2>2, <2>3
<1> QED BY <1>0, <1>1, <1>2, <1>3, <1>4, <1>5, <1>6 DEF FieldsAgree, n

--------------------------------------------------------------------------------
(* Octets, hex digits and maps *)

\* Shifting to the right takes back a shift to the left.
LEMMA ShiftsBack ==
    ASSUME NEW value \in Nat, NEW n \in Nat
    PROVE  /\ LeftShifts(value, n)[n] \in Nat
           /\ RightShifts(LeftShifts(value, n)[n], n)[n] = value
<1> DEFINE l == LeftShifts(value, n)
           r == RightShifts(l[n], n)
           P == {k \in 0..n : r[k] = l[n - k]}
<1>1. l \in [0..n -> Nat] /\ l[0] = value /\ \A k \in 1..n : l[k] = 2 * l[k - 1]
    BY LeftShiftsAre
<1> HIDE DEF l
<1>2. l[n] \in Nat
    BY <1>1
<1>3. r[0] = l[n] /\ \A k \in 1..n : r[k] = r[k - 1] \div 2
    BY <1>2, RightShiftsAre
<1> HIDE DEF r
<1>4. \A k \in 0..n : k \in P
    <2>1. 0 \in P
        BY <1>3
    <2>2. \A k \in 0..(n - 1) : k \in P => k + 1 \in P
        <3> SUFFICES ASSUME NEW k \in 0..(n - 1), r[k] = l[n - k]
                     PROVE  k + 1 \in 0..n /\ r[k + 1] = l[n - (k + 1)]
            OBVIOUS
        <3>1. k + 1 \in 1..n /\ n - k \in 1..n /\ (n - k) - 1 = n - (k + 1) /\ n - (k + 1) \in 0..n
              /\ (k + 1) - 1 = k
            OBVIOUS
        <3>2. r[k + 1] = l[n - k] \div 2
            BY <1>3, <3>1
        <3>3. l[n - k] = 2 * l[n - (k + 1)] /\ l[n - (k + 1)] \in Nat
            BY <1>1, <3>1
        <3>4. (2 * l[n - (k + 1)]) \div 2 = l[n - (k + 1)]
            BY <3>3, DoubleAndHalf
        <3> QED BY <3>1, <3>2, <3>3, <3>4
    <2> HIDE DEF P
    <2> QED BY <2>1, <2>2, UpTo
<1>5. r[n] = l[0]
    BY <1>4
<1> QED BY <1>1, <1>2, <1>5 DEF l, r

\* The number of the octets, and of the digits, of a vector.
LEMMA CeilIs ==
    /\ \A q \in Nat, r \in 0..7 : (8 * q + r + 8 - 1) \div 8 = IF r = 0 THEN q ELSE q + 1
    /\ \A q \in Nat, r \in 0..3 : (4 * q + r + 4 - 1) \div 4 = IF r = 0 THEN q ELSE q + 1
    OBVIOUS

\* The octet of a position is a whole one, or the one that is over; the digit is a whole one.
LEMMA PlaceIs ==
    /\ \A n, q, o \in Nat, r, k \in 0..7 :
          n = 8 * q + r /\ 8 * o + k < n =>
              IF 8 * o + 8 <= n THEN o + 1 \in 1..q ELSE r # 0 /\ o = q /\ k < r
    /\ \A n, q, o \in Nat, k \in 0..3 :
          n = 4 * q /\ 4 * o + k < n => 4 * o + 4 <= n /\ o + 1 \in 1..q
    OBVIOUS

\* What is in the octets and the digits of a vector.
LEMMA OctetsRead ==
    ASSUME NEW v \in Seq(Bit)
    PROVE  OctetsAgree(v)
<1> DEFINE n == Len(v)
           rem == n % 8
           q == n \div 8
           q4 == n \div 4
           r4 == n % 4
<1>0. n \in Nat /\ (\A i \in 1..n : v[i] \in Bit) /\ v = [i \in 1..n |-> v[i]] /\ DOMAIN v = 1..n
    OBVIOUS
<1>1. /\ q \in Nat /\ rem \in 0..7 /\ n = 8 * q + rem
      /\ q4 \in Nat /\ r4 \in 0..3 /\ n = 4 * q4 + r4
    BY <1>0, Octet
<1>2. \A i \in 1..n : LET x == i - 1 IN
          /\ x \in 0..(n - 1)
          /\ x \div 8 \in Nat /\ x % 8 \in 0..7 /\ x = 8 * (x \div 8) + (x % 8)
          /\ x \div 4 \in Nat /\ x % 4 \in 0..3 /\ x = 4 * (x \div 4) + (x % 4)
    <2> SUFFICES ASSUME NEW i \in 1..n
                 PROVE  LET x == i - 1 IN
                        /\ x \in 0..(n - 1)
                        /\ x \div 8 \in Nat /\ x % 8 \in 0..7 /\ x = 8 * (x \div 8) + (x % 8)
                        /\ x \div 4 \in Nat /\ x % 4 \in 0..3 /\ x = 4 * (x \div 4) + (x % 4)
        OBVIOUS
    <2>1. i - 1 \in 0..(n - 1) /\ i - 1 \in Nat
        BY <1>0
    <2> QED BY <2>1, Octet
<1> HIDE DEF n, rem, q, q4, r4
<1>5. Ceil(n, 8) = IF rem = 0 THEN q ELSE q + 1
    <2>1. (8 * q + rem + 8 - 1) \div 8 = IF rem = 0 THEN q ELSE q + 1
        BY <1>1, CeilIs
    <2> QED BY <1>1, <2>1 DEF Ceil
<1>6. Ceil(n, 4) = IF r4 = 0 THEN q4 ELSE q4 + 1
    <2>1. (4 * q4 + r4 + 4 - 1) \div 4 = IF r4 = 0 THEN q4 ELSE q4 + 1
        BY <1>1, CeilIs
    <2> QED BY <1>1, <2>1 DEF Ceil
<1>3. Unpacked8(Packed8(v), n) = v
    <2> DEFINE p == Packed8(v)
    <2>1. \A i \in 1..Ceil(n, 8) : p[i] = IF 8 * i <= n THEN Peek(v, 8 * (i - 1), 8)
                                          ELSE LeftShifts(Peek(v, 8 * (i - 1), rem), 8 - rem)[8 - rem]
        BY DEF Packed8, n, rem
    <2> HIDE DEF p
    <2>2. \A i \in 1..n : LET o == (i - 1) \div 8
                              k == (i - 1) % 8
                          IN  (IF 8 * o + 8 <= n THEN Field(p[o + 1], 8)[k + 1]
                               ELSE Field(RightShifts(p[o + 1], 8 - rem)[8 - rem], rem)[k + 1]) = v[i]
        <3> SUFFICES ASSUME NEW i \in 1..n
                     PROVE  LET o == (i - 1) \div 8
                                k == (i - 1) % 8
                            IN  (IF 8 * o + 8 <= n THEN Field(p[o + 1], 8)[k + 1]
                                 ELSE Field(RightShifts(p[o + 1], 8 - rem)[8 - rem], rem)[k + 1]) = v[i]
            OBVIOUS
        <3> DEFINE o == (i - 1) \div 8
                   k == (i - 1) % 8
        <3>1. o \in Nat /\ k \in 0..7 /\ i - 1 = 8 * o + k /\ i - 1 \in 0..(n - 1)
            BY <1>2
        <3> HIDE DEF o, k
        <3>2. IF 8 * o + 8 <= n THEN o + 1 \in 1..q ELSE rem # 0 /\ o = q /\ k < rem
            <4>1. 8 * o + k < n
                BY <1>0, <3>1
            <4> QED BY <1>0, <1>1, <3>1, <4>1, PlaceIs
        <3>3. CASE 8 * o + 8 <= n
            <4>1. o + 1 \in 1..Ceil(n, 8) /\ 8 * (o + 1) <= n /\ (o + 1) - 1 = o
                <5>1. o + 1 \in 1..q
                    BY <3>2, <3>3
                <5> QED BY <1>1, <1>5, <3>1, <3>3, <5>1
            <4>2. p[o + 1] = Peek(v, 8 * o, 8)
                BY <2>1, <4>1
            <4>3. 8 * o \in Nat /\ 8 * o + 8 <= Len(v) /\ 8 \in Nat
                BY <3>1, <3>3 DEF n
            <4>4. Field(p[o + 1], 8) = Part(v, 8 * o, 8)
                BY <4>2, <4>3, FieldOfPeek
            <4>5. Part(v, 8 * o, 8)[k + 1] = v[i]
                <5>1. k + 1 \in 1..8 /\ 8 * o + (k + 1) = i
                    BY <3>1
                <5> QED BY <5>1 DEF Part
            <4> QED BY <3>3, <4>4, <4>5 DEF o, k
        <3>4. CASE ~(8 * o + 8 <= n)
            <4>1. o + 1 \in 1..Ceil(n, 8) /\ ~(8 * (o + 1) <= n) /\ (o + 1) - 1 = o
                  /\ 8 * o + rem = n /\ k < rem
                <5>1. rem # 0 /\ o = q /\ k < rem
                    BY <3>2, <3>4
                <5>2. Ceil(n, 8) = q + 1 /\ n = 8 * o + rem
                    BY <1>1, <1>5, <5>1
                <5> QED BY <1>1, <3>1, <3>4, <5>1, <5>2
            <4>2. p[o + 1] = LeftShifts(Peek(v, 8 * o, rem), 8 - rem)[8 - rem]
                BY <2>1, <4>1
            <4>3. 8 * o \in Nat /\ 8 * o + rem <= Len(v) /\ rem \in Nat /\ 8 - rem \in Nat
                <5>1. n = Len(v)
                    BY DEF n
                <5> QED BY <1>1, <3>1, <4>1, <5>1
            <4>4. Peek(v, 8 * o, rem) \in Nat /\ Field(Peek(v, 8 * o, rem), rem) = Part(v, 8 * o, rem)
                BY <4>3, FieldOfPeek
            <4>5. RightShifts(p[o + 1], 8 - rem)[8 - rem] = Peek(v, 8 * o, rem)
                BY <4>2, <4>3, <4>4, ShiftsBack
            <4>6. Part(v, 8 * o, rem)[k + 1] = v[i]
                <5>1. k + 1 \in 1..rem /\ 8 * o + (k + 1) = i
                    BY <1>1, <3>1, <4>1
                <5> QED BY <5>1 DEF Part
            <4> QED BY <3>4, <4>4, <4>5, <4>6 DEF o, k
        <3> QED BY <3>3, <3>4
    <2>3. Unpacked8(p, n) = [i \in 1..n |-> LET o == (i - 1) \div 8
                              k == (i - 1) % 8
                          IN  IF 8 * o + 8 <= n THEN Field(p[o + 1], 8)[k + 1]
                               ELSE Field(RightShifts(p[o + 1], 8 - rem)[8 - rem], rem)[k + 1]]
        BY DEF Unpacked8, rem
    <2> QED BY <1>0, <2>2, <2>3 DEF p
<1>4. Unhex(Hex(v), n) = IF r4 = 0 THEN v ELSE Unread
    <2> DEFINE h == Hex(v)
    <2>1. h = [i \in 1..q4 |-> Peek(v, 4 * (i - 1), 4)]
        BY DEF Hex, n, q4
    <2>2. Len(h) = q4
        BY <1>1, <2>1
    <2> HIDE DEF h
    <2>4. CASE r4 # 0
        <3>1. Len(h) < Ceil(n, 4)
            BY <1>1, <1>6, <2>2, <2>4
        <3> QED BY <2>4, <3>1 DEF Unhex, h
    <2>5. CASE r4 = 0
        <3>1. ~(Len(h) < Ceil(n, 4))
            BY <1>1, <1>6, <2>2, <2>5
        <3>2. \A i \in 1..n : LET o == (i - 1) \div 4
                                  k == (i - 1) % 4
                              IN  Field(h[o + 1], IF 4 * o + 4 <= n THEN 4 ELSE r4)[k + 1] = v[i]
            <4> SUFFICES ASSUME NEW i \in 1..n
                         PROVE  LET o == (i - 1) \div 4
                                    k == (i - 1) % 4
                                IN  Field(h[o + 1], IF 4 * o + 4 <= n THEN 4 ELSE r4)[k + 1] = v[i]
                OBVIOUS
            <4> DEFINE o == (i - 1) \div 4
                       k == (i - 1) % 4
            <4>1. o \in Nat /\ k \in 0..3 /\ i - 1 = 4 * o + k /\ i - 1 \in 0..(n - 1)
                BY <1>2
            <4> HIDE DEF o, k
            <4>2. 4 * o + 4 <= n /\ o + 1 \in 1..(q4) /\ (o + 1) - 1 = o
                <5>1. n = 4 * q4 /\ 4 * o + k < n
                    BY <1>0, <1>1, <2>5, <4>1
                <5>2. 4 * o + 4 <= n /\ o + 1 \in 1..q4
                    BY <1>0, <1>1, <4>1, <5>1, PlaceIs
                <5> QED BY <4>1, <5>2
            <4>3. h[o + 1] = Peek(v, 4 * o, 4)
                BY <2>1, <4>2
            <4>4. 4 * o \in Nat /\ 4 * o + 4 <= Len(v) /\ 4 \in Nat
                BY <4>1, <4>2 DEF n
            <4>5. Field(h[o + 1], 4) = Part(v, 4 * o, 4)
                BY <4>3, <4>4, FieldOfPeek
            <4>6. Part(v, 4 * o, 4)[k + 1] = v[i]
                <5>1. k + 1 \in 1..4 /\ 4 * o + (k + 1) = i
                    BY <4>1
                <5> QED BY <5>1 DEF Part
            <4> QED BY <4>2, <4>5, <4>6 DEF o, k
        <3>3. Unhex(h, n) = [i \in 1..n |-> LET o == (i - 1) \div 4
                                  k == (i - 1) % 4
                              IN  Field(h[o + 1], IF 4 * o + 4 <= n THEN 4 ELSE r4)[k + 1]]
            BY <3>1 DEF Unhex, r4
        <3> QED BY <1>0, <2>5, <3>2, <3>3 DEF h
    <2> QED BY <2>4, <2>5
<1> QED BY <1>3, <1>4 DEF OctetsAgree, n, r4

\* What a vector is permuted to is permuted back.
LEMMA MapsRead ==
    ASSUME NEW v \in Seq(Bit)
    PROVE  MapsAgree(v)
<1> SUFFICES ASSUME NEW map \in Maps, Len(map) = Len(v)
             PROVE  Unmapped(Mapped(v, map), map) = v
    BY DEF MapsAgree
<1> DEFINE n == Len(v)
           Is(i, j) == map[i] + 1 = j
           w == Mapped(v, map)
<1>1. /\ map \in Seq(Nat)
      /\ \A i \in DOMAIN map : map[i] < Len(map)
      /\ \A j \in DOMAIN map : \E i \in DOMAIN map : map[i] + 1 = j
      /\ \A i, j \in DOMAIN map : map[i] = map[j] => i = j
    BY VectorBitsAssumption DEF VectorBitsAssumption
<1>2. n \in Nat /\ DOMAIN map = 1..n /\ v = [j \in 1..n |-> v[j]]
    BY <1>1
<1>3. w = [i \in 1..n |-> v[map[i] + 1]]
    BY <1>2 DEF Mapped
<1> HIDE DEF w
<1>4. \A j \in 1..n : w[CHOOSE i \in 1..n : map[i] + 1 = j] = v[j]
    <2> SUFFICES ASSUME NEW j \in 1..n PROVE w[CHOOSE i \in 1..n : map[i] + 1 = j] = v[j]
        OBVIOUS
    <2>1. \E i \in 1..n : map[i] + 1 = j
        BY <1>1, <1>2
    <2> DEFINE c == CHOOSE i \in 1..n : map[i] + 1 = j
    <2>2. c \in 1..n /\ map[c] + 1 = j
        BY <2>1
    <2> HIDE DEF c
    <2>3. w[c] = v[j]
        BY <1>3, <2>2
    <2> QED BY <2>3 DEF c
<1>5. Unmapped(w, map) = [j \in 1..n |-> w[CHOOSE i \in 1..n : map[i] + 1 = j]]
    BY <1>2 DEF Unmapped
<1> HIDE DEF n
<1>6. Unmapped(w, map) = v
    BY <1>2, <1>4, <1>5
<1> QED BY <1>6 DEF w

--------------------------------------------------------------------------------
(* Puncturing *)

\* The positions that are left out before each one.
Left(P, n) == [k \in 0..n |-> Cardinality({p \in P : p < k})]

\* How many they are grows by one at each of them.
LEMMA LeftIs ==
    ASSUME NEW n \in Nat, NEW P \in SUBSET (0..(n - 1))
    PROVE  /\ Left(P, n)[0] = 0
           /\ \A k \in 0..n : Left(P, n)[k] \in Nat
           /\ \A k \in 0..(n - 1) : Left(P, n)[k + 1] = IF k \in P THEN Left(P, n)[k] + 1 ELSE Left(P, n)[k]
<1>0. \A p \in P : p \in 0..(n - 1) /\ p \in Int
    OBVIOUS
<1>1. IsFiniteSet(P)
    <2>1. 0 \in Int /\ n - 1 \in Int
        OBVIOUS
    <2>2. IsFiniteSet(0..(n - 1))
        BY <2>1, FS_Interval
    <2>3. P \subseteq 0..(n - 1)
        OBVIOUS
    <2> QED BY <2>2, <2>3, FS_Subset, Zenon
<1>2. \A k \in 0..n : IsFiniteSet({p \in P : p < k})
    <2> SUFFICES ASSUME NEW k \in 0..n PROVE IsFiniteSet({p \in P : p < k})
        OBVIOUS
    <2>1. {p \in P : p < k} \subseteq P
        OBVIOUS
    <2> QED BY <1>1, <2>1, FS_Subset
<1>3. \A k \in 0..n : Left(P, n)[k] \in Nat
    BY <1>2, FS_CardinalityType DEF Left
<1>4. Left(P, n)[0] = 0
    <2>0. \A p \in P : ~(p < 0)
        BY <1>0
    <2>1. {p \in P : p < 0} = {}
        BY <2>0
    <2> QED BY <2>1, FS_EmptySet DEF Left
<1>5. ASSUME NEW k \in 0..(n - 1)
      PROVE  Left(P, n)[k + 1] = IF k \in P THEN Left(P, n)[k] + 1 ELSE Left(P, n)[k]
    <2> DEFINE A == {p \in P : p < k}
               B == {p \in P : p < k + 1}
    <2>1. k \in 0..n /\ k + 1 \in 0..n
        OBVIOUS
    <2>2. Left(P, n)[k] = Cardinality(A) /\ Left(P, n)[k + 1] = Cardinality(B)
        BY <2>1 DEF Left
    <2>6. \A p \in P : (p < k + 1 <=> p < k \/ p = k) /\ (p = k => ~(p < k))
        BY <1>0
    <2>3. IsFiniteSet(A)
        BY <1>2, <2>1
    <2>4. CASE k \in P
        <3>1. B = A \cup {k} /\ k \notin A
            BY <2>6, <2>4
        <3>2. Cardinality(A \cup {k}) = Cardinality(A) + 1
            <4> HIDE DEF A, B
            <4> QED BY <2>3, <3>1, FS_AddElement
        <3> HIDE DEF A, B
        <3> QED BY <2>2, <2>4, <3>1, <3>2
    <2>5. CASE k \notin P
        <3>1. B = A
            BY <2>6, <2>5
        <3> HIDE DEF A, B
        <3> QED BY <2>2, <2>5, <3>1
    <2> QED BY <2>4, <2>5
<1> QED BY <1>3, <1>4, <1>5

\* What copyPunctured has kept after each element.
LEMMA KeptAre ==
    ASSUME NEW v \in Seq(Bit), NEW P
    PROVE  \E f \in [0..Len(v) -> Seq(Bit)] :
              /\ f[0] = << >>
              /\ \A k \in 1..Len(v) : f[k] = IF k - 1 \in P THEN f[k - 1] ELSE Append(f[k - 1], v[k])
              /\ Punctured(v, P) = f[Len(v)]
<1> DEFINE n == Len(v)
           S == Seq(Bit)
           T == [k \in 1..n |-> [x \in S |-> IF k - 1 \in P THEN x ELSE Append(x, v[k])]]
<1>0. n \in Nat /\ \A k \in 1..n : v[k] \in Bit
    OBVIOUS
<1>1. T \in [1..n -> [S -> S]]
    <2> SUFFICES ASSUME NEW k \in 1..n, NEW x \in S
                 PROVE  (IF k - 1 \in P THEN x ELSE Append(x, v[k])) \in S
        OBVIOUS
    <2>1. v[k] \in Bit
        BY <1>0
    <2> QED BY <2>1
<1> HIDE DEF n
<1>2. PICK f \in [0..n -> S] : f[0] = << >> /\ \A k \in 1..n : f[k] = T[k][f[k - 1]]
    <2>1. << >> \in S
        OBVIOUS
    <2> HIDE DEF S, T
    <2>2. Recursive(S, n, << >>, T)
        BY <1>0, <1>1, <2>1, Recursion
    <2> QED BY <2>2 DEF Recursive
<1>3. \A k \in 1..n : f[k] = IF k - 1 \in P THEN f[k - 1] ELSE Append(f[k - 1], v[k])
    <2> SUFFICES ASSUME NEW k \in 1..n
                 PROVE  f[k] = IF k - 1 \in P THEN f[k - 1] ELSE Append(f[k - 1], v[k])
        OBVIOUS
    <2>1. f[k - 1] \in S
        BY <1>0, <1>2
    <2>2. T[k] = [x \in S |-> IF k - 1 \in P THEN x ELSE Append(x, v[k])]
        OBVIOUS
    <2> HIDE DEF T, S
    <2> QED BY <1>2, <2>1, <2>2
<1> DEFINE kept[m \in 0..n] ==
              IF m = 0 THEN << >>
              ELSE IF m - 1 \in P THEN kept[m - 1] ELSE Append(kept[m - 1], v[m])
<1>4. f = [m \in 0..n |-> IF m = 0 THEN << >>
                          ELSE IF m - 1 \in P THEN f[m - 1] ELSE Append(f[m - 1], v[m])]
    <2>1. \A m \in 0..n : f[m] = IF m = 0 THEN << >>
                          ELSE IF m - 1 \in P THEN f[m - 1] ELSE Append(f[m - 1], v[m])
        <3> HIDE DEF T, S
        <3>1. \A m \in 0..n : m = 0 \/ m \in 1..n
            BY <1>0
        <3>2. \A m \in 1..n : m # 0
            BY <1>0
        <3> QED BY <1>2, <1>3, <3>1, <3>2
    <2> HIDE DEF T, S
    <2> QED BY <1>2, <2>1
<1>5. kept = [m \in 0..n |-> IF m = 0 THEN << >>
                          ELSE IF m - 1 \in P THEN kept[m - 1] ELSE Append(kept[m - 1], v[m])]
    <2> HIDE DEF T, S
    <2> QED BY <1>4 DEF kept
<1>6. Punctured(v, P) = kept[n]
    BY DEF Punctured, n
<1> HIDE DEF kept, T
<1> DEFINE Q == {k \in 0..n : kept[k] = f[k]}
<1>7. \A k \in 0..n : k \in Q
    <2>1. 0 \in Q
        BY <1>0, <1>2, <1>5
    <2>2. \A k \in 0..(n - 1) : k \in Q => k + 1 \in Q
        <3> SUFFICES ASSUME NEW k \in 0..(n - 1), kept[k] = f[k] PROVE k + 1 \in 0..n /\ kept[k + 1] = f[k + 1]
            OBVIOUS
        <3>1. k + 1 \in 1..n /\ (k + 1) - 1 = k /\ k + 1 \in 0..n /\ k + 1 # 0
            BY <1>0
        <3>2. kept[k + 1] = IF k \in P THEN kept[k] ELSE Append(kept[k], v[k + 1])
            BY <1>5, <3>1
        <3>3. f[k + 1] = IF k \in P THEN f[k] ELSE Append(f[k], v[k + 1])
            BY <1>3, <3>1
        <3> QED BY <3>1, <3>2, <3>3
    <2> HIDE DEF Q
    <2> QED BY <1>0, <2>1, <2>2, UpTo
<1>8. Punctured(v, P) = f[n]
    BY <1>0, <1>6, <1>7
<1> QED BY <1>2, <1>3, <1>8 DEF n

\* What is punctured is put back, with one half where an element was left out.
LEMMA PuncturesRead ==
    ASSUME NEW v \in Seq(Bit)
    PROVE  PuncturesAgree(v)
<1> DEFINE n == Len(v)
<1>0. n \in Nat /\ (\A i \in 1..n : v[i] \in Bit) /\ DOMAIN v = 1..n
    OBVIOUS
<1> SUFFICES ASSUME NEW P \in SUBSET {i - 1 : i \in 1..n}
             PROVE  Sliced(Unpunctured(Soft(Punctured(v, P)), P, n))
                       = [i \in 1..n |-> IF i - 1 \in P THEN 0 ELSE v[i]]
    BY <1>0 DEF PuncturesAgree
<1>1. P \in SUBSET (0..(n - 1))
    BY <1>0
<1> DEFINE c == Left(P, n)
<1>2. PICK f \in [0..n -> Seq(Bit)] :
              /\ f[0] = << >>
              /\ \A k \in 1..n : f[k] = IF k - 1 \in P THEN f[k - 1] ELSE Append(f[k - 1], v[k])
              /\ Punctured(v, P) = f[n]
    BY KeptAre
<1> HIDE DEF n
<1>3. c[0] = 0 /\ (\A k \in 0..n : c[k] \in Nat)
      /\ \A k \in 0..(n - 1) : c[k + 1] = IF k \in P THEN c[k] + 1 ELSE c[k]
    BY <1>0, <1>1, LeftIs
<1> DEFINE Q == {k \in 0..n : /\ Len(f[k]) = k - c[k]
                              /\ \A i \in 1..k : i - 1 \notin P =>
                                    i - c[i] \in 1..Len(f[k]) /\ f[k][i - c[i]] = v[i]}
<1>4. \A k \in 0..n : k \in Q
    <2> HIDE DEF c
    <2>1. 0 \in Q
        BY <1>0, <1>2, <1>3
    <2>2. \A k \in 0..(n - 1) : k \in Q => k + 1 \in Q
        <3> SUFFICES ASSUME NEW k \in 0..(n - 1), k \in Q PROVE k + 1 \in Q
            OBVIOUS
        <3>1. k + 1 \in 1..n /\ (k + 1) - 1 = k /\ k + 1 \in 0..n /\ k + 1 # 0 /\ k \in 0..n
            <4> HIDE DEF Q
            <4> QED BY <1>0
        <3>2. f[k + 1] = IF k \in P THEN f[k] ELSE Append(f[k], v[k + 1])
            BY <1>2, <3>1
        <3>3. f[k] \in Seq(Bit) /\ v[k + 1] \in Bit /\ c[k] \in Nat /\ c[k + 1] \in Nat
            BY <1>0, <1>2, <1>3, <3>1
        <3>4. Len(f[k]) = k - c[k] /\ \A i \in 1..k : i - 1 \notin P =>
                                    i - c[i] \in 1..Len(f[k]) /\ f[k][i - c[i]] = v[i]
            OBVIOUS
        <3>5. c[k + 1] = IF k \in P THEN c[k] + 1 ELSE c[k]
            BY <1>3
        <3>6. CASE k \in P
            <4>1. f[k + 1] = f[k] /\ c[k + 1] = c[k] + 1
                BY <3>2, <3>5, <3>6
            <4>2. Len(f[k + 1]) = (k + 1) - c[k + 1]
                BY <3>3, <3>4, <4>1
            <4>3. \A i \in 1..(k + 1) : i - 1 \notin P => i \in 1..k
                BY <3>6
            <4> QED BY <3>1, <3>4, <4>1, <4>2, <4>3
        <3>7. CASE k \notin P
            <4>1. f[k + 1] = Append(f[k], v[k + 1]) /\ c[k + 1] = c[k]
                BY <3>2, <3>5, <3>7
            <4>2. Len(f[k + 1]) = Len(f[k]) + 1 /\ f[k + 1][Len(f[k]) + 1] = v[k + 1]
                  /\ \A j \in 1..Len(f[k]) : f[k + 1][j] = f[k][j]
                BY <3>3, <4>1
            <4>3. Len(f[k + 1]) = (k + 1) - c[k + 1]
                BY <3>3, <3>4, <4>1, <4>2
            <4>4. \A i \in 1..(k + 1) : i - 1 \notin P =>
                      i - c[i] \in 1..Len(f[k + 1]) /\ f[k + 1][i - c[i]] = v[i]
                <5> SUFFICES ASSUME NEW i \in 1..(k + 1), i - 1 \notin P
                             PROVE  i - c[i] \in 1..Len(f[k + 1]) /\ f[k + 1][i - c[i]] = v[i]
                    OBVIOUS
                <5>0. Len(f[k]) \in Nat
                    BY <3>3
                <5>1. CASE i = k + 1
                    <6>1. i - c[i] = Len(f[k]) + 1
                        BY <3>3, <3>4, <4>1, <5>1
                    <6> QED BY <4>2, <5>0, <5>1, <6>1
                <5>2. CASE i # k + 1
                    <6>1. i \in 1..k
                        BY <5>2
                    <6>2. i - c[i] \in 1..Len(f[k]) /\ f[k][i - c[i]] = v[i]
                        BY <3>4, <6>1
                    <6> QED BY <4>2, <5>0, <6>2
                <5> QED BY <5>1, <5>2
            <4> QED BY <3>1, <4>3, <4>4
        <3> QED BY <3>6, <3>7
    <2> HIDE DEF Q
    <2> QED BY <1>0, <2>1, <2>2, UpTo
<1> DEFINE s == Soft(f[n])
           u == Unpunctured(s, P, n)
<1>5. f[n] \in Seq(Bit) /\ n \in 0..n /\ DOMAIN f[n] = 1..Len(f[n])
    BY <1>0, <1>2
<1>6. \A i \in 1..n : i - 1 \notin P => i - c[i] \in 1..Len(f[n]) /\ f[n][i - c[i]] = v[i]
    BY <1>4, <1>5
<1>7. \A j \in 1..Len(f[n]) : s[j] = IF f[n][j] % 2 = 1 THEN 100 ELSE 0
    BY <1>5 DEF Soft
<1>8. \A i \in 1..n : i - 1 \notin P => s[i - c[i]] = IF v[i] = 1 THEN 100 ELSE 0
    <2> SUFFICES ASSUME NEW i \in 1..n, i - 1 \notin P
                 PROVE  s[i - c[i]] = IF v[i] = 1 THEN 100 ELSE 0
        OBVIOUS
    <2>1. i - c[i] \in 1..Len(f[n]) /\ f[n][i - c[i]] = v[i]
        BY <1>6
    <2>2. v[i] % 2 = v[i]
        BY <1>0, DoubleAndHalf
    <2> HIDE DEF c, s
    <2> QED BY <1>7, <2>1, <2>2
<1>9. u = [i \in 1..n |-> IF i - 1 \in P THEN 50 ELSE s[i - c[i]]]
    <2>1. \A i \in 1..n : c[i] = Cardinality({p \in P : p < i})
        BY <1>0 DEF Left
    <2> HIDE DEF c, s
    <2> QED BY <2>1 DEF Unpunctured
<1> HIDE DEF c, s, u
<1>10. Sliced(u) = [i \in 1..n |-> IF u[i] > 50 THEN 1 ELSE 0]
    BY <1>9 DEF Sliced
<1>11. \A i \in 1..n : (IF u[i] > 50 THEN 1 ELSE 0) = IF i - 1 \in P THEN 0 ELSE v[i]
    BY <1>0, <1>8, <1>9 DEF Bit
<1>12. Sliced(u) = [i \in 1..n |-> IF i - 1 \in P THEN 0 ELSE v[i]]
    BY <1>10, <1>11
<1> QED BY <1>2, <1>12 DEF u, s

--------------------------------------------------------------------------------
(* Parity: the shift registers, one step *)

\* The states of a shift register with the coefficients g, whose last one is 1.
Generator(g) == g \in Seq(Bit) /\ g # << >> /\ g[Len(g)] = 1
States(g) == [1..Len(g) -> Bit]
Zero(g) == [i \in 1..Len(g) |-> 0]

\* The facts about it that the proofs use.
LEMMA GeneratorIs ==
    ASSUME NEW g, Generator(g)
    PROVE  /\ Len(g) \in Nat \ {0} /\ g \in States(g) /\ g[Len(g)] = 1
           /\ DOMAIN g = 1..Len(g)
           /\ Zero(g) \in States(g) /\ Zeros(Len(g)) = Zero(g)
           /\ \A n \in Nat : Zeros(n) \in Seq(Bit) /\ Len(Zeros(n)) = n /\ \A i \in 1..n : Zeros(n)[i] = 0
<1>1. Len(g) \in Nat \ {0} /\ g \in States(g) /\ g[Len(g)] = 1 /\ DOMAIN g = 1..Len(g)
    BY DEF Generator, States
<1>2. Zero(g) \in States(g) /\ Zeros(Len(g)) = Zero(g)
    BY DEF Zero, Zeros, States, Bit
<1>3. ASSUME NEW n \in Nat
      PROVE  Zeros(n) \in Seq(Bit) /\ Len(Zeros(n)) = n /\ \A i \in 1..n : Zeros(n)[i] = 0
    <2>1. Zeros(n) \in [1..n -> Bit] /\ \A i \in 1..n : Zeros(n)[i] = 0
        BY DEF Zeros, Bit
    <2> QED BY <2>1, SeqIs
<1> QED BY <1>1, <1>2, <1>3

\* Sums of bits.
LEMMA BitSums ==
    /\ \A a, b \in Bit : (a + b) % 2 \in Bit /\ (a + b) % 2 = (b + a) % 2
    /\ \A a \in Bit : (a + a) % 2 = 0 /\ (a + 0) % 2 = a /\ (0 + a) % 2 = a
                      /\ (a + (1 - a)) % 2 = 1 /\ 1 - a \in Bit
    /\ \A a, b, c, d \in Bit : (((a + b) % 2) + ((c + d) % 2)) % 2 = (((a + c) % 2) + ((b + d) % 2)) % 2
    BY DEF Bit

\* The sum of two states.
LEMMA XorIs ==
    ASSUME NEW n \in Nat, NEW s \in [1..n -> Bit], NEW t \in [1..n -> Bit]
    PROVE  /\ Xor(s, t) = [i \in 1..n |-> (s[i] + t[i]) % 2]
           /\ Xor(s, t) \in [1..n -> Bit]
           /\ Xor(s, t) = Xor(t, s)
           /\ Xor(s, s) = [i \in 1..n |-> 0]
           /\ Xor([i \in 1..n |-> 0], s) = s
           /\ Xor(s, [i \in 1..n |-> 0]) = s
<1>1. /\ Xor(s, t) = [i \in 1..n |-> (s[i] + t[i]) % 2]
      /\ Xor(t, s) = [i \in 1..n |-> (t[i] + s[i]) % 2]
      /\ Xor(s, s) = [i \in 1..n |-> (s[i] + s[i]) % 2]
      /\ Xor([i \in 1..n |-> 0], s) = [i \in 1..n |-> (0 + s[i]) % 2]
      /\ Xor(s, [i \in 1..n |-> 0]) = [i \in 1..n |-> (s[i] + 0) % 2]
    BY DEF Xor
<1>2. \A i \in 1..n : /\ (s[i] + t[i]) % 2 \in Bit /\ (s[i] + t[i]) % 2 = (t[i] + s[i]) % 2
                      /\ (s[i] + s[i]) % 2 = 0 /\ (0 + s[i]) % 2 = s[i] /\ (s[i] + 0) % 2 = s[i]
    <2>1. \A i \in 1..n : s[i] \in Bit /\ t[i] \in Bit
        OBVIOUS
    <2> QED BY <2>1, BitSums
<1>3. s = [i \in 1..n |-> s[i]]
    OBVIOUS
<1>4. Xor(s, t) \in [1..n -> Bit]
    BY <1>1, <1>2
<1>5. Xor(s, t) = Xor(t, s)
    BY <1>1, <1>2
<1>6. Xor(s, s) = [i \in 1..n |-> 0]
    BY <1>1, <1>2
<1>7. Xor([i \in 1..n |-> 0], s) = s
    BY <1>1, <1>2, <1>3
<1>8. Xor(s, [i \in 1..n |-> 0]) = s
    BY <1>1, <1>2, <1>3
<1> QED BY <1>1, <1>4, <1>5, <1>6, <1>7, <1>8

\* A register that is shifted.
LEMMA ShiftedIs ==
    ASSUME NEW m \in Nat \ {0}, NEW s \in [1..m -> Bit], NEW b \in Bit
    PROVE  /\ Append(Tail(s), b) = [i \in 1..m |-> IF i < m THEN s[i + 1] ELSE b]
           /\ Append(Tail(s), b) \in [1..m -> Bit]
<1>1. s \in Seq(Bit) /\ Len(s) = m /\ s # << >>
    OBVIOUS
<1>2. Tail(s) \in Seq(Bit) /\ Len(Tail(s)) = m - 1 /\ \A i \in 1..(m - 1) : Tail(s)[i] = s[i + 1]
    BY <1>1
<1> DEFINE t == Tail(s)
           a == Append(t, b)
<1> HIDE DEF t
<1>3. a \in Seq(Bit) /\ Len(a) = m /\ a[m] = b /\ \A i \in 1..(m - 1) : a[i] = t[i]
    BY <1>2 DEF t
<1> HIDE DEF a
<1>4. \A i \in 1..m : a[i] = IF i < m THEN s[i + 1] ELSE b
    BY <1>2, <1>3 DEF t
<1>5. a = [i \in 1..m |-> a[i]] /\ a \in [1..m -> Bit]
    BY <1>3
<1>6. a = [i \in 1..m |-> IF i < m THEN s[i + 1] ELSE b]
    BY <1>4, <1>5
<1> QED BY <1>5, <1>6 DEF a, t

\* One step of the syndrome, bit by bit.
LEMMA SyndromeShiftIs ==
    ASSUME NEW g, Generator(g), NEW s \in States(g), NEW b \in Bit
    PROVE  /\ SyndromeShift(g, s, b) \in States(g)
           /\ SyndromeShift(g, s, b) = [i \in 1..Len(g) |->
                  ((IF i < Len(g) THEN s[i + 1] ELSE b) + (IF s[1] = 1 THEN g[i] ELSE 0)) % 2]
<1> DEFINE m == Len(g)
           a == Append(Tail(s), b)
<1>1. m \in Nat \ {0} /\ g \in [1..m -> Bit] /\ s \in [1..m -> Bit] /\ b % 2 = b
    BY GeneratorIs, DoubleAndHalf DEF States
<1> HIDE DEF m
<1>2. a = [i \in 1..m |-> IF i < m THEN s[i + 1] ELSE b] /\ a \in [1..m -> Bit]
    BY <1>1, ShiftedIs
<1>3. SyndromeShift(g, s, b) = IF s[1] = 1 THEN Xor(a, g) ELSE a
    BY <1>1 DEF SyndromeShift
<1> HIDE DEF a
<1>4. /\ Xor(a, g) = [i \in 1..m |-> (a[i] + g[i]) % 2]
      /\ Xor(a, g) \in [1..m -> Bit]
    <2>1. Xor(a, g) = [i \in 1..m |-> (a[i] + g[i]) % 2]
        BY <1>2 DEF Xor
    <2>2. Xor(a, g) \in [1..m -> Bit]
        BY <1>1, <1>2, XorIs
    <2> QED BY <2>1, <2>2
<1>5. a = [i \in 1..m |-> (a[i] + 0) % 2]
    <2>1. \A i \in 1..m : (a[i] + 0) % 2 = a[i]
        BY <1>2, BitSums
    <2> QED BY <1>2, <2>1
<1>6. SyndromeShift(g, s, b) \in [1..m -> Bit]
    BY <1>2, <1>3, <1>4
<1>7. SyndromeShift(g, s, b) = [i \in 1..m |-> (a[i] + (IF s[1] = 1 THEN g[i] ELSE 0)) % 2]
    BY <1>3, <1>4, <1>5
<1>8. SyndromeShift(g, s, b) = [i \in 1..m |->
                  ((IF i < m THEN s[i + 1] ELSE b) + (IF s[1] = 1 THEN g[i] ELSE 0)) % 2]
    <2>1. \A i \in 1..m : a[i] = IF i < m THEN s[i + 1] ELSE b
        BY <1>2
    <2> QED BY <1>7, <2>1
<1> QED BY <1>6, <1>8 DEF m, States

\* One step of the encoder adds the coefficients for a bit that is set.
LEMMA EncoderShiftIs ==
    ASSUME NEW g, Generator(g), NEW s \in States(g), NEW b \in Bit
    PROVE  /\ EncoderShift(g, s, b) = Xor(SyndromeShift(g, s, 0), IF b = 1 THEN g ELSE Zero(g))
           /\ EncoderShift(g, s, b) \in States(g)
<1> DEFINE m == Len(g)
           a == Append(Tail(s), 0)
           z == [i \in 1..m |-> 0]
<1>0. m \in Nat \ {0} /\ g \in [1..m -> Bit] /\ s \in [1..m -> Bit]
    BY GeneratorIs DEF States
<1> HIDE DEF m
<1>1. m \in Nat \ {0} /\ g \in [1..m -> Bit] /\ s \in [1..m -> Bit] /\ 0 \in Bit /\ 0 % 2 = 0
      /\ 1 \in 1..m
    <2>1. 0 \in Bit
        BY ONLY DEF Bit
    <2>2. 0 % 2 = 0
        OBVIOUS
    <2>3. 1 \in 1..m
        BY ONLY <1>0
    <2> QED BY ONLY <1>0, <2>1, <2>2, <2>3
<1>2. a \in [1..m -> Bit]
    BY <1>1, ShiftedIs
<1>3. SyndromeShift(g, s, 0) = IF s[1] = 1 THEN Xor(a, g) ELSE a
    BY <1>1 DEF SyndromeShift
<1>4. EncoderShift(g, s, b) = IF (s[1] + b) % 2 = 1 THEN Xor(a, g) ELSE a
    BY <1>1 DEF EncoderShift
<1> HIDE DEF a
<1>5. Xor(a, g) \in [1..m -> Bit] /\ Xor(a, z) = a /\ Xor(Xor(a, g), z) = Xor(a, g)
    BY <1>1, <1>2, XorIs
<1>6. Xor(Xor(a, g), g) = a
    <2>1. Xor(a, g) = [i \in 1..m |-> (a[i] + g[i]) % 2]
        BY <1>2 DEF Xor
    <2>2. Xor(Xor(a, g), g) = [i \in 1..m |-> (((a[i] + g[i]) % 2) + g[i]) % 2]
        BY <2>1 DEF Xor
    <2>3. \A x, y \in Bit : (((x + y) % 2) + y) % 2 = x
        BY DEF Bit
    <2>4. \A i \in 1..m : (((a[i] + g[i]) % 2) + g[i]) % 2 = a[i]
        BY <1>1, <1>2, <2>3
    <2> QED BY <1>2, <2>2, <2>4
<1>7. s[1] \in Bit
    BY <1>1
<1>8. (s[1] + b) % 2 = 1 <=> ~(s[1] = 1 <=> b = 1)
    BY <1>7 DEF Bit
<1>9. Xor(SyndromeShift(g, s, 0), IF b = 1 THEN g ELSE z) = EncoderShift(g, s, b)
    BY <1>3, <1>4, <1>5, <1>6, <1>8
<1>10. EncoderShift(g, s, b) \in [1..m -> Bit]
    BY <1>2, <1>4, <1>5
<1> QED BY <1>9, <1>10 DEF z, Zero, m, States

\* The sum of two steps is the step of the sums.
LEMMA SyndromeIsLinear ==
    ASSUME NEW g, Generator(g), NEW s \in States(g), NEW t \in States(g), NEW b \in Bit, NEW c \in Bit
    PROVE  SyndromeShift(g, Xor(s, t), (b + c) % 2) = Xor(SyndromeShift(g, s, b), SyndromeShift(g, t, c))
<1> DEFINE m == Len(g)
           x == Xor(s, t)
           F(u, d, i) == ((IF i < m THEN u[i + 1] ELSE d) + (IF u[1] = 1 THEN g[i] ELSE 0)) % 2
<1>1. m \in Nat \ {0} /\ g \in [1..m -> Bit] /\ s \in [1..m -> Bit] /\ t \in [1..m -> Bit]
    BY GeneratorIs DEF States
<1>2. x = [i \in 1..m |-> (s[i] + t[i]) % 2] /\ x \in States(g)
    <2>1. x = [i \in 1..m |-> (s[i] + t[i]) % 2]
        BY <1>1 DEF Xor
    <2>2. x \in [1..m -> Bit]
        BY <1>1, XorIs
    <2> QED BY <2>1, <2>2 DEF States
<1>3. (b + c) % 2 \in Bit
    BY BitSums
<1>4. /\ SyndromeShift(g, s, b) = [i \in 1..m |-> F(s, b, i)]
      /\ SyndromeShift(g, s, b) \in States(g)
    BY SyndromeShiftIs
<1>5. /\ SyndromeShift(g, t, c) = [i \in 1..m |-> F(t, c, i)]
      /\ SyndromeShift(g, t, c) \in States(g)
    BY SyndromeShiftIs
<1> HIDE DEF x
<1>6. SyndromeShift(g, x, (b + c) % 2) = [i \in 1..m |-> F(x, (b + c) % 2, i)]
    <2> DEFINE d == (b + c) % 2
    <2>1. d \in Bit
        BY <1>3
    <2> HIDE DEF d
    <2>2. x \in States(g)
        BY <1>2
    <2>3. SyndromeShift(g, x, d) = [i \in 1..Len(g) |->
                  ((IF i < Len(g) THEN x[i + 1] ELSE d) + (IF x[1] = 1 THEN g[i] ELSE 0)) % 2]
        BY <2>1, <2>2, SyndromeShiftIs
    <2>4. SyndromeShift(g, x, d) = [i \in 1..m |-> F(x, d, i)]
        BY <2>3, Zenon DEF m, F
    <2> QED BY <2>4 DEF d
<1> HIDE DEF m, F
<1>7. Xor(SyndromeShift(g, s, b), SyndromeShift(g, t, c)) = [i \in 1..m |-> (F(s, b, i) + F(t, c, i)) % 2]
    BY <1>4, <1>5 DEF Xor
<1>8. \A i \in 1..m : F(x, (b + c) % 2, i) = (F(s, b, i) + F(t, c, i)) % 2
    <2> SUFFICES ASSUME NEW i \in 1..m
                 PROVE  F(x, (b + c) % 2, i) = (F(s, b, i) + F(t, c, i)) % 2
        OBVIOUS
    <2> DEFINE p == IF i < m THEN s[i + 1] ELSE b
               q == IF i < m THEN t[i + 1] ELSE c
               sg == IF s[1] = 1 THEN g[i] ELSE 0
               tg == IF t[1] = 1 THEN g[i] ELSE 0
    <2>1. p \in Bit /\ q \in Bit /\ g[i] \in Bit /\ 1 \in 1..m /\ s[1] \in Bit /\ t[1] \in Bit
        BY <1>1
    <2>2. sg \in Bit /\ tg \in Bit
        BY <2>1 DEF Bit
    <2>3. (IF i < m THEN x[i + 1] ELSE (b + c) % 2) = (p + q) % 2
        BY <1>1, <1>2
    <2>4. x[1] = (s[1] + t[1]) % 2
        BY <1>2, <2>1
    <2>5. (IF x[1] = 1 THEN g[i] ELSE 0) = (sg + tg) % 2
        BY <2>1, <2>4 DEF Bit
    <2>6. F(x, (b + c) % 2, i) = (((p + q) % 2) + ((sg + tg) % 2)) % 2
        BY <2>3, <2>5 DEF F
    <2>7. F(s, b, i) = (p + sg) % 2 /\ F(t, c, i) = (q + tg) % 2
        BY DEF F
    <2> HIDE DEF p, q, sg, tg
    <2>8. (((p + q) % 2) + ((sg + tg) % 2)) % 2 = (((p + sg) % 2) + ((q + tg) % 2)) % 2
        BY <2>1, <2>2, BitSums
    <2> QED BY <2>6, <2>7, <2>8
<1>9. SyndromeShift(g, x, (b + c) % 2) = Xor(SyndromeShift(g, s, b), SyndromeShift(g, t, c))
    BY <1>6, <1>7, <1>8
<1> QED BY <1>9 DEF x

\* A zero leaves the state zero, and leaves no other state zero.
LEMMA ZeroStaysZero ==
    ASSUME NEW g, Generator(g), NEW s \in States(g)
    PROVE  SyndromeShift(g, s, 0) = Zero(g) <=> s = Zero(g)
<1> DEFINE m == Len(g)
           z == SyndromeShift(g, s, 0)
<1>1. m \in Nat \ {0} /\ g \in [1..m -> Bit] /\ s \in [1..m -> Bit] /\ g[m] = 1 /\ 0 \in Bit
    <2>1. m \in Nat \ {0} /\ g \in [1..m -> Bit] /\ s \in [1..m -> Bit] /\ g[m] = 1
        BY GeneratorIs DEF States
    <2>2. 0 \in Bit
        BY ONLY DEF Bit
    <2> QED BY ONLY <2>1, <2>2
<1>2. z = [i \in 1..m |-> ((IF i < m THEN s[i + 1] ELSE 0) + (IF s[1] = 1 THEN g[i] ELSE 0)) % 2]
    BY <1>1, SyndromeShiftIs
<1> HIDE DEF m, z
<1>3. Zero(g) = [i \in 1..m |-> 0]
    BY DEF Zero, m
<1>4. ASSUME s = Zero(g) PROVE z = Zero(g)
    <2>1. \A i \in 1..m : s[i] = 0
        BY <1>3, <1>4
    <2>2. \A i \in 1..m : ((IF i < m THEN s[i + 1] ELSE 0) + (IF s[1] = 1 THEN g[i] ELSE 0)) % 2 = 0
        BY <1>1, <2>1
    <2> QED BY <1>2, <1>3, <2>2
<1>5. ASSUME z = Zero(g) PROVE s = Zero(g)
    <2>1. \A i \in 1..m : z[i] = 0
        BY <1>3, <1>5
    <2>2. s[1] = 0
        <3>1. z[m] = (0 + (IF s[1] = 1 THEN 1 ELSE 0)) % 2
            BY <1>1, <1>2
        <3>2. z[m] = 0 /\ s[1] \in Bit
            BY <1>1, <2>1
        <3> QED BY <3>1, <3>2 DEF Bit
    <2>3. \A i \in 1..(m - 1) : s[i + 1] = 0
        <3> SUFFICES ASSUME NEW i \in 1..(m - 1) PROVE s[i + 1] = 0
            OBVIOUS
        <3>1. i \in 1..m /\ i < m /\ s[i + 1] \in Bit
            BY <1>1
        <3>2. z[i] = (s[i + 1] + 0) % 2
            BY <1>2, <2>2, <3>1
        <3> QED BY <2>1, <3>1, <3>2, BitSums
    <2>4. \A i \in 1..m : s[i] = 0
        <3> SUFFICES ASSUME NEW i \in 1..m, i # 1 PROVE s[i] = 0
            BY <2>2
        <3>1. i - 1 \in 1..(m - 1) /\ (i - 1) + 1 = i
            BY <1>1
        <3> QED BY <2>3, <3>1
    <2> QED BY <1>1, <1>3, <2>4
<1> QED BY <1>4, <1>5 DEF z

--------------------------------------------------------------------------------
(* Runs of the shift registers *)

\* The states of the syndrome from a state s on, after each bit of w.
Run(g, s, w) ==
    LET run[k \in 0..Len(w)] == IF k = 0 THEN s ELSE SyndromeShift(g, run[k - 1], w[k])
    IN  run

\* Each state comes from the one before.
LEMMA RunIs ==
    ASSUME NEW g, Generator(g), NEW s \in States(g), NEW w \in Seq(Bit)
    PROVE  /\ Run(g, s, w) \in [0..Len(w) -> States(g)]
           /\ Run(g, s, w)[0] = s
           /\ \A k \in 1..Len(w) : Run(g, s, w)[k] = SyndromeShift(g, Run(g, s, w)[k - 1], w[k])
<1> DEFINE n == Len(w)
           S == States(g)
           T == [k \in 1..n |-> [x \in S |-> SyndromeShift(g, x, w[k])]]
           r == Run(g, s, w)
<1>0. n \in Nat /\ \A k \in 1..n : w[k] \in Bit
    OBVIOUS
<1>1. T \in [1..n -> [S -> S]]
    <2>1. \A k \in 1..n : \A x \in S : SyndromeShift(g, x, w[k]) \in S
        BY <1>0, SyndromeShiftIs
    <2> HIDE DEF n, S
    <2> QED BY <2>1
<1> HIDE DEF n
<1>2. PICK f \in [0..n -> S] : f[0] = s /\ \A k \in 1..n : f[k] = T[k][f[k - 1]]
    <2>1. s \in S
        OBVIOUS
    <2> HIDE DEF S, T
    <2>2. Recursive(S, n, s, T)
        BY <1>0, <1>1, <2>1, Recursion
    <2> QED BY <2>2 DEF Recursive
<1> HIDE DEF S
<1>3. \A k \in 1..n : f[k] = SyndromeShift(g, f[k - 1], w[k])
    <2> SUFFICES ASSUME NEW k \in 1..n PROVE f[k] = SyndromeShift(g, f[k - 1], w[k])
        OBVIOUS
    <2>1. f[k - 1] \in S
        BY <1>0, <1>2
    <2>2. T[k] = [x \in S |-> SyndromeShift(g, x, w[k])]
        OBVIOUS
    <2> HIDE DEF T
    <2> QED BY <1>2, <2>1, <2>2
<1>4. f = [k \in 0..n |-> IF k = 0 THEN s ELSE SyndromeShift(g, f[k - 1], w[k])]
    <2> HIDE DEF T
    <2>1. \A k \in 0..n : k = 0 \/ k \in 1..n
        BY <1>0
    <2>2. \A k \in 0..n : f[k] = IF k = 0 THEN s ELSE SyndromeShift(g, f[k - 1], w[k])
        BY <1>2, <1>3, <2>1
    <2> QED BY <1>2, <2>2
<1>5. r = [k \in 0..n |-> IF k = 0 THEN s ELSE SyndromeShift(g, r[k - 1], w[k])]
    <2> HIDE DEF T
    <2> QED BY <1>4 DEF Run, n
<1> HIDE DEF r, T
<1> DEFINE P == {k \in 0..n : r[k] = f[k]}
<1>6. \A k \in 0..n : k \in P
    <2>1. 0 \in P
        BY <1>0, <1>2, <1>5
    <2>2. \A k \in 0..(n - 1) : k \in P => k + 1 \in P
        <3> SUFFICES ASSUME NEW k \in 0..(n - 1), r[k] = f[k] PROVE k + 1 \in 0..n /\ r[k + 1] = f[k + 1]
            OBVIOUS
        <3>1. k + 1 \in 0..n /\ k + 1 \in 1..n /\ (k + 1) - 1 = k /\ k + 1 # 0
            BY <1>0
        <3>2. r[k + 1] = SyndromeShift(g, r[k], w[k + 1])
            BY <1>5, <3>1
        <3>3. f[k + 1] = SyndromeShift(g, f[k], w[k + 1])
            BY <1>3, <3>1
        <3> QED BY <3>1, <3>2, <3>3
    <2> HIDE DEF P
    <2> QED BY <1>0, <2>1, <2>2, UpTo
<1>7. r = f
    <2>1. \A k \in 0..n : r[k] = f[k]
        BY <1>6
    <2>2. r = [k \in 0..n |-> r[k]] /\ f = [k \in 0..n |-> f[k]]
        BY <1>2, <1>5
    <2> QED BY <2>1, <2>2
<1>8. r \in [0..n -> S] /\ r[0] = s
    BY <1>2, <1>7
<1>9. \A k \in 1..n : r[k] = SyndromeShift(g, r[k - 1], w[k])
    BY <1>3, <1>7
<1> QED BY <1>8, <1>9 DEF r, n, S

\* The states of the encoder.
LEMMA EncoderStatesAre ==
    ASSUME NEW g, Generator(g), NEW v \in Seq(Bit)
    PROVE  /\ EncoderStates(v, g) \in [0..Len(v) -> States(g)]
           /\ EncoderStates(v, g)[0] = Zero(g)
           /\ \A k \in 1..Len(v) : EncoderStates(v, g)[k] = EncoderShift(g, EncoderStates(v, g)[k - 1], v[k])
<1> DEFINE n == Len(v)
           s == Zero(g)
           S == States(g)
           T == [k \in 1..n |-> [x \in S |-> EncoderShift(g, x, v[k])]]
           r == EncoderStates(v, g)
<1>0. n \in Nat /\ (\A k \in 1..n : v[k] \in Bit) /\ s \in S /\ Zeros(Len(g)) = s
    BY GeneratorIs
<1>1. T \in [1..n -> [S -> S]]
    <2>1. \A k \in 1..n : \A x \in S : EncoderShift(g, x, v[k]) \in S
        BY <1>0, EncoderShiftIs
    <2> HIDE DEF n, S
    <2> QED BY <2>1
<1> HIDE DEF n, s
<1>2. PICK f \in [0..n -> S] : f[0] = s /\ \A k \in 1..n : f[k] = T[k][f[k - 1]]
    <2> HIDE DEF S, T
    <2>2. Recursive(S, n, s, T)
        BY <1>0, <1>1, Recursion
    <2> QED BY <2>2 DEF Recursive
<1> HIDE DEF S
<1>3. \A k \in 1..n : f[k] = EncoderShift(g, f[k - 1], v[k])
    <2> SUFFICES ASSUME NEW k \in 1..n PROVE f[k] = EncoderShift(g, f[k - 1], v[k])
        OBVIOUS
    <2>1. f[k - 1] \in S
        BY <1>0, <1>2
    <2>2. T[k] = [x \in S |-> EncoderShift(g, x, v[k])]
        OBVIOUS
    <2> HIDE DEF T
    <2> QED BY <1>2, <2>1, <2>2
<1>4. f = [k \in 0..n |-> IF k = 0 THEN s ELSE EncoderShift(g, f[k - 1], v[k])]
    <2> HIDE DEF T
    <2>1. \A k \in 0..n : k = 0 \/ k \in 1..n
        BY <1>0
    <2>2. \A k \in 0..n : f[k] = IF k = 0 THEN s ELSE EncoderShift(g, f[k - 1], v[k])
        BY <1>2, <1>3, <2>1
    <2> QED BY <1>2, <2>2
<1>5. r = [k \in 0..n |-> IF k = 0 THEN s ELSE EncoderShift(g, r[k - 1], v[k])]
    <2> HIDE DEF T
    <2> QED BY <1>0, <1>4 DEF EncoderStates, n
<1> HIDE DEF r, T
<1> DEFINE P == {k \in 0..n : r[k] = f[k]}
<1>6. \A k \in 0..n : k \in P
    <2>1. 0 \in P
        BY <1>0, <1>2, <1>5
    <2>2. \A k \in 0..(n - 1) : k \in P => k + 1 \in P
        <3> SUFFICES ASSUME NEW k \in 0..(n - 1), r[k] = f[k] PROVE k + 1 \in 0..n /\ r[k + 1] = f[k + 1]
            OBVIOUS
        <3>1. k + 1 \in 0..n /\ k + 1 \in 1..n /\ (k + 1) - 1 = k /\ k + 1 # 0
            BY <1>0
        <3>2. r[k + 1] = EncoderShift(g, r[k], v[k + 1])
            BY <1>5, <3>1
        <3>3. f[k + 1] = EncoderShift(g, f[k], v[k + 1])
            BY <1>3, <3>1
        <3> QED BY <3>1, <3>2, <3>3
    <2> HIDE DEF P
    <2> QED BY <1>0, <2>1, <2>2, UpTo
<1>7. r = f
    <2>1. \A k \in 0..n : r[k] = f[k]
        BY <1>6
    <2>2. r = [k \in 0..n |-> r[k]] /\ f = [k \in 0..n |-> f[k]]
        BY <1>2, <1>5
    <2> QED BY <2>1, <2>2
<1>8. r \in [0..n -> S] /\ r[0] = s
    BY <1>2, <1>7
<1>9. \A k \in 1..n : r[k] = EncoderShift(g, r[k - 1], v[k])
    BY <1>3, <1>7
<1> QED BY <1>8, <1>9 DEF r, n, s, S

\* The syndrome of a vector is the end of its run from zero.
LEMMA SyndromeIsRun ==
    ASSUME NEW g, Generator(g), NEW v \in Seq(Bit)
    PROVE  SyndromeOf(v, g) = Run(g, Zero(g), v)[Len(v)]
<1>1. Zeros(Len(g)) = Zero(g)
    BY GeneratorIs
<1>2. SyndromeStates(v, g) = Run(g, Zero(g), v)
    BY <1>1 DEF SyndromeStates, Run
<1> QED BY <1>2 DEF SyndromeOf

\* The sum of two runs is the run of the sums.
LEMMA RunSums ==
    ASSUME NEW g, Generator(g), NEW s \in States(g), NEW t \in States(g), NEW n \in Nat,
           NEW w \in [1..n -> Bit], NEW x \in [1..n -> Bit]
    PROVE  \A k \in 0..n : Run(g, Xor(s, t), Xor(w, x))[k] = Xor(Run(g, s, w)[k], Run(g, t, x)[k])
<1> DEFINE y == Xor(w, x)
           u == Xor(s, t)
           a == Run(g, s, w)
           b == Run(g, t, x)
           r == Run(g, u, y)
<1>1. /\ y \in [1..n -> Bit] /\ \A i \in 1..n : y[i] = (w[i] + x[i]) % 2
      /\ u \in States(g)
    <2>1. y \in [1..n -> Bit] /\ \A i \in 1..n : y[i] = (w[i] + x[i]) % 2
        <3>1. y \in [1..n -> Bit]
            BY XorIs
        <3>2. \A i \in 1..n : y[i] = (w[i] + x[i]) % 2
            BY DEF Xor
        <3> HIDE DEF y
        <3> QED BY <3>1, <3>2
    <2>2. Len(g) \in Nat
        BY GeneratorIs
    <2>3. u \in States(g)
        BY <2>2, XorIs DEF States
    <2> QED BY <2>1, <2>3
<1> HIDE DEF y, u
<1>2. /\ w \in Seq(Bit) /\ Len(w) = n /\ x \in Seq(Bit) /\ Len(x) = n /\ y \in Seq(Bit) /\ Len(y) = n
    BY <1>1, SeqIs
<1>3. a \in [0..n -> States(g)] /\ a[0] = s /\ \A k \in 1..n : a[k] = SyndromeShift(g, a[k - 1], w[k])
    <2>1. /\ Run(g, s, w) \in [0..Len(w) -> States(g)]
          /\ Run(g, s, w)[0] = s
          /\ \A k \in 1..Len(w) : Run(g, s, w)[k] = SyndromeShift(g, Run(g, s, w)[k - 1], w[k])
        BY <1>2, RunIs
    <2> QED BY <1>2, <2>1
<1>4. b \in [0..n -> States(g)] /\ b[0] = t /\ \A k \in 1..n : b[k] = SyndromeShift(g, b[k - 1], x[k])
    <2>1. /\ Run(g, t, x) \in [0..Len(x) -> States(g)]
          /\ Run(g, t, x)[0] = t
          /\ \A k \in 1..Len(x) : Run(g, t, x)[k] = SyndromeShift(g, Run(g, t, x)[k - 1], x[k])
        BY <1>2, RunIs
    <2> QED BY <1>2, <2>1
<1>5. r \in [0..n -> States(g)] /\ r[0] = u /\ \A k \in 1..n : r[k] = SyndromeShift(g, r[k - 1], y[k])
    <2>1. /\ Run(g, u, y) \in [0..Len(y) -> States(g)]
          /\ Run(g, u, y)[0] = u
          /\ \A k \in 1..Len(y) : Run(g, u, y)[k] = SyndromeShift(g, Run(g, u, y)[k - 1], y[k])
        BY <1>1, <1>2, RunIs
    <2> QED BY <1>2, <2>1
<1> HIDE DEF a, b, r
<1> DEFINE P == {k \in 0..n : r[k] = Xor(a[k], b[k])}
<1>6. \A k \in 0..n : k \in P
    <2>1. 0 \in P
        BY <1>3, <1>4, <1>5 DEF u
    <2>2. \A k \in 0..(n - 1) : k \in P => k + 1 \in P
        <3> SUFFICES ASSUME NEW k \in 0..(n - 1), r[k] = Xor(a[k], b[k])
                     PROVE  k + 1 \in 0..n /\ r[k + 1] = Xor(a[k + 1], b[k + 1])
            OBVIOUS
        <3>1. k + 1 \in 0..n /\ k + 1 \in 1..n /\ (k + 1) - 1 = k /\ k \in 0..n
            OBVIOUS
        <3>2. r[k + 1] = SyndromeShift(g, Xor(a[k], b[k]), (w[k + 1] + x[k + 1]) % 2)
            BY <1>1, <1>5, <3>1
        <3>3. a[k + 1] = SyndromeShift(g, a[k], w[k + 1]) /\ b[k + 1] = SyndromeShift(g, b[k], x[k + 1])
            BY <1>3, <1>4, <3>1
        <3>4. a[k] \in States(g) /\ b[k] \in States(g) /\ w[k + 1] \in Bit /\ x[k + 1] \in Bit
            BY <1>3, <1>4, <3>1
        <3>5. SyndromeShift(g, Xor(a[k], b[k]), (w[k + 1] + x[k + 1]) % 2)
                = Xor(SyndromeShift(g, a[k], w[k + 1]), SyndromeShift(g, b[k], x[k + 1]))
            BY <3>4, SyndromeIsLinear
        <3> QED BY <3>1, <3>2, <3>3, <3>5
    <2> HIDE DEF P
    <2> QED BY <2>1, <2>2, UpTo
<1> QED BY <1>6 DEF r, a, b, y, u

\* A run over two vectors, one behind the other.
LEMMA RunJoins ==
    ASSUME NEW g, Generator(g), NEW s \in States(g), NEW v \in Seq(Bit), NEW x \in Seq(Bit)
    PROVE  Run(g, s, v \o x)[Len(v) + Len(x)] = Run(g, Run(g, s, v)[Len(v)], x)[Len(x)]
<1> DEFINE n == Len(v)
           l == Len(x)
           w == v \o x
           a == Run(g, s, v)
           b == Run(g, a[n], x)
           r == Run(g, s, w)
<1>1. /\ n \in Nat /\ l \in Nat /\ w \in Seq(Bit) /\ Len(w) = n + l
      /\ \A i \in 1..n : w[i] = v[i]
      /\ \A i \in 1..l : w[n + i] = x[i]
    OBVIOUS
<1>2. a \in [0..n -> States(g)] /\ a[0] = s /\ \A k \in 1..n : a[k] = SyndromeShift(g, a[k - 1], v[k])
    BY RunIs
<1> HIDE DEF a
<1>3. a[n] \in States(g)
    BY <1>1, <1>2
<1>4. b \in [0..l -> States(g)] /\ b[0] = a[n] /\ \A k \in 1..l : b[k] = SyndromeShift(g, b[k - 1], x[k])
    BY <1>3, RunIs
<1> HIDE DEF b, w
<1>5. r[0] = s /\ \A k \in 1..(n + l) : r[k] = SyndromeShift(g, r[k - 1], w[k])
    <2>1. /\ Run(g, s, w) \in [0..Len(w) -> States(g)]
          /\ Run(g, s, w)[0] = s
          /\ \A k \in 1..Len(w) : Run(g, s, w)[k] = SyndromeShift(g, Run(g, s, w)[k - 1], w[k])
        BY <1>1, RunIs
    <2> QED BY <1>1, <2>1
<1> HIDE DEF r, n, l
<1> DEFINE P == {k \in 0..n : r[k] = a[k]}
           Q == {k \in 0..l : r[n + k] = b[k]}
<1>6. \A k \in 0..n : k \in P
    <2>1. 0 \in P
        BY <1>1, <1>2, <1>5
    <2>2. \A k \in 0..(n - 1) : k \in P => k + 1 \in P
        <3> SUFFICES ASSUME NEW k \in 0..(n - 1), r[k] = a[k]
                     PROVE  k + 1 \in 0..n /\ r[k + 1] = a[k + 1]
            OBVIOUS
        <3>1. k + 1 \in 0..n /\ k + 1 \in 1..n /\ k + 1 \in 1..(n + l) /\ (k + 1) - 1 = k
            BY <1>1
        <3> QED BY <1>1, <1>2, <1>5, <3>1
    <2> HIDE DEF P
    <2> QED BY <1>1, <2>1, <2>2, UpTo
<1>7. \A k \in 0..l : k \in Q
    <2>1. 0 \in Q
        BY <1>1, <1>4, <1>6
    <2>2. \A k \in 0..(l - 1) : k \in Q => k + 1 \in Q
        <3> SUFFICES ASSUME NEW k \in 0..(l - 1), r[n + k] = b[k]
                     PROVE  k + 1 \in 0..l /\ r[n + (k + 1)] = b[k + 1]
            OBVIOUS
        <3>1. k + 1 \in 0..l /\ k + 1 \in 1..l /\ n + (k + 1) \in 1..(n + l) /\ (k + 1) - 1 = k
              /\ (n + (k + 1)) - 1 = n + k
            BY <1>1
        <3>2. r[n + (k + 1)] = SyndromeShift(g, r[n + k], w[n + (k + 1)])
            BY <1>5, <3>1
        <3>3. w[n + (k + 1)] = x[k + 1]
            BY <1>1, <3>1
        <3>4. b[k + 1] = SyndromeShift(g, b[k], x[k + 1])
            BY <1>4, <3>1
        <3> QED BY <3>1, <3>2, <3>3, <3>4
    <2> HIDE DEF Q
    <2> QED BY <1>1, <2>1, <2>2, UpTo
<1>8. r[n + l] = b[l]
    BY <1>1, <1>7
<1> QED BY <1>8 DEF r, w, b, a, n, l

--------------------------------------------------------------------------------
(* What is left in a register behind zeros *)

\* The state after as many zeros as the register is wide.
Power(g, s) == Run(g, s, Zeros(Len(g)))[Len(g)]
\* The state with only the last bit set.
Unit(g) == [i \in 1..Len(g) |-> IF i = Len(g) THEN 1 ELSE 0]

\* A run over zeros.
LEMMA ZeroRun ==
    ASSUME NEW g, Generator(g), NEW s \in States(g)
    PROVE  LET r == Run(g, s, Zeros(Len(g)))
           IN  /\ r \in [0..Len(g) -> States(g)]
               /\ r[0] = s
               /\ \A k \in 1..Len(g) : r[k] = SyndromeShift(g, r[k - 1], 0)
<1> DEFINE w == Zeros(Len(g))
<1>1. w \in Seq(Bit) /\ Len(w) = Len(g) /\ (\A i \in 1..Len(g) : w[i] = 0) /\ Len(g) \in Nat
    BY GeneratorIs
<1> HIDE DEF w
<1>2. /\ Run(g, s, w) \in [0..Len(w) -> States(g)]
      /\ Run(g, s, w)[0] = s
      /\ \A k \in 1..Len(w) : Run(g, s, w)[k] = SyndromeShift(g, Run(g, s, w)[k - 1], w[k])
    BY <1>1, RunIs
<1>3. /\ Run(g, s, w) \in [0..Len(g) -> States(g)]
      /\ Run(g, s, w)[0] = s
      /\ \A k \in 1..Len(g) : Run(g, s, w)[k] = SyndromeShift(g, Run(g, s, w)[k - 1], 0)
    BY <1>1, <1>2
<1> QED BY <1>3 DEF w

\* It is a state.
LEMMA PowerIs ==
    ASSUME NEW g, Generator(g), NEW s \in States(g)
    PROVE  Power(g, s) \in States(g)
<1>1. Len(g) \in 0..Len(g)
    BY GeneratorIs
<1>2. Run(g, s, Zeros(Len(g))) \in [0..Len(g) -> States(g)]
    BY ZeroRun
<1> QED BY <1>1, <1>2 DEF Power

\* One step before the zeros is one behind them.
LEMMA PowerOfStep ==
    ASSUME NEW g, Generator(g), NEW s \in States(g)
    PROVE  Power(g, SyndromeShift(g, s, 0)) = SyndromeShift(g, Power(g, s), 0)
<1> DEFINE m == Len(g)
           t == SyndromeShift(g, s, 0)
           a == Run(g, s, Zeros(m))
           b == Run(g, t, Zeros(m))
<1>1. m \in Nat \ {0} /\ t \in States(g)
    <2>1. 0 \in Bit
        BY DEF Bit
    <2> QED BY <2>1, GeneratorIs, SyndromeShiftIs
<1>2. a[0] = s /\ \A k \in 1..m : a[k] = SyndromeShift(g, a[k - 1], 0)
    BY ZeroRun
<1> HIDE DEF t
<1>3. b[0] = t /\ \A k \in 1..m : b[k] = SyndromeShift(g, b[k - 1], 0)
    BY <1>1, ZeroRun
<1> HIDE DEF a, b, m
<1> DEFINE P == {k \in 0..m : b[k] = SyndromeShift(g, a[k], 0)}
<1>4. \A k \in 0..m : k \in P
    <2>1. 0 \in P
        BY <1>1, <1>2, <1>3 DEF t
    <2>2. \A k \in 0..(m - 1) : k \in P => k + 1 \in P
        <3> SUFFICES ASSUME NEW k \in 0..(m - 1), b[k] = SyndromeShift(g, a[k], 0)
                     PROVE  k + 1 \in 0..m /\ b[k + 1] = SyndromeShift(g, a[k + 1], 0)
            OBVIOUS
        <3>1. k + 1 \in 0..m /\ k + 1 \in 1..m /\ (k + 1) - 1 = k
            BY <1>1
        <3> QED BY <1>2, <1>3, <3>1
    <2> HIDE DEF P
    <2> QED BY <1>1, <2>1, <2>2, UpTo
<1>5. b[m] = SyndromeShift(g, a[m], 0)
    BY <1>1, <1>4
<1> QED BY <1>5 DEF Power, a, b, m, t

\* The bit behind as many zeros as the register is wide is the generator.
LEMMA PowerOfUnit ==
    ASSUME NEW g, Generator(g)
    PROVE  Unit(g) \in States(g) /\ Power(g, Unit(g)) = g
<1> DEFINE m == Len(g)
           u == Unit(g)
           r == Run(g, u, Zeros(m))
           U(k) == [i \in 1..m |-> IF i = m - k THEN 1 ELSE 0]
<1>1. m \in Nat \ {0} /\ g \in [1..m -> Bit]
    BY GeneratorIs DEF States
<1>2. u \in States(g)
    BY DEF Unit, States, Bit
<1> HIDE DEF u
<1>3. r \in [0..m -> States(g)] /\ r[0] = u /\ \A k \in 1..m : r[k] = SyndromeShift(g, r[k - 1], 0)
    BY <1>2, ZeroRun
<1>4. 0 \in Bit
    BY DEF Bit
<1>5. \A k \in 1..m : \A i \in 1..m :
          r[k][i] = ((IF i < m THEN r[k - 1][i + 1] ELSE 0) + (IF r[k - 1][1] = 1 THEN g[i] ELSE 0)) % 2
    <2> SUFFICES ASSUME NEW k \in 1..m, NEW i \in 1..m
                 PROVE  r[k][i] = ((IF i < m THEN r[k - 1][i + 1] ELSE 0)
                                   + (IF r[k - 1][1] = 1 THEN g[i] ELSE 0)) % 2
        OBVIOUS
    <2> DEFINE x == r[k - 1]
    <2>1. k - 1 \in 0..m
        BY <1>1
    <2>2. x \in States(g)
        BY <1>3, <2>1
    <2>3. r[k] = SyndromeShift(g, x, 0)
        BY <1>3
    <2> HIDE DEF x, r
    <2>4. SyndromeShift(g, x, 0)[i] = ((IF i < m THEN x[i + 1] ELSE 0) + (IF x[1] = 1 THEN g[i] ELSE 0)) % 2
        BY <1>4, <2>2, SyndromeShiftIs
    <2> QED BY <2>3, <2>4 DEF x
<1> HIDE DEF r
<1> DEFINE P == {k \in 0..(m - 1) : \A i \in 1..m : r[k][i] = IF i = m - k THEN 1 ELSE 0}
<1>6. \A k \in 0..(m - 1) : k \in P
    <2>1. 0 \in P
        <3>1. \A i \in 1..m : u[i] = IF i = m THEN 1 ELSE 0
            BY DEF u, Unit
        <3> HIDE DEF m
        <3> QED BY <1>1, <1>3, <3>1
    <2> HIDE DEF m
    <2>2. \A k \in 0..((m - 1) - 1) : k \in P => k + 1 \in P
        <3> SUFFICES ASSUME NEW k \in 0..((m - 1) - 1), k \in P PROVE k + 1 \in P
            OBVIOUS
        <3>0. \A i \in 1..m : r[k][i] = IF i = m - k THEN 1 ELSE 0
            OBVIOUS
        <3>7. k + 1 \in 0..(m - 1)
            BY <1>1
        <3> SUFFICES ASSUME NEW i \in 1..m PROVE r[k + 1][i] = IF i = m - (k + 1) THEN 1 ELSE 0
            BY <3>7
        <3> HIDE DEF P
        <3>1. k + 1 \in 0..(m - 1) /\ k + 1 \in 1..m /\ (k + 1) - 1 = k /\ 1 \in 1..m /\ 1 # m - k
            BY <1>1
        <3>2. r[k][1] = 0
            BY <3>0, <3>1
        <3>3. r[k + 1][i] = ((IF i < m THEN r[k][i + 1] ELSE 0) + 0) % 2
            BY <1>5, <3>1, <3>2
        <3>4. CASE i < m
            <4>1. i + 1 \in 1..m /\ (i + 1 = m - k <=> i = m - (k + 1))
                BY <1>1, <3>4
            <4>2. r[k][i + 1] = IF i = m - (k + 1) THEN 1 ELSE 0
                BY <3>0, <4>1
            <4> QED BY <3>1, <3>3, <3>4, <4>2
        <3>5. CASE ~(i < m)
            <4>1. i # m - (k + 1)
                BY <1>1, <3>5
            <4> QED BY <3>1, <3>3, <3>5, <4>1
        <3> QED BY <3>4, <3>5
    <2>3. m - 1 \in Nat
        BY <1>1
    <2> HIDE DEF P
    <2> QED BY <2>1, <2>2, <2>3, UpTo
<1>7. r[m] = g
    <2> HIDE DEF m
    <2>1. m - 1 \in 0..(m - 1) /\ m \in 1..m /\ m \in 0..m
        BY <1>1
    <2>2. \A i \in 1..m : r[m - 1][i] = IF i = m - (m - 1) THEN 1 ELSE 0
        BY <1>6, <2>1
    <2>3. \A i \in 1..m : r[m - 1][i] = IF i = 1 THEN 1 ELSE 0
        <3>1. m - (m - 1) = 1
            BY <1>1
        <3> QED BY <2>2, <3>1
    <2>4. \A i \in 1..m : r[m][i] = g[i]
        <3> SUFFICES ASSUME NEW i \in 1..m PROVE r[m][i] = g[i]
            OBVIOUS
        <3>1. r[m][i] = ((IF i < m THEN r[m - 1][i + 1] ELSE 0) + (IF r[m - 1][1] = 1 THEN g[i] ELSE 0)) % 2
            BY <1>5, <2>1
        <3>2. r[m - 1][1] = 1
            BY <1>1, <2>3
        <3>3. i < m => r[m - 1][i + 1] = 0
            BY <1>1, <2>3
        <3>4. r[m][i] = (0 + g[i]) % 2
            BY <3>1, <3>2, <3>3
        <3> QED BY <1>1, <3>4, BitSums
    <2>5. r[m] \in States(g)
        BY <1>3, <2>1
    <2> QED BY <1>1, <2>4, <2>5 DEF States, m
<1> QED BY <1>2, <1>7 DEF Power, r, u, m

\* As many bits as the register is wide are added to the state behind them.
LEMMA BitsAreLoaded ==
    ASSUME NEW g, Generator(g), NEW x \in States(g)
    PROVE  Run(g, Zero(g), x)[Len(g)] = x
<1> DEFINE m == Len(g)
           z == Zero(g)
           r == Run(g, z, x)
<1>1. m \in Nat \ {0} /\ x \in [1..m -> Bit] /\ z \in States(g) /\ \A i \in 1..m : z[i] = 0
    BY GeneratorIs DEF States, Zero
<1>2. x \in Seq(Bit) /\ Len(x) = m
    BY <1>1, SeqIs
<1> HIDE DEF z
<1>3. r \in [0..m -> States(g)] /\ r[0] = z /\ \A k \in 1..m : r[k] = SyndromeShift(g, r[k - 1], x[k])
    <2>1. /\ Run(g, z, x) \in [0..Len(x) -> States(g)]
          /\ Run(g, z, x)[0] = z
          /\ \A k \in 1..Len(x) : Run(g, z, x)[k] = SyndromeShift(g, Run(g, z, x)[k - 1], x[k])
        BY <1>1, <1>2, RunIs
    <2> QED BY <1>2, <2>1
<1>4. \A k \in 1..m : \A i \in 1..m :
          r[k][i] = ((IF i < m THEN r[k - 1][i + 1] ELSE x[k]) + (IF r[k - 1][1] = 1 THEN g[i] ELSE 0)) % 2
    <2> SUFFICES ASSUME NEW k \in 1..m, NEW i \in 1..m
                 PROVE  r[k][i] = ((IF i < m THEN r[k - 1][i + 1] ELSE x[k])
                                   + (IF r[k - 1][1] = 1 THEN g[i] ELSE 0)) % 2
        OBVIOUS
    <2> DEFINE y == r[k - 1]
               b == x[k]
    <2>1. k - 1 \in 0..m
        BY <1>1
    <2>2. y \in States(g) /\ b \in Bit
        BY <1>1, <1>3, <2>1
    <2>3. r[k] = SyndromeShift(g, y, b)
        BY <1>3
    <2> HIDE DEF y, r, b
    <2>4. SyndromeShift(g, y, b)[i] = ((IF i < m THEN y[i + 1] ELSE b) + (IF y[1] = 1 THEN g[i] ELSE 0)) % 2
        BY <2>2, SyndromeShiftIs
    <2> QED BY <2>3, <2>4 DEF y, b
<1> HIDE DEF r, m
<1> DEFINE P == {k \in 0..m : \A i \in 1..m : r[k][i] = IF i > m - k THEN x[i - (m - k)] ELSE 0}
<1>5. \A k \in 0..m : k \in P
    <2>1. 0 \in P
        BY <1>1, <1>3
    <2>2. \A k \in 0..(m - 1) : k \in P => k + 1 \in P
        <3> SUFFICES ASSUME NEW k \in 0..(m - 1), k \in P PROVE k + 1 \in P
            OBVIOUS
        <3>0. \A i \in 1..m : r[k][i] = IF i > m - k THEN x[i - (m - k)] ELSE 0
            OBVIOUS
        <3>7. k + 1 \in 0..m
            BY <1>1
        <3> SUFFICES ASSUME NEW i \in 1..m
                     PROVE  r[k + 1][i] = IF i > m - (k + 1) THEN x[i - (m - (k + 1))] ELSE 0
            BY <3>7
        <3> HIDE DEF P
        <3>1. k + 1 \in 0..m /\ k + 1 \in 1..m /\ (k + 1) - 1 = k /\ 1 \in 1..m /\ ~(1 > m - k)
            BY <1>1
        <3>2. r[k][1] = 0
            BY <3>0, <3>1
        <3>3. r[k + 1][i] = ((IF i < m THEN r[k][i + 1] ELSE x[k + 1]) + 0) % 2
            BY <1>4, <3>1, <3>2
        <3>4. CASE i < m
            <4>1. i + 1 \in 1..m /\ (i + 1 > m - k <=> i > m - (k + 1)) /\ (i + 1) - (m - k) = i - (m - (k + 1))
                BY <1>1, <3>4
            <4>2. r[k][i + 1] = IF i > m - (k + 1) THEN x[i - (m - (k + 1))] ELSE 0
                BY <3>0, <4>1
            <4>3. r[k][i + 1] \in Bit
                <5>1. r[k] \in [1..m -> Bit]
                    BY <1>3, <3>1 DEF States, m
                <5> QED BY <4>1, <5>1
            <4>4. r[k + 1][i] = r[k][i + 1]
                BY <3>3, <3>4, <4>3, BitSums
            <4> QED BY <3>1, <4>2, <4>4
        <3>5. CASE ~(i < m)
            <4>1. i > m - (k + 1) /\ i - (m - (k + 1)) = k + 1
                BY <1>1, <3>5
            <4>2. r[k + 1][i] = x[k + 1]
                BY <1>1, <3>1, <3>3, <3>5, BitSums
            <4> QED BY <3>1, <4>1, <4>2
        <3> QED BY <3>4, <3>5
    <2> HIDE DEF P
    <2> QED BY <1>1, <2>1, <2>2, UpTo
<1>6. \A i \in 1..m : r[m][i] = x[i]
    <2>1. m \in 0..m /\ \A i \in 1..m : i > m - m /\ i - (m - m) = i
        BY <1>1
    <2> QED BY <1>5, <2>1
<1>7. r[m] \in [1..m -> Bit]
    BY <1>1, <1>3 DEF States, m
<1>8. r[m] = x
    BY <1>1, <1>6, <1>7
<1> QED BY <1>8 DEF r, z, m

\* As many bits as the register is wide are added to what the zeros would leave.
LEMMA RunOfBits ==
    ASSUME NEW g, Generator(g), NEW s \in States(g), NEW x \in States(g)
    PROVE  Run(g, s, x)[Len(g)] = Xor(Power(g, s), x)
<1> DEFINE m == Len(g)
           z == Zero(g)
           w == Zeros(m)
<1>1. m \in Nat /\ s \in [1..m -> Bit] /\ x \in [1..m -> Bit] /\ z \in States(g) /\ m \in 0..m
      /\ w \in [1..m -> Bit]
    <2>1. m \in Nat /\ z \in States(g)
        BY GeneratorIs
    <2>2. w \in [1..m -> Bit]
        BY DEF Zeros, Bit
    <2> QED BY <2>1, <2>2 DEF States
<1>2. Xor(s, z) = s /\ Xor(w, x) = x
    BY <1>1, XorIs DEF Zero, Zeros
<1>3. \A k \in 0..m : Run(g, Xor(s, z), Xor(w, x))[k] = Xor(Run(g, s, w)[k], Run(g, z, x)[k])
    <2> HIDE DEF z, w, m
    <2> QED BY <1>1, RunSums
<1>4. Run(g, Xor(s, z), Xor(w, x))[m] = Xor(Run(g, s, w)[m], Run(g, z, x)[m])
    BY <1>1, <1>3
<1> QED BY <1>2, <1>4, BitsAreLoaded DEF Power

--------------------------------------------------------------------------------
(* Parity words *)

\* A bit enters the register from behind.
LEMMA BitEnters ==
    ASSUME NEW g, Generator(g), NEW s \in States(g), NEW b \in Bit
    PROVE  SyndromeShift(g, s, b) = Xor(SyndromeShift(g, s, 0), IF b = 1 THEN Unit(g) ELSE Zero(g))
<1> DEFINE m == Len(g)
           z == SyndromeShift(g, s, 0)
           y == SyndromeShift(g, s, b)
           d == IF b = 1 THEN Unit(g) ELSE Zero(g)
           f(i) == IF s[1] = 1 THEN g[i] ELSE 0
<1>1. m \in Nat \ {0} /\ g \in [1..m -> Bit] /\ s \in [1..m -> Bit] /\ 0 \in Bit
    BY GeneratorIs DEF States, Bit
<1>2. z = [i \in 1..m |-> ((IF i < m THEN s[i + 1] ELSE 0) + f(i)) % 2]
    BY <1>1, SyndromeShiftIs
<1>3. y = [i \in 1..m |-> ((IF i < m THEN s[i + 1] ELSE b) + f(i)) % 2]
    BY SyndromeShiftIs
<1>4. \A i \in 1..m : d[i] = IF i = m THEN b ELSE 0
    BY DEF Unit, Zero, Bit
<1>5. Xor(z, d) = [i \in 1..m |-> (z[i] + d[i]) % 2]
    BY <1>2 DEF Xor
<1> HIDE DEF z, y, d, m, f
<1>6. \A i \in 1..m : y[i] = (z[i] + d[i]) % 2
    <2> SUFFICES ASSUME NEW i \in 1..m PROVE y[i] = (z[i] + d[i]) % 2
        OBVIOUS
    <2>1. f(i) \in Bit
        <3>1. g[i] \in Bit
            BY <1>1
        <3> QED BY <3>1 DEF f, Bit
    <2>2. CASE i < m
        <3>1. s[i + 1] \in Bit /\ i # m
            BY <1>1, <2>2
        <3>2. y[i] = (s[i + 1] + f(i)) % 2 /\ z[i] = (s[i + 1] + f(i)) % 2 /\ d[i] = 0
            BY <1>2, <1>3, <1>4, <2>2, <3>1
        <3>3. (s[i + 1] + f(i)) % 2 \in Bit
            BY <2>1, <3>1, BitSums
        <3> QED BY <3>2, <3>3, BitSums
    <2>3. CASE ~(i < m)
        <3>1. i = m
            BY <1>1, <2>3
        <3>2. y[i] = (b + f(i)) % 2 /\ z[i] = (0 + f(i)) % 2 /\ d[i] = b
            BY <1>2, <1>3, <1>4, <2>3, <3>1
        <3>3. (0 + f(i)) % 2 = f(i) /\ (f(i) + b) % 2 = (b + f(i)) % 2
            BY <2>1, BitSums
        <3> QED BY <3>2, <3>3
    <2> QED BY <2>2, <2>3
<1>7. y = Xor(z, d)
    BY <1>3, <1>5, <1>6
<1> QED BY <1>7 DEF y, z, d

\* The sum of two states behind the zeros.
LEMMA PowerSums ==
    ASSUME NEW g, Generator(g), NEW s \in States(g), NEW t \in States(g)
    PROVE  Power(g, Xor(s, t)) = Xor(Power(g, s), Power(g, t))
<1> DEFINE m == Len(g)
           w == Zeros(m)
<1>1. m \in Nat /\ m \in 0..m
    BY GeneratorIs
<1>2. w \in [1..m -> Bit]
    BY DEF Zeros, Bit
<1>3. Xor(w, w) = w
    BY <1>1, <1>2, XorIs DEF Zeros
<1>4. \A k \in 0..m : Run(g, Xor(s, t), Xor(w, w))[k] = Xor(Run(g, s, w)[k], Run(g, t, w)[k])
    <2> HIDE DEF w, m
    <2> QED BY <1>1, <1>2, RunSums
<1>5. Run(g, Xor(s, t), Xor(w, w))[m] = Xor(Run(g, s, w)[m], Run(g, t, w)[m])
    BY <1>1, <1>4
<1> QED BY <1>3, <1>5 DEF Power

\* Zeros leave the state zero.
LEMMA PowerOfZero ==
    ASSUME NEW g, Generator(g)
    PROVE  Power(g, Zero(g)) = Zero(g)
<1> DEFINE z == Zero(g)
           p == Power(g, z)
<1>1. z \in States(g) /\ Len(g) \in Nat /\ z = [i \in 1..Len(g) |-> 0]
    BY GeneratorIs DEF Zero
<1>2. p \in States(g)
    BY <1>1, PowerIs
<1>3. Power(g, Xor(z, z)) = Xor(p, p)
    BY <1>1, PowerSums
<1> HIDE DEF p
<1>4. Xor(p, p) = z
    BY <1>1, <1>2, XorIs DEF States
<1>5. Xor(z, z) = z
    BY <1>1, XorIs DEF States
<1> QED BY <1>3, <1>4, <1>5

\* The encoder has what the syndrome has behind as many zeros as the register is wide.
LEMMA EncoderIsPower ==
    ASSUME NEW g, Generator(g), NEW v \in Seq(Bit)
    PROVE  /\ ParityOf(v, g) = Power(g, SyndromeOf(v, g))
           /\ ParityOf(v, g) \in States(g) /\ SyndromeOf(v, g) \in States(g)
<1> DEFINE n == Len(v)
           e == EncoderStates(v, g)
           t == Run(g, Zero(g), v)
<1>0. n \in Nat /\ (\A k \in 1..n : v[k] \in Bit) /\ Zero(g) \in States(g) /\ 0 \in Bit
    BY GeneratorIs DEF Bit
<1>1. e \in [0..n -> States(g)] /\ e[0] = Zero(g) /\ \A k \in 1..n : e[k] = EncoderShift(g, e[k - 1], v[k])
    BY EncoderStatesAre
<1>2. t \in [0..n -> States(g)] /\ t[0] = Zero(g) /\ \A k \in 1..n : t[k] = SyndromeShift(g, t[k - 1], v[k])
    BY <1>0, RunIs
<1> HIDE DEF e, t, n
<1> DEFINE P == {k \in 0..n : e[k] = Power(g, t[k])}
<1>3. \A k \in 0..n : k \in P
    <2>1. 0 \in P
        BY <1>0, <1>1, <1>2, PowerOfZero
    <2>2. \A k \in 0..(n - 1) : k \in P => k + 1 \in P
        <3> SUFFICES ASSUME NEW k \in 0..(n - 1), e[k] = Power(g, t[k])
                     PROVE  k + 1 \in 0..n /\ e[k + 1] = Power(g, t[k + 1])
            OBVIOUS
        <3> DEFINE s == t[k]
                   b == v[k + 1]
                   h == SyndromeShift(g, s, 0)
                   u == IF b = 1 THEN Unit(g) ELSE Zero(g)
        <3>1. k + 1 \in 0..n /\ k + 1 \in 1..n /\ (k + 1) - 1 = k /\ k \in 0..n
            BY <1>0
        <3>2. s \in States(g) /\ b \in Bit
            BY <1>0, <1>2, <3>1
        <3>3. t[k + 1] = SyndromeShift(g, s, b)
            BY <1>2, <3>1
        <3>4. e[k + 1] = EncoderShift(g, Power(g, s), b)
            BY <1>1, <3>1
        <3> HIDE DEF s, b
        <3>5. Power(g, s) \in States(g)
            BY <3>2, PowerIs
        <3>6. e[k + 1] = Xor(SyndromeShift(g, Power(g, s), 0), IF b = 1 THEN g ELSE Zero(g))
            BY <3>2, <3>4, <3>5, EncoderShiftIs
        <3>7. SyndromeShift(g, Power(g, s), 0) = Power(g, h)
            BY <3>2, PowerOfStep
        <3>8. u \in States(g) /\ Power(g, u) = IF b = 1 THEN g ELSE Zero(g)
            BY <1>0, PowerOfUnit, PowerOfZero
        <3>9. h \in States(g)
            BY <1>0, <3>2, SyndromeShiftIs
        <3>10. t[k + 1] = Xor(h, u)
            BY <3>2, <3>3, BitEnters
        <3> HIDE DEF h, u
        <3>11. Power(g, Xor(h, u)) = Xor(Power(g, h), Power(g, u))
            BY <3>8, <3>9, PowerSums
        <3> QED BY <3>1, <3>6, <3>7, <3>8, <3>10, <3>11
    <2> HIDE DEF P
    <2> QED BY <1>0, <2>1, <2>2, UpTo
<1>4. e[n] = Power(g, t[n]) /\ e[n] \in States(g) /\ t[n] \in States(g)
    BY <1>0, <1>1, <1>2, <1>3
<1>5. ParityOf(v, g) = e[n] /\ SyndromeOf(v, g) = t[n]
    <2>1. SyndromeOf(v, g) = t[n]
        BY SyndromeIsRun DEF t, n
    <2> QED BY <2>1 DEF ParityOf, e, n
<1> QED BY <1>4, <1>5

\* The syndrome of a vector with as many bits behind it as the register is wide is the sum of
\* these and the parity.
LEMMA SyndromeWithWord ==
    ASSUME NEW g, Generator(g), NEW v \in Seq(Bit), NEW x \in States(g)
    PROVE  SyndromeOf(v \o x, g) = Xor(ParityOf(v, g), x)
<1> DEFINE m == Len(g)
           s == SyndromeOf(v, g)
<1>1. m \in Nat /\ Zero(g) \in States(g)
    BY GeneratorIs
<1>2. x \in Seq(Bit) /\ Len(x) = m
    BY <1>1, SeqIs DEF States
<1>3. v \o x \in Seq(Bit) /\ Len(v \o x) = Len(v) + Len(x)
    BY <1>2
<1>4. SyndromeOf(v \o x, g) = Run(g, Zero(g), v \o x)[Len(v) + Len(x)]
    BY <1>3, SyndromeIsRun
<1>5. Run(g, Zero(g), v \o x)[Len(v) + Len(x)] = Run(g, Run(g, Zero(g), v)[Len(v)], x)[Len(x)]
    BY <1>1, <1>2, RunJoins
<1>6. Run(g, Zero(g), v)[Len(v)] = s
    BY SyndromeIsRun
<1>7. s \in States(g) /\ ParityOf(v, g) = Power(g, s)
    BY EncoderIsPower
<1>8. Run(g, s, x)[m] = Xor(Power(g, s), x)
    BY <1>7, RunOfBits
<1> QED BY <1>2, <1>4, <1>5, <1>6, <1>7, <1>8

\* A single bit does not leave the state zero.
LEMMA OneBitShows ==
    ASSUME NEW g, Generator(g), NEW n \in Nat, NEW i \in 1..n
    PROVE  Run(g, Zero(g), [k \in 1..n |-> IF k = i THEN 1 ELSE 0])[n] # Zero(g)
<1> DEFINE z == Zero(g)
           w == [k \in 1..n |-> IF k = i THEN 1 ELSE 0]
           r == Run(g, z, w)
<1>1. z \in States(g) /\ 0 \in Bit /\ 1 \in Bit /\ Len(g) \in Nat \ {0}
    BY GeneratorIs DEF Bit
<1>2. w \in [1..n -> Bit] /\ (\A k \in 1..n : w[k] = IF k = i THEN 1 ELSE 0)
    BY <1>1
<1> HIDE DEF w
<1>3. w \in Seq(Bit) /\ Len(w) = n
    BY <1>2, SeqIs
<1>4. r \in [0..n -> States(g)] /\ r[0] = z /\ \A k \in 1..n : r[k] = SyndromeShift(g, r[k - 1], w[k])
    <2>1. /\ Run(g, z, w) \in [0..Len(w) -> States(g)]
          /\ Run(g, z, w)[0] = z
          /\ \A k \in 1..Len(w) : Run(g, z, w)[k] = SyndromeShift(g, Run(g, z, w)[k - 1], w[k])
        BY <1>1, <1>3, RunIs
    <2> QED BY <1>3, <2>1
<1> HIDE DEF r
<1>5. SyndromeShift(g, z, 1) # z
    <2>1. SyndromeShift(g, z, 0) = z
        BY <1>1, ZeroStaysZero
    <2>2. SyndromeShift(g, z, 1) = Xor(z, Unit(g))
        BY <1>1, <2>1, BitEnters
    <2>3. Unit(g) \in States(g)
        BY PowerOfUnit
    <2>4. Xor(z, Unit(g)) = Unit(g)
        BY <1>1, <2>3, XorIs DEF States, Zero
    <2>5. Unit(g)[Len(g)] = 1 /\ z[Len(g)] = 0
        BY <1>1 DEF Unit, Zero
    <2> HIDE DEF z
    <2> QED BY <2>2, <2>4, <2>5
<1> HIDE DEF z
<1> DEFINE P == {k \in 0..n : IF k < i THEN r[k] = z ELSE r[k] # z}
<1>6. \A k \in 0..n : k \in P
    <2>1. 0 \in P
        BY <1>4
    <2>2. \A k \in 0..(n - 1) : k \in P => k + 1 \in P
        <3> SUFFICES ASSUME NEW k \in 0..(n - 1), k \in P PROVE k + 1 \in P
            OBVIOUS
        <3>0. (k < i => r[k] = z) /\ (~(k < i) => r[k] # z)
            OBVIOUS
        <3>1. k + 1 \in 0..n /\ k + 1 \in 1..n /\ (k + 1) - 1 = k /\ k \in 0..n
            OBVIOUS
        <3> SUFFICES IF k + 1 < i THEN r[k + 1] = z ELSE r[k + 1] # z
            BY <3>1
        <3> HIDE DEF P
        <3>2. r[k + 1] = SyndromeShift(g, r[k], w[k + 1]) /\ r[k] \in States(g)
            BY <1>4, <3>1
        <3>3. CASE k + 1 < i
            <4>1. k < i /\ k + 1 # i
                BY <3>3
            <4>2. r[k + 1] = SyndromeShift(g, z, 0)
                BY <1>2, <3>0, <3>1, <3>2, <4>1
            <4> QED BY <1>1, <3>3, <4>2, ZeroStaysZero DEF z
        <3>4. CASE k + 1 = i
            <4>1. k < i /\ ~(k + 1 < i)
                BY <3>4
            <4>2. r[k + 1] = SyndromeShift(g, z, 1)
                BY <1>2, <3>0, <3>1, <3>2, <3>4, <4>1
            <4> QED BY <1>5, <4>1, <4>2
        <3>5. CASE k + 1 > i
            <4>1. ~(k < i) /\ k + 1 # i /\ ~(k + 1 < i)
                BY <3>5
            <4>2. r[k + 1] = SyndromeShift(g, r[k], 0) /\ r[k] # z
                BY <1>2, <3>0, <3>1, <3>2, <4>1
            <4> QED BY <3>2, <4>1, <4>2, ZeroStaysZero DEF z
        <3> QED BY <3>3, <3>4, <3>5
    <2> HIDE DEF P
    <2> QED BY <2>1, <2>2, UpTo
<1>7. n \in 0..n /\ ~(n < i)
    OBVIOUS
<1>8. r[n] # z
    BY <1>6, <1>7
<1> QED BY <1>8 DEF r, z, w

\* A parity word tells every wrong bit.
LEMMA ParityRead ==
    ASSUME NEW v \in Seq(Bit), NEW g, Generator(g)
    PROVE  ParityChecks(v, g)
<1> DEFINE m == Len(g)
           p == ParityOf(v, g)
           q == [i \in DOMAIN g |-> 1 - p[i]]
           z == Zero(g)
           word == v \o p
<1>1. m \in Nat \ {0} /\ p \in [1..m -> Bit] /\ DOMAIN g = 1..m /\ z = [i \in 1..m |-> 0] /\ Zeros(m) = z
    BY GeneratorIs, EncoderIsPower DEF States, Zero
<1>2. ParityWord(v, g, FALSE) = p /\ ParityWord(v, g, TRUE) = q
    BY DEF ParityWord
<1>3. q \in [1..m -> Bit] /\ \A i \in 1..m : q[i] = 1 - p[i]
    <2>1. \A i \in 1..m : 1 - p[i] \in Bit
        BY <1>1, BitSums
    <2> QED BY <1>1, <2>1
<1> HIDE DEF p, q
<1>4. SyndromeOf(v \o p, g) = z
    <2>1. SyndromeOf(v \o p, g) = Xor(p, p)
        BY <1>1, SyndromeWithWord DEF p, States
    <2>2. Xor(p, p) = [i \in 1..m |-> 0]
        BY <1>1, XorIs
    <2> QED BY <1>1, <2>1, <2>2
<1>5. SyndromeOf(v \o q, g) = [i \in DOMAIN g |-> 1]
    <2>1. SyndromeOf(v \o q, g) = Xor(p, q)
        BY <1>3, SyndromeWithWord DEF p, States
    <2>2. Xor(p, q) = [i \in 1..m |-> (p[i] + q[i]) % 2]
        BY <1>1 DEF Xor
    <2>3. \A i \in 1..m : (p[i] + q[i]) % 2 = 1
        BY <1>1, <1>3, BitSums
    <2> QED BY <1>1, <2>1, <2>2, <2>3
<1>6. ASSUME NEW i \in DOMAIN word
      PROVE  SyndromeOf([word EXCEPT ![i] = 1 - @], g) # z
    <2> DEFINE n == Len(word)
               d == [k \in 1..n |-> IF k = i THEN 1 ELSE 0]
               wrong == [word EXCEPT ![i] = 1 - word[i]]
    <2>1. word \in Seq(Bit) /\ n \in Nat /\ word \in [1..n -> Bit] /\ i \in 1..n
        <3>1. p \in Seq(Bit)
            BY <1>1, SeqIs
        <3>2. word \in Seq(Bit)
            BY <3>1
        <3> HIDE DEF word
        <3>3. n \in Nat /\ DOMAIN word = 1..n /\ word \in [1..n -> Bit]
            BY <3>2
        <3> QED BY <1>6, <3>2, <3>3
    <2> HIDE DEF word, n
    <2>2. wrong = [k \in 1..n |-> IF k = i THEN 1 - word[k] ELSE word[k]] /\ wrong \in [1..n -> Bit]
        <3>1. 1 - word[i] \in Bit
            BY <2>1, BitSums
        <3> QED BY <2>1, <3>1
    <2>3. d \in [1..n -> Bit] /\ Xor(word, d) = wrong
        <3>1. d \in [1..n -> Bit]
            BY DEF Bit
        <3>2. Xor(word, d) = [k \in 1..n |-> (word[k] + d[k]) % 2]
            BY <2>1 DEF Xor
        <3>3. \A k \in 1..n : (word[k] + d[k]) % 2 = IF k = i THEN 1 - word[k] ELSE word[k]
            <4>1. \A b \in Bit : (b + 1) % 2 = 1 - b /\ (b + 0) % 2 = b
                BY DEF Bit
            <4> QED BY <2>1, <4>1
        <3> HIDE DEF d
        <3> QED BY <2>2, <3>1, <3>2, <3>3
    <2> HIDE DEF wrong
    <2>4. z \in States(g) /\ Xor(z, z) = z
        BY <1>1, GeneratorIs, XorIs DEF States
    <2>5. Run(g, z, d)[n] # z
        BY <2>1, OneBitShows
    <2> HIDE DEF d
    <2>6. SyndromeOf(word, g) = Run(g, z, word)[n] /\ SyndromeOf(wrong, g) = Run(g, z, wrong)[n]
        <3>1. wrong \in Seq(Bit) /\ Len(wrong) = n /\ Len(word) = n
            BY <2>1, <2>2, SeqIs DEF n
        <3> QED BY <2>1, <3>1, SyndromeIsRun
    <2>7. Run(g, Xor(z, z), Xor(word, d))[n] = Xor(Run(g, z, word)[n], Run(g, z, d)[n])
        <3>1. n \in 0..n
            BY <2>1
        <3> HIDE DEF z
        <3> QED BY <2>1, <2>3, <2>4, <3>1, RunSums
    <2>8. Run(g, z, word)[n] = z
        BY <1>4, <2>6 DEF word
    <2>9. Run(g, z, d)[n] \in [1..m -> Bit]
        <3>1. d \in Seq(Bit) /\ Len(d) = n
            BY <2>1, <2>3, SeqIs
        <3>2. Run(g, z, d) \in [0..Len(d) -> States(g)]
            BY <2>4, <3>1, RunIs
        <3>3. n \in 0..n
            BY <2>1
        <3> QED BY <3>1, <3>2, <3>3 DEF States
    <2>10. Xor(z, Run(g, z, d)[n]) = Run(g, z, d)[n]
        <3> DEFINE x == Run(g, z, d)[n]
        <3>1. x \in [1..m -> Bit]
            BY <2>9
        <3> HIDE DEF x
        <3>2. Xor([k \in 1..m |-> 0], x) = x
            BY <1>1, <3>1, XorIs
        <3> QED BY <1>1, <3>2 DEF x
    <2>11. SyndromeOf(wrong, g) # z
        BY <2>3, <2>4, <2>5, <2>6, <2>7, <2>8, <2>10
    <2> QED BY <2>11 DEF wrong
<1> HIDE DEF word, z
<1>7. SyndromeOf(v \o ParityWord(v, g, FALSE), g) = Zeros(Len(g))
    BY <1>1, <1>2, <1>4
<1>8. SyndromeOf(v \o ParityWord(v, g, TRUE), g) = [i \in DOMAIN g |-> 1]
    BY <1>2, <1>5
<1>9. LET w == v \o ParityWord(v, g, FALSE)
      IN  \A i \in DOMAIN w : SyndromeOf([w EXCEPT ![i] = 1 - @], g) # Zeros(Len(g))
    BY <1>1, <1>2, <1>6 DEF word
<1> QED BY <1>7, <1>8, <1>9 DEF ParityChecks

--------------------------------------------------------------------------------
(* Theorems *)

\* The vector that writeField writes bit by bit stays a sequence of bits.
THEOREM BitsCorrect == BitsSpec => [](bits \in Seq(Bit))
<1>1. BitsInit => bits \in Seq(Bit)
    BY DEF BitsInit
<1>2. bits \in Seq(Bit) /\ [AppendBit]_bits => (bits \in Seq(Bit))'
    BY DEF AppendBit, Bit
<1> QED BY <1>1, <1>2, PTL DEF BitsSpec

\* fillField, peekField, pack, unpack, hex, unhex, map, unmap, copyPunctured, copyUnPunctured,
\* parity and syndrome: what is written to a vector of bits is what is read, and a parity word
\* tells every wrong bit.  For vectors of every length, every generator and every map.
THEOREM VectorsCorrect == BitsSpec => []VectorsReadBack
<1>1. bits \in Seq(Bit) => VectorsReadBack
    <2> SUFFICES ASSUME bits \in Seq(Bit) PROVE VectorsReadBack
        OBVIOUS
    <2>1. \A g \in Generators : Generator(g)
        BY VectorBitsAssumption DEF VectorBitsAssumption, Generator, Bit
    <2>2. \A g \in Generators : ParityChecks(bits, g)
        BY <2>1, ParityRead
    <2> QED BY <2>2, FieldsRead, OctetsRead, PuncturesRead, MapsRead DEF VectorsReadBack
<1> QED BY <1>1, BitsCorrect, PTL

--------------------------------------------------------------------------------
(* Short messages: what a frame has, and fields that are wide enough *)

\* A frame has the bits w behind its first rp.
Has(v, rp, w) == rp + Len(w) <= Len(v) /\ \A i \in 1..Len(w) : v[rp + i] = w[i]

\* What is written one behind the other is there one behind the other.
LEMMA HasBoth ==
    ASSUME NEW v \in Seq(Bit), NEW rp \in Nat, NEW a \in Seq(Bit), NEW b \in Seq(Bit), Has(v, rp, a \o b)
    PROVE  /\ Has(v, rp, a)
           /\ Has(v, rp + Len(a), b)
           /\ a \o b \in Seq(Bit) /\ Len(a \o b) = Len(a) + Len(b)
           /\ rp + Len(a) \in Nat
<1> DEFINE w == a \o b
           n == Len(a)
           m == Len(b)
<1>1. n \in Nat /\ m \in Nat /\ w \in Seq(Bit) /\ Len(w) = n + m /\ Len(v) \in Nat
    OBVIOUS
<1>2. \A i \in 1..n : w[i] = a[i]
    OBVIOUS
<1>3. \A i \in 1..m : w[n + i] = b[i]
    OBVIOUS
<1>4. rp + (n + m) <= Len(v) /\ \A i \in 1..(n + m) : v[rp + i] = w[i]
    BY <1>1 DEF Has
<1> HIDE DEF w, n, m
<1>5. rp + n <= Len(v) /\ \A i \in 1..n : v[rp + i] = a[i]
    <2>1. \A i \in 1..n : i \in 1..(n + m)
        BY <1>1
    <2> QED BY <1>1, <1>2, <1>4, <2>1
<1>6. (rp + n) + m <= Len(v) /\ \A i \in 1..m : v[(rp + n) + i] = b[i]
    <2>1. \A i \in 1..m : n + i \in 1..(n + m) /\ rp + (n + i) = (rp + n) + i
        BY <1>1
    <2>2. \A i \in 1..m : v[rp + (n + i)] = w[n + i]
        BY <1>4, <2>1
    <2>3. \A i \in 1..m : v[(rp + n) + i] = b[i]
        BY <1>3, <2>1, <2>2
    <2> QED BY <1>1, <1>4, <2>3
<1> QED BY <1>1, <1>5, <1>6 DEF Has, w, n, m

\* And the field there is their number.
LEMMA HasNumber ==
    ASSUME NEW v \in Seq(Bit), NEW rp \in Nat, NEW n \in Nat, NEW w \in [1..n -> Bit], Has(v, rp, w)
    PROVE  Peek(v, rp, n) = Number(w)
<1>1. w \in Seq(Bit) /\ Len(w) = n
    BY SeqIs
<1>2. rp + n <= Len(v) /\ \A i \in 1..n : v[rp + i] = w[i]
    BY <1>1 DEF Has
<1>3. Part(v, rp, n) = w
    BY <1>2 DEF Part
<1> QED BY <1>2, <1>3, PeekIs

\* A field that is wide enough for a number has it.
LEMMA NumberOfField ==
    ASSUME NEW x \in Nat, NEW n \in Nat, RightShifts(x, n)[n] = 0
    PROVE  /\ Number(Field(x, n)) = x
           /\ Field(x, n) \in [1..n -> Bit] /\ Field(x, n) \in Seq(Bit) /\ Len(Field(x, n)) = n
<1> DEFINE w == Field(x, n)
           r == RightShifts(x, n)
           a == Accum(w)
<1>1. w \in [1..n -> Bit]
    BY FieldType
<1>2. w \in Seq(Bit) /\ Len(w) = n
    BY <1>1, SeqIs
<1>3. r \in [0..n -> Nat] /\ r[0] = x /\ \A k \in 1..n : r[k] = r[k - 1] \div 2
    BY RightShiftsAre
<1>4. \A i \in 1..n : w[i] = r[n - i] % 2
    BY DEF Field
<1> HIDE DEF w
<1>5. a[0] = 0 /\ \A k \in 1..n : a[k] = 2 * a[k - 1] + w[k]
    <2>1. /\ Accum(w)[0] = 0
          /\ \A k \in 1..Len(w) : Accum(w)[k] = 2 * Accum(w)[k - 1] + w[k]
        BY <1>2, AccumIs
    <2> QED BY <1>2, <2>1
<1> HIDE DEF r, a
<1> DEFINE P == {k \in 0..n : a[k] = r[n - k]}
<1>6. \A k \in 0..n : k \in P
    <2>1. 0 \in P
        BY <1>5 DEF r
    <2>2. \A k \in 0..(n - 1) : k \in P => k + 1 \in P
        <3> SUFFICES ASSUME NEW k \in 0..(n - 1), a[k] = r[n - k]
                     PROVE  k + 1 \in 0..n /\ a[k + 1] = r[n - (k + 1)]
            OBVIOUS
        <3>1. k + 1 \in 1..n /\ k + 1 \in 0..n /\ (k + 1) - 1 = k /\ n - k \in 1..n /\ (n - k) - 1 = n - (k + 1)
              /\ n - (k + 1) \in 0..n
            OBVIOUS
        <3>2. a[k + 1] = 2 * r[n - k] + (r[n - (k + 1)] % 2)
            BY <1>4, <1>5, <3>1
        <3>3. r[n - k] = r[n - (k + 1)] \div 2 /\ r[n - (k + 1)] \in Nat
            BY <1>3, <3>1
        <3>4. r[n - (k + 1)] = 2 * (r[n - (k + 1)] \div 2) + (r[n - (k + 1)] % 2)
            BY <3>3, DoubleAndHalf
        <3> QED BY <3>1, <3>2, <3>3, <3>4
    <2> HIDE DEF P
    <2> QED BY <2>1, <2>2, UpTo
<1>7. a[n] = x
    <2>1. n \in 0..n /\ n - n = 0
        OBVIOUS
    <2> QED BY <1>3, <1>6, <2>1
<1> QED BY <1>1, <1>2, <1>7 DEF Number, a, w

\* The shifts of a number that a field is wide enough for, one width after the other.
LEMMA Fits2 == \A x \in 0..3 : RightShifts(x, 2)[2] = 0
<1> SUFFICES ASSUME NEW x \in 0..3 PROVE RightShifts(x, 2)[2] = 0
    OBVIOUS
<1> DEFINE r == RightShifts(x, 2)
<1>1. x \in Nat /\ 2 \in Nat
    OBVIOUS
<1>2. r[0] = x /\ \A k \in 1..2 : r[k] = r[k - 1] \div 2
    BY <1>1, RightShiftsAre
<1> HIDE DEF r
<1>3. r[1] \in 0..1
    <2>1. 1 \in 1..2 /\ 1 - 1 = 0
        OBVIOUS
    <2>2. r[1] = x \div 2
        BY <1>2, <2>1
    <2> QED BY <2>2
<1>4. r[2] \in 0..0
    <2>1. 2 \in 1..2 /\ 2 - 1 = 1
        OBVIOUS
    <2>2. r[2] = r[1] \div 2
        BY <1>2, <2>1
    <2> QED BY <1>3, <2>2
<1>5. r[2] = 0
    BY <1>4
<1> QED BY <1>5 DEF r

\* 3 bits.
LEMMA Fits3 == \A x \in 0..7 : RightShifts(x, 3)[3] = 0
<1> SUFFICES ASSUME NEW x \in 0..7 PROVE RightShifts(x, 3)[3] = 0
    OBVIOUS
<1> DEFINE r == RightShifts(x, 3)
<1>1. x \in Nat /\ 3 \in Nat
    OBVIOUS
<1>2. r[0] = x /\ \A k \in 1..3 : r[k] = r[k - 1] \div 2
    BY <1>1, RightShiftsAre
<1> HIDE DEF r
<1>3. r[1] \in 0..3
    <2>1. 1 \in 1..3 /\ 1 - 1 = 0
        OBVIOUS
    <2>2. r[1] = x \div 2
        BY <1>2, <2>1
    <2> QED BY <2>2
<1>4. r[2] \in 0..1
    <2>1. 2 \in 1..3 /\ 2 - 1 = 1
        OBVIOUS
    <2>2. r[2] = r[1] \div 2
        BY <1>2, <2>1
    <2> QED BY <1>3, <2>2
<1>5. r[3] \in 0..0
    <2>1. 3 \in 1..3 /\ 3 - 1 = 2
        OBVIOUS
    <2>2. r[3] = r[2] \div 2
        BY <1>2, <2>1
    <2> QED BY <1>4, <2>2
<1>6. r[3] = 0
    BY <1>5
<1> QED BY <1>6 DEF r

\* 4 bits.
LEMMA Fits4 == \A x \in 0..15 : RightShifts(x, 4)[4] = 0
<1> SUFFICES ASSUME NEW x \in 0..15 PROVE RightShifts(x, 4)[4] = 0
    OBVIOUS
<1> DEFINE r == RightShifts(x, 4)
<1>1. x \in Nat /\ 4 \in Nat
    OBVIOUS
<1>2. r[0] = x /\ \A k \in 1..4 : r[k] = r[k - 1] \div 2
    BY <1>1, RightShiftsAre
<1> HIDE DEF r
<1>3. r[1] \in 0..7
    <2>1. 1 \in 1..4 /\ 1 - 1 = 0
        OBVIOUS
    <2>2. r[1] = x \div 2
        BY <1>2, <2>1
    <2> QED BY <2>2
<1>4. r[2] \in 0..3
    <2>1. 2 \in 1..4 /\ 2 - 1 = 1
        OBVIOUS
    <2>2. r[2] = r[1] \div 2
        BY <1>2, <2>1
    <2> QED BY <1>3, <2>2
<1>5. r[3] \in 0..1
    <2>1. 3 \in 1..4 /\ 3 - 1 = 2
        OBVIOUS
    <2>2. r[3] = r[2] \div 2
        BY <1>2, <2>1
    <2> QED BY <1>4, <2>2
<1>6. r[4] \in 0..0
    <2>1. 4 \in 1..4 /\ 4 - 1 = 3
        OBVIOUS
    <2>2. r[4] = r[3] \div 2
        BY <1>2, <2>1
    <2> QED BY <1>5, <2>2
<1>7. r[4] = 0
    BY <1>6
<1> QED BY <1>7 DEF r

\* 7 bits.
LEMMA Fits7 == \A x \in 0..127 : RightShifts(x, 7)[7] = 0
<1> SUFFICES ASSUME NEW x \in 0..127 PROVE RightShifts(x, 7)[7] = 0
    OBVIOUS
<1> DEFINE r == RightShifts(x, 7)
<1>1. x \in Nat /\ 7 \in Nat
    OBVIOUS
<1>2. r[0] = x /\ \A k \in 1..7 : r[k] = r[k - 1] \div 2
    BY <1>1, RightShiftsAre
<1> HIDE DEF r
<1>3. r[1] \in 0..63
    <2>1. 1 \in 1..7 /\ 1 - 1 = 0
        OBVIOUS
    <2>2. r[1] = x \div 2
        BY <1>2, <2>1
    <2> QED BY <2>2
<1>4. r[2] \in 0..31
    <2>1. 2 \in 1..7 /\ 2 - 1 = 1
        OBVIOUS
    <2>2. r[2] = r[1] \div 2
        BY <1>2, <2>1
    <2> QED BY <1>3, <2>2
<1>5. r[3] \in 0..15
    <2>1. 3 \in 1..7 /\ 3 - 1 = 2
        OBVIOUS
    <2>2. r[3] = r[2] \div 2
        BY <1>2, <2>1
    <2> QED BY <1>4, <2>2
<1>6. r[4] \in 0..7
    <2>1. 4 \in 1..7 /\ 4 - 1 = 3
        OBVIOUS
    <2>2. r[4] = r[3] \div 2
        BY <1>2, <2>1
    <2> QED BY <1>5, <2>2
<1>7. r[5] \in 0..3
    <2>1. 5 \in 1..7 /\ 5 - 1 = 4
        OBVIOUS
    <2>2. r[5] = r[4] \div 2
        BY <1>2, <2>1
    <2> QED BY <1>6, <2>2
<1>8. r[6] \in 0..1
    <2>1. 6 \in 1..7 /\ 6 - 1 = 5
        OBVIOUS
    <2>2. r[6] = r[5] \div 2
        BY <1>2, <2>1
    <2> QED BY <1>7, <2>2
<1>9. r[7] \in 0..0
    <2>1. 7 \in 1..7 /\ 7 - 1 = 6
        OBVIOUS
    <2>2. r[7] = r[6] \div 2
        BY <1>2, <2>1
    <2> QED BY <1>8, <2>2
<1>10. r[7] = 0
    BY <1>9
<1> QED BY <1>10 DEF r

\* 8 bits.
LEMMA Fits8 == \A x \in 0..255 : RightShifts(x, 8)[8] = 0
<1> SUFFICES ASSUME NEW x \in 0..255 PROVE RightShifts(x, 8)[8] = 0
    OBVIOUS
<1> DEFINE r == RightShifts(x, 8)
<1>1. x \in Nat /\ 8 \in Nat
    OBVIOUS
<1>2. r[0] = x /\ \A k \in 1..8 : r[k] = r[k - 1] \div 2
    BY <1>1, RightShiftsAre
<1> HIDE DEF r
<1>3. r[1] \in 0..127
    <2>1. 1 \in 1..8 /\ 1 - 1 = 0
        OBVIOUS
    <2>2. r[1] = x \div 2
        BY <1>2, <2>1
    <2> QED BY <2>2
<1>4. r[2] \in 0..63
    <2>1. 2 \in 1..8 /\ 2 - 1 = 1
        OBVIOUS
    <2>2. r[2] = r[1] \div 2
        BY <1>2, <2>1
    <2> QED BY <1>3, <2>2
<1>5. r[3] \in 0..31
    <2>1. 3 \in 1..8 /\ 3 - 1 = 2
        OBVIOUS
    <2>2. r[3] = r[2] \div 2
        BY <1>2, <2>1
    <2> QED BY <1>4, <2>2
<1>6. r[4] \in 0..15
    <2>1. 4 \in 1..8 /\ 4 - 1 = 3
        OBVIOUS
    <2>2. r[4] = r[3] \div 2
        BY <1>2, <2>1
    <2> QED BY <1>5, <2>2
<1>7. r[5] \in 0..7
    <2>1. 5 \in 1..8 /\ 5 - 1 = 4
        OBVIOUS
    <2>2. r[5] = r[4] \div 2
        BY <1>2, <2>1
    <2> QED BY <1>6, <2>2
<1>8. r[6] \in 0..3
    <2>1. 6 \in 1..8 /\ 6 - 1 = 5
        OBVIOUS
    <2>2. r[6] = r[5] \div 2
        BY <1>2, <2>1
    <2> QED BY <1>7, <2>2
<1>9. r[7] \in 0..1
    <2>1. 7 \in 1..8 /\ 7 - 1 = 6
        OBVIOUS
    <2>2. r[7] = r[6] \div 2
        BY <1>2, <2>1
    <2> QED BY <1>8, <2>2
<1>10. r[8] \in 0..0
    <2>1. 8 \in 1..8 /\ 8 - 1 = 7
        OBVIOUS
    <2>2. r[8] = r[7] \div 2
        BY <1>2, <2>1
    <2> QED BY <1>9, <2>2
<1>11. r[8] = 0
    BY <1>10
<1> QED BY <1>11 DEF r

\* A number that a field of n bits is wide enough for.
Fits(x, n) == x \in Nat /\ n \in Nat /\ RightShifts(x, n)[n] = 0

\* The fields of the frames are wide enough for what they hold.
LEMMA Widths ==
    /\ \A x \in 0..3 : Fits(x, 2)
    /\ \A x \in 0..7 : Fits(x, 3)
    /\ \A x \in 0..15 : Fits(x, 4)
    /\ \A x \in 0..127 : Fits(x, 7)
    /\ \A x \in 0..255 : Fits(x, 8)
<1>1. \A x \in 0..3 : Fits(x, 2)
    BY Fits2 DEF Fits
<1>2. \A x \in 0..7 : Fits(x, 3)
    BY Fits3 DEF Fits
<1>3. \A x \in 0..15 : Fits(x, 4)
    BY Fits4 DEF Fits
<1>4. \A x \in 0..127 : Fits(x, 7)
    <2> SUFFICES ASSUME NEW x \in 0..127 PROVE Fits(x, 7)
        OBVIOUS
    <2>1. x \in Nat /\ 7 \in Nat
        OBVIOUS
    <2>2. RightShifts(x, 7)[7] = 0
        BY Fits7
    <2> QED BY ONLY <2>1, <2>2 DEF Fits
<1>5. \A x \in 0..255 : Fits(x, 8)
    <2> SUFFICES ASSUME NEW x \in 0..255 PROVE Fits(x, 8)
        OBVIOUS
    <2>1. x \in Nat /\ 8 \in Nat
        OBVIOUS
    <2>2. RightShifts(x, 8)[8] = 0
        BY Fits8
    <2> QED BY ONLY <2>1, <2>2 DEF Fits
<1> QED BY <1>1, <1>2, <1>3, <1>4, <1>5

\* Bits of this length.
Piece(a, n) == a \in Seq(Bit) /\ n \in Nat /\ Len(a) = n

\* It is read where its field was written.
LEMMA FieldIsRead ==
    ASSUME NEW x, NEW n, Fits(x, n)
    PROVE  /\ Piece(Field(x, n), n)
           /\ \A v \in Seq(Bit), rp \in Nat : Has(v, rp, Field(x, n)) => Peek(v, rp, n) = x
<1>1. x \in Nat /\ n \in Nat /\ RightShifts(x, n)[n] = 0
    BY DEF Fits
<1>2. /\ Number(Field(x, n)) = x
      /\ Field(x, n) \in [1..n -> Bit] /\ Field(x, n) \in Seq(Bit) /\ Len(Field(x, n)) = n
    BY <1>1, NumberOfField
<1>3. ASSUME NEW v \in Seq(Bit), NEW rp \in Nat, Has(v, rp, Field(x, n))
      PROVE  Peek(v, rp, n) = x
    <2>1. Peek(v, rp, n) = Number(Field(x, n))
        BY <1>1, <1>2, <1>3, HasNumber
    <2> QED BY <1>2, <2>1
<1>4. Piece(Field(x, n), n)
    BY <1>1, <1>2 DEF Piece
<1> QED BY <1>3, <1>4

\* Two pieces, one behind the other.
LEMMA Join ==
    ASSUME NEW a, NEW n, NEW b, NEW m, Piece(a, n), Piece(b, m)
    PROVE  Piece(a \o b, n + m)
<1>1. a \in Seq(Bit) /\ b \in Seq(Bit) /\ n \in Nat /\ m \in Nat /\ Len(a) = n /\ Len(b) = m
    BY DEF Piece
<1>2. a \o b \in Seq(Bit) /\ Len(a \o b) = n + m
    BY <1>1
<1> QED BY <1>1, <1>2 DEF Piece

\* What is written there is the one, and the other behind it.
LEMMA Split ==
    ASSUME NEW v \in Seq(Bit), NEW rp \in Nat, NEW a, NEW n, NEW b, NEW m, Piece(a, n), Piece(b, m),
           Has(v, rp, a \o b)
    PROVE  Has(v, rp, a) /\ Has(v, rp + n, b) /\ rp + n \in Nat
<1>1. a \in Seq(Bit) /\ b \in Seq(Bit) /\ n \in Nat /\ Len(a) = n
    BY DEF Piece
<1> QED BY <1>1, HasBoth

\* A single bit.
LEMMA BitIs ==
    ASSUME NEW b \in Bit
    PROVE  /\ Piece(<<b>>, 1)
           /\ \A v \in Seq(Bit), rp \in Nat : Has(v, rp, <<b>>) => v[rp + 1] = b /\ Peek(v, rp, 1) = b
<1>1. <<b>> \in Seq(Bit) /\ Len(<<b>>) = 1 /\ <<b>> \in [1..1 -> Bit] /\ <<b>>[1] = b
    OBVIOUS
<1> DEFINE w == <<b>>
<1> HIDE DEF w
<1>2. w \in Seq(Bit) /\ Len(w) = 1 /\ w \in [1..1 -> Bit] /\ w[1] = b
    BY <1>1 DEF w
<1>3. Number(w) = b
    <2> DEFINE a == Accum(w)
    <2>1. a[0] = 0 /\ \A k \in 1..1 : a[k] = 2 * a[k - 1] + w[k]
        <3>1. Accum(w)[0] = 0 /\ \A k \in 1..Len(w) : Accum(w)[k] = 2 * Accum(w)[k - 1] + w[k]
            BY <1>2, AccumIs
        <3> QED BY <1>2, <3>1
    <2> HIDE DEF a
    <2>2. 1 \in 1..1 /\ 1 - 1 = 0
        OBVIOUS
    <2>3. a[1] = b
        BY <1>2, <2>1, <2>2 DEF Bit
    <2> QED BY <1>2, <2>3 DEF Number, a
<1>4. ASSUME NEW v \in Seq(Bit), NEW rp \in Nat, Has(v, rp, w)
      PROVE  v[rp + 1] = b /\ Peek(v, rp, 1) = b
    <2>1. Peek(v, rp, 1) = Number(w)
        BY <1>2, <1>4, HasNumber
    <2>2. v[rp + 1] = w[1]
        BY <1>2, <1>4 DEF Has
    <2> QED BY <1>2, <1>3, <2>1, <2>2
<1>5. \A v \in Seq(Bit), rp \in Nat : Has(v, rp, w) => v[rp + 1] = b /\ Peek(v, rp, 1) = b
    BY <1>4
<1>6. Piece(w, 1)
    BY <1>2 DEF Piece
<1> QED BY <1>5, <1>6 DEF w

\* Zeros.
LEMMA ZerosAre ==
    ASSUME NEW n \in Nat
    PROVE  /\ Piece(Zeros(n), n)
           /\ \A i \in 1..n : Zeros(n)[i] = 0
<1>1. Zeros(n) = [i \in 1..n |-> 0] /\ 0 \in Bit
    BY DEF Zeros, Bit
<1>2. Zeros(n) \in [1..n -> Bit]
    BY <1>1
<1>3. Piece(Zeros(n), n)
    BY <1>2, SeqIs DEF Piece
<1> QED BY <1>1, <1>3

\* The octets of some digits, and the digits in an octet.
LEMMA Halves ==
    \A n \in Nat : /\ Ceil(n, 2) \in Nat
                   /\ 2 * Ceil(n, 2) = n \/ 2 * Ceil(n, 2) = n + 1
                   /\ n % 2 = 0 <=> 2 * Ceil(n, 2) = n
    BY DEF Ceil

\* The digits as they are written.
LEMMA DigitsAre ==
    ASSUME NEW number \in PhoneNumbers
    PROVE  LET d == number.digits
               n == 2 * Ceil(Len(d), 2)
           IN  /\ n \in Nat /\ d \in Seq(0..11) /\ Len(d) \in Nat
               /\ \A q \in 0..(n - 1) : Nibble(d, q) \in 0..15
               /\ Piece(Digits(number), 4 * n)
               /\ \A q \in 0..(n - 1), i \in 1..4 : Digits(number)[4 * q + i] = Field(Nibble(d, q), 4)[i]
<1> DEFINE d == number.digits
           l == Len(d)
           n == 2 * Ceil(l, 2)
           w == Digits(number)
<1>1. d \in Seq(0..11) /\ l \in Nat
    BY DEF PhoneNumbers
<1>2. n \in Nat /\ (n = l \/ n = l + 1) /\ 8 * Ceil(l, 2) = 4 * n
    <2> DEFINE o == Ceil(l, 2)
    <2>1. o \in Nat /\ (2 * o = l \/ 2 * o = l + 1)
        BY <1>1, Halves
    <2> HIDE DEF o
    <2>2. 2 * o \in Nat /\ 8 * o = 4 * (2 * o)
        BY <2>1
    <2> QED BY <2>1, <2>2 DEF o
<1>3. w = [i \in 1..(4 * n) |-> Field(Nibble(d, (i - 1) \div 4), 4)[((i - 1) % 4) + 1]]
    BY <1>2 DEF Digits
<1> HIDE DEF w, n
<1>4. \A q \in 0..(n - 1) : Nibble(d, q) \in 0..15
    <2> SUFFICES ASSUME NEW q \in 0..(n - 1) PROVE Nibble(d, q) \in 0..15
        OBVIOUS
    <2>0. q \in Nat /\ n \in Nat /\ q % 2 \in Nat /\ (q % 2 = 1 => q >= 1)
        BY <1>2
    <2>1. CASE q % 2 = 1
        <3>1. q \in 1..l
            <4>1. q <= l
                BY <1>1, <1>2, <2>0
            <4> QED BY <1>1, <2>0, <2>1, <4>1
        <3>2. d[q] \in 0..11
            BY <1>1, <3>1
        <3> QED BY <2>1, <3>2 DEF Nibble
    <2>2. CASE q % 2 # 1 /\ q + 2 <= l
        <3>1. q + 2 \in 1..l
            BY <1>1, <2>0, <2>2
        <3>2. d[q + 2] \in 0..11
            BY <1>1, <3>1
        <3> QED BY <2>2, <3>2 DEF Nibble
    <2>3. CASE q % 2 # 1 /\ ~(q + 2 <= l)
        BY <2>3 DEF Nibble
    <2> QED BY <2>1, <2>2, <2>3
<1>5. ASSUME NEW q \in 0..(n - 1) PROVE Field(Nibble(d, q), 4) \in [1..4 -> Bit]
    <2>1. Nibble(d, q) \in Nat /\ 4 \in Nat
        BY <1>4
    <2> QED BY <2>1, FieldType
<1>6. ASSUME NEW i \in 1..(4 * n)
      PROVE  (i - 1) \div 4 \in 0..(n - 1) /\ ((i - 1) % 4) + 1 \in 1..4
    BY <1>2
<1>7. w \in [1..(4 * n) -> Bit]
    <2>1. ASSUME NEW i \in 1..(4 * n) PROVE Field(Nibble(d, (i - 1) \div 4), 4)[((i - 1) % 4) + 1] \in Bit
        <3>1. Field(Nibble(d, (i - 1) \div 4), 4) \in [1..4 -> Bit]
            BY <1>5, <1>6
        <3> QED BY <1>6, <3>1
    <2> QED BY <1>3, <2>1
<1>8. w \in Seq(Bit) /\ Len(w) = 4 * n
    <2>1. 4 * n \in Nat
        BY <1>2
    <2> QED BY <1>7, <2>1, SeqIs
<1>9. ASSUME NEW q \in 0..(n - 1), NEW i \in 1..4
      PROVE  w[4 * q + i] = Field(Nibble(d, q), 4)[i]
    <2>1. 4 * q + i \in 1..(4 * n) /\ ((4 * q + i) - 1) \div 4 = q /\ (((4 * q + i) - 1) % 4) + 1 = i
        BY <1>2
    <2> QED BY <1>3, <2>1
<1>10. Piece(w, 4 * n)
    <2>1. 4 * n \in Nat
        BY <1>2
    <2> QED BY <1>8, <2>1 DEF Piece
<1> QED BY <1>1, <1>2, <1>4, <1>9, <1>10 DEF w, n

\* A digit is read where it was written.
LEMMA DigitIsRead ==
    ASSUME NEW number \in PhoneNumbers, NEW v \in Seq(Bit), NEW rp \in Nat, Has(v, rp, Digits(number)),
           NEW q \in 0..(2 * Ceil(Len(number.digits), 2) - 1)
    PROVE  Peek(v, rp + 4 * q, 4) = Nibble(number.digits, q)
<1> DEFINE d == number.digits
           n == 2 * Ceil(Len(d), 2)
           w == Digits(number)
           f == Field(Nibble(d, q), 4)
<1>1. /\ n \in Nat /\ Nibble(d, q) \in 0..15 /\ w \in Seq(Bit) /\ Len(w) = 4 * n
      /\ \A i \in 1..4 : w[4 * q + i] = f[i]
    BY DigitsAre DEF Piece
<1>2. f \in Seq(Bit) /\ Len(f) = 4 /\ \A r \in Nat : Has(v, r, f) => Peek(v, r, 4) = Nibble(d, q)
    BY <1>1, Widths, FieldIsRead DEF Piece
<1> HIDE DEF f, w
<1>3. rp + Len(w) <= Len(v) /\ \A i \in 1..Len(w) : v[rp + i] = w[i]
    BY DEF Has, w
<1>4. q \in 0..(n - 1)
    OBVIOUS
<1> HIDE DEF n
<1>5. rp + 4 * q \in Nat /\ (rp + 4 * q) + 4 <= Len(v)
    BY <1>1, <1>3, <1>4
<1>6. \A i \in 1..4 : v[(rp + 4 * q) + i] = f[i]
    <2> SUFFICES ASSUME NEW i \in 1..4 PROVE v[(rp + 4 * q) + i] = f[i]
        OBVIOUS
    <2>1. 4 * q + i \in 1..Len(w)
        BY ONLY <1>1, <1>4, i \in 1..4
    <2>3. rp + (4 * q + i) = (rp + 4 * q) + i
        BY ONLY <1>1, <1>4, i \in 1..4
    <2>2. v[rp + (4 * q + i)] = w[4 * q + i]
        BY ONLY <1>3, <2>1
    <2>4. w[4 * q + i] = f[i]
        BY <1>1
    <2> QED BY ONLY <2>2, <2>3, <2>4
<1>7. Has(v, rp + 4 * q, f)
    BY <1>2, <1>5, <1>6 DEF Has
<1> QED BY <1>2, <1>5, <1>7

--------------------------------------------------------------------------------
(* Numbers and their addresses *)

\* The first m digits.
First(d, m) == [i \in 1..m |-> d[i]]

\* One digit more, and two.
LEMMA FirstIs ==
    ASSUME NEW d \in Seq(0..11)
    PROVE  /\ First(d, 0) = << >>
           /\ First(d, Len(d)) = d
           /\ \A m \in 0..(Len(d) - 1) : First(d, m) \o <<d[m + 1]>> = First(d, m + 1)
           /\ \A m \in 0..(Len(d) - 2) : First(d, m) \o <<d[m + 1], d[m + 2]>> = First(d, m + 2)
<1>1. \A m \in 0..Len(d) : First(d, m) \in Seq(0..11) /\ Len(First(d, m)) = m
    BY DEF First
<1>2. First(d, 0) = << >>
    BY <1>1
<1>3. First(d, Len(d)) = d
    BY <1>1 DEF First
<1>4. ASSUME NEW m \in 0..(Len(d) - 1) PROVE First(d, m) \o <<d[m + 1]>> = First(d, m + 1)
    BY <1>1 DEF First
<1>5. ASSUME NEW m \in 0..(Len(d) - 2) PROVE First(d, m) \o <<d[m + 1], d[m + 2]>> = First(d, m + 2)
    BY <1>1 DEF First
<1> QED BY <1>2, <1>3, <1>4, <1>5

\* The digits that were written are read.
LEMMA DigitsAreRead ==
    ASSUME NEW number \in PhoneNumbers, NEW v \in Seq(Bit), NEW rp \in Nat, Has(v, rp, Digits(number)),
           NEW plus
    PROVE  ParseDigits(v, rp, Ceil(Len(number.digits), 2), plus)
              = [plus |-> plus, digits |-> number.digits]
<1> DEFINE d == number.digits
           l == Len(d)
           n == Ceil(l, 2)
           till == [k \in 0..n |-> IF 2 * k <= l THEN 2 * k ELSE l]
           f == [k \in 0..n |-> First(d, till[k])]
           d1(k) == Peek(v, rp + 8 * k - 4, 4)
           d2(k) == Peek(v, rp + 8 * k - 8, 4)
           two(k) == IF d2(k) = 15 THEN <<d1(k)>> ELSE <<d1(k), d2(k)>>
           read[k \in 0..n] == IF k = 0 THEN << >> ELSE read[k - 1] \o two(k)
<1>1. d \in Seq(0..11) /\ l \in Nat /\ n \in Nat /\ (2 * n = l \/ 2 * n = l + 1)
    <2>1. d \in Seq(0..11) /\ l \in Nat
        BY DEF PhoneNumbers
    <2> QED BY <2>1, Halves
<1>2. ASSUME NEW k \in 1..n
      PROVE  /\ d1(k) = d[2 * k - 1] /\ 2 * k - 1 \in 1..l
             /\ d2(k) = IF 2 * k <= l THEN d[2 * k] ELSE 15
    <2>1. 2 * k - 1 \in 0..(2 * n - 1) /\ 2 * k - 2 \in 0..(2 * n - 1)
        BY <1>1
    <2>2. Peek(v, rp + 4 * (2 * k - 1), 4) = Nibble(d, 2 * k - 1)
        BY <2>1, DigitIsRead
    <2>3. Peek(v, rp + 4 * (2 * k - 2), 4) = Nibble(d, 2 * k - 2)
        BY <2>1, DigitIsRead
    <2> HIDE DEF n
    <2>4. rp + 4 * (2 * k - 1) = rp + 8 * k - 4 /\ rp + 4 * (2 * k - 2) = rp + 8 * k - 8
        BY <1>1
    <2>5. (2 * k - 1) % 2 = 1 /\ (2 * k - 2) % 2 = 0 /\ (2 * k - 2) + 2 = 2 * k /\ 2 * k - 1 \in 1..l
        BY <1>1
    <2>6. Nibble(d, 2 * k - 1) = d[2 * k - 1]
        BY <2>5 DEF Nibble
    <2>7. Nibble(d, 2 * k - 2) = IF 2 * k <= l THEN d[2 * k] ELSE 15
        BY <2>5 DEF Nibble
    <2> QED BY <2>2, <2>3, <2>4, <2>5, <2>6, <2>7
<1> HIDE DEF n, d1, d2, d, l
<1>3. ASSUME NEW k \in 1..n PROVE f[k] = f[k - 1] \o two(k)
    <2>1. k \in 0..n /\ k - 1 \in 0..n
        BY <1>1
    <2>2. f[k] = First(d, till[k]) /\ f[k - 1] = First(d, till[k - 1])
        BY <2>1
    <2>3. till[k - 1] = 2 * k - 2 /\ till[k] = IF 2 * k <= l THEN 2 * k ELSE 2 * k - 1
        BY <1>1, <2>1
    <2> HIDE DEF till, f
    <2>4. CASE 2 * k <= l
        <3>1. 2 * k \in 1..l /\ d[2 * k] # 15
            <4>1. 2 * k \in 1..l
                BY <1>1, <2>4
            <4>2. d[2 * k] \in 0..11
                BY ONLY <1>1, <4>1 DEF l
            <4>3. \A x \in 0..11 : x # 15
                OBVIOUS
            <4> QED BY <4>1, <4>2, <4>3
        <3>2. two(k) = <<d[2 * k - 1], d[2 * k]>>
            BY <1>2, <2>4, <3>1
        <3>3. 2 * k - 2 \in 0..(l - 2) /\ (2 * k - 2) + 1 = 2 * k - 1 /\ (2 * k - 2) + 2 = 2 * k
            BY <1>1, <2>4
        <3>4. First(d, 2 * k - 2) \o <<d[2 * k - 1], d[2 * k]>> = First(d, 2 * k)
            BY <1>1, <3>3, FirstIs DEF l
        <3> QED BY <2>2, <2>3, <2>4, <3>2, <3>4
    <2>5. CASE ~(2 * k <= l)
        <3>1. two(k) = <<d[2 * k - 1]>>
            BY <1>2, <2>5
        <3>2. 2 * k - 2 \in 0..(l - 1) /\ (2 * k - 2) + 1 = 2 * k - 1
            BY <1>1, <2>5
        <3>3. First(d, 2 * k - 2) \o <<d[2 * k - 1]>> = First(d, 2 * k - 1)
            BY <1>1, <3>2, FirstIs DEF l
        <3> QED BY <2>2, <2>3, <2>5, <3>1, <3>3
    <2> QED BY <2>4, <2>5
<1>4. f[0] = << >> /\ f[n] = d
    <2>1. 0 \in 0..n /\ n \in 0..n /\ till[0] = 0 /\ till[n] = l
        BY <1>1
    <2>2. f[0] = First(d, 0) /\ f[n] = First(d, l)
        BY <2>1
    <2> QED BY <1>1, <2>2, FirstIs DEF l
<1> HIDE DEF two
<1>5. f = [k \in 0..n |-> IF k = 0 THEN << >> ELSE f[k - 1] \o two(k)]
    <2>1. \A k \in 0..n : f[k] = IF k = 0 THEN << >> ELSE f[k - 1] \o two(k)
        <3> SUFFICES ASSUME NEW k \in 0..n PROVE f[k] = IF k = 0 THEN << >> ELSE f[k - 1] \o two(k)
            OBVIOUS
        <3> HIDE DEF f
        <3>1. k = 0 \/ (k # 0 /\ k \in 1..n)
            BY <1>1
        <3> QED BY <1>3, <1>4, <3>1
    <2>2. f = [k \in 0..n |-> f[k]]
        OBVIOUS
    <2> HIDE DEF f, till
    <2> QED BY <2>1, <2>2
<1> HIDE DEF f, till
<1>6. read = [k \in 0..n |-> IF k = 0 THEN << >> ELSE read[k - 1] \o two(k)]
    BY <1>5 DEF read
<1>7. ReadDigits(v, rp, n) = read
    BY DEF ReadDigits, two, d1, d2
<1> HIDE DEF read
<1> DEFINE Q == {k \in 0..n : read[k] = f[k]}
<1>8. \A k \in 0..n : k \in Q
    <2>1. 0 \in Q
        BY <1>1, <1>4, <1>6
    <2>2. \A k \in 0..(n - 1) : k \in Q => k + 1 \in Q
        <3> SUFFICES ASSUME NEW k \in 0..(n - 1), read[k] = f[k]
                     PROVE  k + 1 \in 0..n /\ read[k + 1] = f[k + 1]
            OBVIOUS
        <3>1. k + 1 \in 1..n /\ (k + 1) - 1 = k /\ k + 1 \in 0..n /\ k + 1 # 0
            BY <1>1
        <3>2. read[k + 1] = read[k] \o two(k + 1)
            BY <1>6, <3>1
        <3>3. f[k + 1] = f[k] \o two(k + 1)
            BY <1>3, <3>1
        <3> QED BY <3>1, <3>2, <3>3
    <2> HIDE DEF Q
    <2> QED BY <1>1, <2>1, <2>2, UpTo
<1>9. ReadDigits(v, rp, n)[n] = d
    <2>1. n \in 0..n
        BY <1>1
    <2>2. read[n] = f[n]
        BY <1>8, <2>1
    <2> QED BY <1>4, <1>7, <2>2
<1> QED BY <1>9 DEF ParseDigits, n, d, l

\* An address, in each of its three forms, with what its first octet counts.
AddressBits(count, number) ==
    Field(count, 8) \o <<1>> \o Field(International(number), 3) \o Field(E164Plan, 4) \o Digits(number)

\* Its pieces are read where they were written.
LEMMA AddressIs ==
    ASSUME NEW number \in PhoneNumbers, NEW count \in 0..255
    PROVE  LET w == AddressBits(count, number)
           IN  /\ Piece(w, 16 + 8 * Ceil(Len(number.digits), 2))
               /\ \A v \in Seq(Bit), rp \in Nat :
                     Has(v, rp, w) =>
                        /\ Peek(v, rp, 8) = count
                        /\ Peek(v, rp + 8, 1) = 1
                        /\ Peek(v, rp + 9, 3) = International(number)
                        /\ Has(v, rp + 16, Digits(number))
<1> DEFINE n == Ceil(Len(number.digits), 2)
           a == Field(count, 8)
           b == <<1>>
           c == Field(International(number), 3)
           d == Field(E164Plan, 4)
           e == Digits(number)
           w == AddressBits(count, number)
<1>1. /\ Piece(a, 8)
      /\ \A v \in Seq(Bit), rp \in Nat : Has(v, rp, a) => Peek(v, rp, 8) = count
    BY Widths, FieldIsRead
<1>2. /\ Piece(b, 1)
      /\ \A v \in Seq(Bit), rp \in Nat : Has(v, rp, b) => Peek(v, rp, 1) = 1
    <2>1. 1 \in Bit
        BY DEF Bit
    <2> QED BY <2>1, BitIs
<1>3. /\ Piece(c, 3)
      /\ \A v \in Seq(Bit), rp \in Nat : Has(v, rp, c) => Peek(v, rp, 3) = International(number)
    <2>1. International(number) \in 0..7
        BY DEF International
    <2>2. Fits(International(number), 3)
        BY <2>1, Widths
    <2> QED BY <2>2, FieldIsRead
<1>4. Piece(d, 4)
    <2>1. E164Plan \in 0..15
        BY DEF E164Plan
    <2>2. Fits(E164Plan, 4)
        BY <2>1, Widths
    <2> QED BY <2>2, FieldIsRead
<1>5. Piece(e, 8 * n)
    <2>1. Piece(e, 4 * (2 * n)) /\ Len(number.digits) \in Nat
        BY DigitsAre
    <2>2. n \in Nat
        BY <2>1, Halves
    <2> HIDE DEF n
    <2>3. 4 * (2 * n) = 8 * n
        BY <2>2
    <2> QED BY <2>1, <2>3
<1>6. w = (((a \o b) \o c) \o d) \o e
    BY DEF AddressBits
<1> DEFINE ab == a \o b
           abc == ab \o c
           abcd == abc \o d
<1>7. Piece(ab, 9)
    <2>1. Piece(ab, 8 + 1)
        BY ONLY <1>1, <1>2, Join
    <2> QED BY <2>1
<1>8. Piece(abc, 12)
    <2> HIDE DEF ab
    <2>1. Piece(abc, 9 + 3)
        BY ONLY <1>3, <1>7, Join
    <2> QED BY <2>1
<1>9. Piece(abcd, 16)
    <2> HIDE DEF abc
    <2>1. Piece(abcd, 12 + 4)
        BY ONLY <1>4, <1>8, Join
    <2> QED BY <2>1
<1>10. Piece(w, 16 + 8 * n)
    <2> HIDE DEF abcd, e
    <2>1. w = abcd \o e
        BY <1>6 DEF abcd
    <2> HIDE DEF w
    <2> QED BY ONLY <1>5, <1>9, <2>1, Join
<1>11. ASSUME NEW v \in Seq(Bit), NEW rp \in Nat, Has(v, rp, w)
       PROVE  /\ Peek(v, rp, 8) = count
              /\ Peek(v, rp + 8, 1) = 1
              /\ Peek(v, rp + 9, 3) = International(number)
              /\ Has(v, rp + 16, e)
    <2> HIDE DEF a, b, c, d, e, w, n
    <2>1. Has(v, rp, abcd) /\ Has(v, rp + 16, e)
        BY <1>5, <1>6, <1>9, <1>11, Split
    <2> HIDE DEF abc
    <2>2. Has(v, rp, abc)
        BY <1>4, <1>8, <2>1, Split
    <2> HIDE DEF ab
    <2>3. Has(v, rp, ab) /\ Has(v, rp + 9, c)
        BY <1>3, <1>7, <2>2, Split DEF abc
    <2>4. Has(v, rp, a) /\ Has(v, rp + 8, b)
        BY <1>1, <1>2, <2>3, Split DEF ab
    <2>5. rp + 8 \in Nat /\ rp + 9 \in Nat
        OBVIOUS
    <2> QED BY <1>1, <1>2, <1>3, <2>1, <2>3, <2>4, <2>5
<1>12. \A v \in Seq(Bit), rp \in Nat :
          Has(v, rp, w) =>
             /\ Peek(v, rp, 8) = count
             /\ Peek(v, rp + 8, 1) = 1
             /\ Peek(v, rp + 9, 3) = International(number)
             /\ Has(v, rp + 16, e)
    BY <1>11
<1> QED BY <1>10, <1>12 DEF w, n, e

\* A number of at most MaxDigits characters.
LEMMA SizeIs ==
    ASSUME NEW number \in PhoneNumbers
    PROVE  /\ number.plus \in BOOLEAN /\ number.digits \in Seq(0..11) /\ Len(number.digits) \in Nat
           /\ number = [plus |-> number.plus, digits |-> number.digits]
           /\ Size(number) \in Nat /\ Len(number.digits) <= Size(number)
           /\ (International(number) = 1) = number.plus
<1>1. number.plus \in BOOLEAN /\ number.digits \in Seq(0..11) /\ Len(number.digits) \in Nat
      /\ number = [plus |-> number.plus, digits |-> number.digits]
    BY DEF PhoneNumbers
<1> DEFINE p == number.plus
           l == Len(number.digits)
<1>2. Size(number) = l + (IF p THEN 1 ELSE 0) /\ International(number) = IF p THEN 1 ELSE 2
    BY DEF Size, International
<1>3. Size(number) \in Nat /\ l <= Size(number)
    BY <1>1, <1>2
<1>4. (International(number) = 1) = p
    <2>1. p = TRUE \/ p = FALSE
        BY <1>1
    <2>2. CASE p = TRUE
        <3>1. International(number) = 1
            BY <1>2, <2>2
        <3> QED BY <2>2, <3>1
    <2>3. CASE p = FALSE
        <3>1. International(number) = 2
            BY <1>2, <2>3
        <3>2. ~(International(number) = 1)
            BY <3>1
        <3> QED BY <2>3, <3>2
    <2> QED BY <2>1, <2>2, <2>3
<1> QED BY <1>1, <1>3, <1>4

\* An address whose first octet counts its digits, or so many that as many octets hold them,
\* is parsed as the number that was written.
LEMMA AddressIsParsed ==
    ASSUME NEW number \in PhoneNumbers, Size(number) <= MaxDigits, NEW count \in 0..255,
           Ceil(count, 2) = Ceil(Len(number.digits), 2),
           NEW v \in Seq(Bit), NEW rp \in Nat, Has(v, rp, AddressBits(count, number))
    PROVE  ParseTLAddress(v, rp) =
              [number |-> number, rp |-> rp + 16 + 8 * Ceil(Len(number.digits), 2)]
<1> DEFINE n == Ceil(Len(number.digits), 2)
<1>1. /\ Peek(v, rp, 8) = count
      /\ Peek(v, rp + 8, 1) = 1
      /\ Peek(v, rp + 9, 3) = International(number)
      /\ Has(v, rp + 16, Digits(number))
    BY AddressIs
<1>2. /\ number = [plus |-> number.plus, digits |-> number.digits]
      /\ (Peek(v, rp + 9, 3) = 1) = number.plus
    BY <1>1, SizeIs
<1>3. ParseDigits(v, rp + 16, n, number.plus) = number
    <2>1. rp + 16 \in Nat
        OBVIOUS
    <2>2. ParseDigits(v, rp + 16, n, number.plus) = [plus |-> number.plus, digits |-> number.digits]
        BY <1>1, <2>1, DigitsAreRead
    <2> QED BY <1>2, <2>2
<1>4. ParseDigits(v, rp + 16, Ceil(Peek(v, rp, 8), 2), Peek(v, rp + 9, 3) = 1) = number
    BY <1>1, <1>2, <1>3
<1>5. ~(Size(number) > MaxDigits)
    <2>1. Size(number) \in Nat /\ MaxDigits \in Nat
        BY SizeIs DEF MaxDigits
    <2> QED BY <2>1
<1> HIDE DEF n
<1>6. Ceil(Peek(v, rp, 8), 2) = n
    BY <1>1 DEF n
<1> QED BY <1>1, <1>4, <1>5, <1>6 DEF ParseTLAddress, n

--------------------------------------------------------------------------------
(* RP-DATA *)

\* A frame has its own bits.
LEMMA HasAll ==
    ASSUME NEW v \in Seq(Bit)
    PROVE  Has(v, 0, v)
    BY DEF Has

\* What a frame has is cut out of it.
LEMMA CutOut ==
    ASSUME NEW v \in Seq(Bit), NEW rp \in Nat, NEW w \in Seq(Bit), Has(v, rp, w)
    PROVE  SubSeq(v, rp + 1, rp + Len(w)) = w
<1> DEFINE n == Len(w)
           s == SubSeq(v, rp + 1, rp + n)
<1>1. n \in Nat /\ Len(v) \in Nat /\ rp + n <= Len(v) /\ \A i \in 1..n : v[rp + i] = w[i]
    BY DEF Has
<1>2. s \in Seq(Bit) /\ Len(s) = n
    BY <1>1
<1>3. \A i \in 1..n : s[i] = v[rp + i]
    BY <1>1
<1> HIDE DEF s
<1>4. s = w
    <2>1. s \in [1..n -> Bit] /\ w \in [1..n -> Bit]
        BY <1>2
    <2>2. \A i \in 1..n : s[i] = w[i]
        BY <1>1, <1>3
    <2>3. s = [i \in 1..n |-> s[i]] /\ w = [i \in 1..n |-> w[i]]
        BY <2>1
    <2>4. [i \in 1..n |-> s[i]] = [i \in 1..n |-> w[i]]
        BY <2>2
    <2> QED BY <2>3, <2>4
<1> QED BY <1>4 DEF s

\* The octets of whole octets.
LEMMA OctetsAre ==
    /\ \A k \in Nat : Ceil(8 * k, 8) = k
    /\ \A n \in Nat : Ceil(n, 8) \in Nat /\ 8 * Ceil(n, 8) >= n /\ 8 * Ceil(n, 8) < n + 8
    BY DEF Ceil

\* The address of an RP-DATA, and where parseLV ends behind it.
LEMMA RPAddressIs ==
    ASSUME NEW number \in PhoneNumbers, Size(number) <= MaxDigits
    PROVE  LET w == RPAddress(number)
               n == RPAddressLengthV(number)
           IN  /\ n \in Nat
               /\ Piece(w, 8 + 8 * n)
               /\ \A v \in Seq(Bit), rp \in Nat : Has(v, rp, w) => AfterLV(v, rp) = rp + (8 + 8 * n)
<1> DEFINE l == Len(number.digits)
           o == Ceil(l, 2)
           n == RPAddressLengthV(number)
           w == RPAddress(number)
<1>1. l \in Nat /\ l <= 20 /\ number.digits \in Seq(0..11)
    <2>1. l \in Nat /\ Size(number) \in Nat /\ l <= Size(number) /\ Size(number) <= 20
          /\ number.digits \in Seq(0..11)
        BY SizeIs DEF MaxDigits
    <2> HIDE DEF l
    <2> QED BY <2>1
<1>2. o \in Nat /\ o <= 10
    <2>1. o \in Nat /\ (2 * o = l \/ 2 * o = l + 1)
        BY <1>1, Halves
    <2> HIDE DEF o, l
    <2> QED BY <1>1, <2>1
<1>3. CASE number.digits = << >>
    <2>1. n = 0 /\ w = Field(0, 8)
        BY <1>3 DEF RPAddressLengthV, RPAddress
    <2>2. Fits(0, 8)
        BY Widths
    <2>3. Piece(w, 8) /\ \A v \in Seq(Bit), rp \in Nat : Has(v, rp, w) => Peek(v, rp, 8) = 0
        BY <2>1, <2>2, FieldIsRead
    <2> HIDE DEF w, n
    <2>4. ASSUME NEW v \in Seq(Bit), NEW rp \in Nat, Has(v, rp, w)
          PROVE  AfterLV(v, rp) = rp + (8 + 8 * n)
        <3>1. Peek(v, rp, 8) = 0
            BY <2>3, <2>4
        <3> QED BY <2>1, <3>1 DEF AfterLV
    <2>5. n \in Nat /\ 8 + 8 * n = 8
        BY <2>1
    <2> QED BY <2>3, <2>4, <2>5 DEF w, n
<1>4. CASE number.digits # << >>
    <2>1. n = 1 + o /\ w = AddressBits(n, number)
        BY <1>4 DEF RPAddressLengthV, RPAddress, AddressBits, DigitsLengthV
    <2> HIDE DEF w, n, o
    <2>2. n \in Nat /\ n \in 0..255 /\ 16 + 8 * o = 8 + 8 * n
        BY <1>2, <2>1
    <2>3. Piece(w, 8 + 8 * n) /\ \A v \in Seq(Bit), rp \in Nat : Has(v, rp, w) => Peek(v, rp, 8) = n
        <3>1. /\ Piece(AddressBits(n, number), 16 + 8 * Ceil(Len(number.digits), 2))
              /\ \A v \in Seq(Bit), rp \in Nat : Has(v, rp, AddressBits(n, number)) => Peek(v, rp, 8) = n
            <4>1. number \in PhoneNumbers
                OBVIOUS
            <4> QED BY ONLY <1>4, <2>2, <4>1, AddressIs
        <3> QED BY ONLY <2>1, <2>2, <3>1 DEF o
    <2>4. ASSUME NEW v \in Seq(Bit), NEW rp \in Nat, Has(v, rp, w)
          PROVE  AfterLV(v, rp) = rp + (8 + 8 * n)
        <3>1. Peek(v, rp, 8) = n
            BY <2>3, <2>4
        <3> QED BY <2>2, <3>1 DEF AfterLV
    <2> QED BY <2>2, <2>3, <2>4 DEF w, n
<1> QED BY <1>3, <1>4

\* The TPDU of an RP-DATA is the one that was put into it, and the frame is as long as RPData says.
LEMMA RPDataIs ==
    ASSUME NEW type \in 0..7, NEW reference \in 0..255,
           NEW from \in PhoneNumbers, Size(from) <= MaxDigits,
           NEW to \in PhoneNumbers, Size(to) <= MaxDigits,
           NEW k \in 0..255, NEW tpdu, Piece(tpdu, 8 * k)
    PROVE  /\ TPDU(RPData(type, reference, from, to, tpdu)) = tpdu
           /\ Piece(RPData(type, reference, from, to, tpdu), 8 * RPDataLength(from, to, tpdu))
<1> DEFINE a == Zeros(5)
           b == Field(type, 3)
           c == Field(reference, 8)
           d == RPAddress(from)
           n == 8 + 8 * RPAddressLengthV(from)
           e == RPAddress(to)
           m == 8 + 8 * RPAddressLengthV(to)
           f == Field(Octets(tpdu), 8)
           v == RPData(type, reference, from, to, tpdu)
           ab == a \o b
           abc == ab \o c
           abcd == abc \o d
           abcde == abcd \o e
           abcdef == abcde \o f
<1>1. Piece(a, 5)
    BY ZerosAre
<1>2. Piece(b, 3)
    BY Widths, FieldIsRead
<1>3. Piece(c, 8)
    BY Widths, FieldIsRead
<1>4. n \in Nat /\ Piece(d, n) /\ \A x \in Seq(Bit), rp \in Nat : Has(x, rp, d) => AfterLV(x, rp) = rp + n
    BY RPAddressIs
<1>5. m \in Nat /\ Piece(e, m) /\ \A x \in Seq(Bit), rp \in Nat : Has(x, rp, e) => AfterLV(x, rp) = rp + m
    BY RPAddressIs
<1>6. Octets(tpdu) = k
    <2>1. Len(tpdu) = 8 * k
        BY DEF Piece
    <2> QED BY <2>1, OctetsAre DEF Octets
<1>7. Piece(f, 8) /\ \A x \in Seq(Bit), rp \in Nat : Has(x, rp, f) => Peek(x, rp, 8) = k
    <2>1. Fits(k, 8)
        BY Widths
    <2> QED BY <1>6, <2>1, FieldIsRead
<1>8. v = abcdef \o tpdu
    BY DEF RPData
<1> HIDE DEF a, b, c, d, e, f, n, m, v
<1>9. Piece(ab, 8)
    <2>1. Piece(ab, 5 + 3)
        BY ONLY <1>1, <1>2, Join
    <2> QED BY <2>1
<1> HIDE DEF ab
<1>10. Piece(abc, 16)
    <2>1. Piece(abc, 8 + 8)
        BY ONLY <1>3, <1>9, Join
    <2> QED BY <2>1
<1> HIDE DEF abc
<1>11. Piece(abcd, 16 + n)
    BY ONLY <1>4, <1>10, Join
<1> HIDE DEF abcd
<1>12. Piece(abcde, (16 + n) + m)
    BY ONLY <1>5, <1>11, Join
<1> HIDE DEF abcde
<1>13. Piece(abcdef, ((16 + n) + m) + 8)
    BY ONLY <1>7, <1>12, Join
<1> HIDE DEF abcdef
<1>14. Piece(v, (((16 + n) + m) + 8) + 8 * k)
    <2>1. Piece(abcdef \o tpdu, (((16 + n) + m) + 8) + 8 * k)
        BY <1>13, Join
    <2> QED BY <1>8, <2>1
<1>15. v \in Seq(Bit) /\ Len(v) = (((16 + n) + m) + 8) + 8 * k /\ Has(v, 0, v) /\ tpdu \in Seq(Bit) /\ Len(tpdu) = 8 * k
    BY <1>14, HasAll DEF Piece
<1>16. Has(v, 0, abcdef) /\ Has(v, ((16 + n) + m) + 8, tpdu)
    <2>1. 0 \in Nat /\ 0 + (((16 + n) + m) + 8) = ((16 + n) + m) + 8
        BY <1>4, <1>5
    <2>2. Has(v, 0, abcdef) /\ Has(v, 0 + (((16 + n) + m) + 8), tpdu)
        BY <1>8, <1>13, <1>15, <2>1, Split
    <2> QED BY <2>1, <2>2
<1>17. Has(v, 0, abcde) /\ Has(v, (16 + n) + m, f)
    <2>1. 0 \in Nat /\ 0 + ((16 + n) + m) = (16 + n) + m
        BY <1>4, <1>5
    <2>2. Has(v, 0, abcde) /\ Has(v, 0 + ((16 + n) + m), f)
        BY <1>7, <1>12, <1>15, <1>16, <2>1, Split DEF abcdef
    <2> QED BY <2>1, <2>2
<1>18. Has(v, 0, abcd) /\ Has(v, 16 + n, e)
    <2>1. 0 \in Nat /\ 0 + (16 + n) = 16 + n
        BY <1>4
    <2>2. Has(v, 0, abcd) /\ Has(v, 0 + (16 + n), e)
        BY <1>5, <1>11, <1>15, <1>17, <2>1, Split DEF abcde
    <2> QED BY <2>1, <2>2
<1>19. Has(v, 16, d)
    <2>1. 0 \in Nat /\ 0 + 16 = 16
        OBVIOUS
    <2>2. Has(v, 0 + 16, d)
        BY <1>4, <1>10, <1>15, <1>18, <2>1, Split DEF abcd
    <2> QED BY <2>1, <2>2
<1>20. AfterLV(v, 16) = 16 + n /\ AfterLV(v, 16 + n) = (16 + n) + m /\ Peek(v, (16 + n) + m, 8) = k
    <2>1. 16 \in Nat /\ 16 + n \in Nat /\ (16 + n) + m \in Nat
        BY <1>4, <1>5
    <2> QED BY <1>4, <1>5, <1>7, <1>15, <1>17, <1>18, <1>19, <2>1
<1> DEFINE rp == (16 + n) + m
<1>21. rp \in Nat /\ Len(v) = (rp + 8) + 8 * k /\ Has(v, rp + 8, tpdu)
    BY <1>4, <1>5, <1>15, <1>16
<1>22. AfterLV(v, AfterLV(v, 16)) = rp /\ Peek(v, rp, 8) = k
    BY <1>20
<1> HIDE DEF rp
<1>23. SubSeq(v, rp + 9, rp + 8 + 8 * k) = tpdu
    <2>1. rp + 8 \in Nat /\ (rp + 8) + 1 = rp + 9
        BY <1>21
    <2>2. SubSeq(v, (rp + 8) + 1, (rp + 8) + 8 * k) = tpdu
        BY <1>15, <1>21, <2>1, CutOut
    <2> QED BY <2>1, <2>2
<1>24. ~(rp + 8 + 8 * k > Len(v))
    BY <1>21
<1>25. TPDU(v) = tpdu
    BY <1>22, <1>23, <1>24 DEF TPDU
<1>26. Piece(v, 8 * RPDataLength(from, to, tpdu))
    <2> DEFINE x == RPAddressLengthV(from)
               y == RPAddressLengthV(to)
    <2>1. x \in Nat /\ y \in Nat
        BY RPAddressIs
    <2>2. n = 8 + 8 * x /\ m = 8 + 8 * y
        BY DEF n, m
    <2>3. RPDataLength(from, to, tpdu) = 2 + (x + 1) + (y + 1) + (k + 1)
        BY <1>6 DEF RPDataLength
    <2> HIDE DEF x, y
    <2>4. 8 * RPDataLength(from, to, tpdu) = (((16 + n) + m) + 8) + 8 * k
        BY <2>1, <2>2, <2>3
    <2> QED BY <1>14, <2>4
<1> QED BY <1>25, <1>26 DEF v

LEMMA TPDUIsCutOut ==
    ASSUME NEW type \in 0..7, NEW reference \in 0..255,
           NEW from \in PhoneNumbers, Size(from) <= MaxDigits,
           NEW to \in PhoneNumbers, Size(to) <= MaxDigits,
           NEW k \in 0..255, NEW tpdu, Piece(tpdu, 8 * k)
    PROVE  TPDU(RPData(type, reference, from, to, tpdu)) = tpdu
<1>1. /\ TPDU(RPData(type, reference, from, to, tpdu)) = tpdu
      /\ Piece(RPData(type, reference, from, to, tpdu), 8 * RPDataLength(from, to, tpdu))
    BY RPDataIs
<1> QED BY <1>1

--------------------------------------------------------------------------------
(* User data and septets *)

\* The bits of whole octets in reverse order, and again.
LEMMA Mirrored ==
    ASSUME NEW m \in Nat, NEW w, Piece(w, 8 * m)
    PROVE  Piece(LSB8MSB(w), 8 * m) /\ LSB8MSB(LSB8MSB(w)) = w
<1> DEFINE n == 8 * m
           p == [i \in 1..n |-> 8 * ((i - 1) \div 8) + 8 - ((i - 1) % 8)]
           u == LSB8MSB(w)
<1>1. w \in Seq(Bit) /\ n \in Nat /\ Len(w) = n /\ DOMAIN w = 1..n
    BY DEF Piece
<1>2. ASSUME NEW i \in 1..n
      PROVE  /\ p[i] \in 1..n /\ p[p[i]] = i
             /\ 8 * ((i - 1) \div 8) + 8 <= n
    <2> DEFINE o == (i - 1) \div 8
               k == (i - 1) % 8
               j == 8 * o + 8 - k
    <2>1. i - 1 \in Nat /\ i - 1 < 8 * m
        OBVIOUS
    <2>2. o \in Nat /\ k \in 0..7 /\ i - 1 = 8 * o + k
        BY <2>1, Octet
    <2> HIDE DEF o, k
    <2>3. 8 * o + 8 <= n /\ j \in 1..n /\ j - 1 = 8 * o + (7 - k) /\ 7 - k \in 0..7
        BY <2>1, <2>2
    <2>4. (j - 1) \div 8 = o /\ (j - 1) % 8 = 7 - k
        BY <2>2, <2>3
    <2>5. p[i] = j
        BY DEF o, k
    <2> HIDE DEF j
    <2>6. p[j] = 8 * o + 8 - (7 - k)
        BY <2>3, <2>4
    <2>7. 8 * o + 8 - (7 - k) = i
        BY <2>1, <2>2
    <2> HIDE DEF p, n
    <2> QED BY <2>3, <2>5, <2>6, <2>7 DEF o
<1>3. ASSUME NEW x \in Seq(Bit), Len(x) = n
      PROVE  LSB8MSB(x) = [i \in 1..n |-> x[p[i]]]
    <2>1. DOMAIN x = 1..n
        BY <1>3
    <2>2. LSB8MSB(x) = [i \in 1..n |-> IF 8 * ((i - 1) \div 8) + 8 <= n
                                         THEN x[8 * ((i - 1) \div 8) + 8 - ((i - 1) % 8)] ELSE x[i]]
        BY <1>3, <2>1 DEF LSB8MSB
    <2>3. \A i \in 1..n : x[p[i]] = IF 8 * ((i - 1) \div 8) + 8 <= n
                                    THEN x[8 * ((i - 1) \div 8) + 8 - ((i - 1) % 8)] ELSE x[i]
        BY <1>2
    <2> HIDE DEF n, p
    <2> QED BY <2>2, <2>3
<1> HIDE DEF p
<1>4. u = [i \in 1..n |-> w[p[i]]]
    BY <1>1, <1>3
<1> HIDE DEF u
<1>5. u \in [1..n -> Bit]
    <2>1. \A i \in 1..n : w[p[i]] \in Bit
        BY <1>1, <1>2
    <2> HIDE DEF n
    <2> QED BY <1>4, <2>1
<1>6. u \in Seq(Bit) /\ Len(u) = n
    <2> HIDE DEF n
    <2> QED BY <1>1, <1>5, SeqIs
<1>7. LSB8MSB(u) = [i \in 1..n |-> u[p[i]]]
    BY <1>3, <1>6
<1>8. \A i \in 1..n : u[p[i]] = w[i]
    <2> HIDE DEF n
    <2> QED BY <1>2, <1>4
<1>9. LSB8MSB(u) = w
    <2>1. w = [i \in 1..n |-> w[i]]
        BY <1>1
    <2> HIDE DEF n
    <2> QED BY <1>7, <1>8, <2>1
<1> QED BY <1>1, <1>6, <1>9 DEF u, Piece

\* User data of whole octets that end a frame are parsed as they were written.
LEMMA UserDataIsParsed ==
    ASSUME NEW ud, ud.length \in 0..255, NEW m \in Nat, Piece(ud.data, 8 * m)
    PROVE  /\ Piece(UserData(ud), 8 + 8 * m)
           /\ \A v \in Seq(Bit), rp \in Nat : \A dcs, udhi :
                 Has(v, rp, UserData(ud)) /\ Len(v) = rp + (8 + 8 * m) =>
                    ParseUserData(v, rp, dcs, udhi)
                       = [dcs |-> dcs, udhi |-> udhi, length |-> ud.length, data |-> ud.data]
<1> DEFINE d == ud.data
           a == Field(ud.length, 8)
           b == LSB8MSB(d)
           n == 8 * m
<1>1. d \o Filling(d) = d
    <2>1. d \in Seq(Bit) /\ Len(d) = 8 * m
        BY DEF Piece
    <2>2. 8 * Octets(d) - Len(d) = 0
        <3>1. Octets(d) = m
            BY <2>1, OctetsAre DEF Octets
        <3> QED BY <2>1, <3>1
    <2>3. Filling(d) = Zeros(0)
        BY <2>2 DEF Filling
    <2>4. Zeros(0) = << >>
        <3>1. Zeros(0) \in Seq(Bit) /\ Len(Zeros(0)) = 0
            BY ZerosAre DEF Piece
        <3> QED BY <3>1
    <2> HIDE DEF d
    <2> QED BY <2>1, <2>3, <2>4
<1>2. UserData(ud) = a \o b
    BY <1>1 DEF UserData
<1>3. Piece(a, 8) /\ \A v \in Seq(Bit), rp \in Nat : Has(v, rp, a) => Peek(v, rp, 8) = ud.length
    <2>1. Fits(ud.length, 8)
        BY Widths
    <2> QED BY <2>1, FieldIsRead
<1>4. Piece(b, n) /\ LSB8MSB(b) = d /\ n \in Nat
    BY Mirrored
<1> HIDE DEF a, b, d, n
<1>5. Piece(UserData(ud), 8 + n)
    BY ONLY <1>2, <1>3, <1>4, Join
<1>6. ASSUME NEW v \in Seq(Bit), NEW rp \in Nat, NEW dcs, NEW udhi,
             Has(v, rp, UserData(ud)), Len(v) = rp + (8 + n)
      PROVE  ParseUserData(v, rp, dcs, udhi)
                = [dcs |-> dcs, udhi |-> udhi, length |-> ud.length, data |-> d]
    <2>1. Has(v, rp, a) /\ Has(v, rp + 8, b) /\ rp + 8 \in Nat
        BY <1>2, <1>3, <1>4, <1>6, Split
    <2>2. Peek(v, rp, 8) = ud.length
        BY <1>3, <2>1
    <2>3. b \in Seq(Bit) /\ Len(b) = n
        BY <1>4 DEF Piece
    <2>4. SubSeq(v, rp + 9, Len(v)) = b
        <3>1. (rp + 8) + 1 = rp + 9 /\ (rp + 8) + n = Len(v)
            BY <1>4, <1>6
        <3>2. SubSeq(v, (rp + 8) + 1, (rp + 8) + n) = b
            BY <2>1, <2>3, CutOut
        <3> QED BY <3>1, <3>2
    <2> QED BY <1>4, <2>2, <2>4 DEF ParseUserData
<1>7. \A v \in Seq(Bit), rp \in Nat : \A dcs, udhi :
         Has(v, rp, UserData(ud)) /\ Len(v) = rp + (8 + n) =>
            ParseUserData(v, rp, dcs, udhi)
               = [dcs |-> dcs, udhi |-> udhi, length |-> ud.length, data |-> d]
    BY <1>6
<1> QED BY <1>5, <1>7 DEF n, d

\* The elements of a sequence.
LEMMA ElementIs ==
    ASSUME NEW S, NEW s \in Seq(S), NEW j \in 1..Len(s)
    PROVE  s[j] \in S
    OBVIOUS

\* The septets as they are written.
LEMMA SeptetsAre ==
    ASSUME NEW text \in Seq(0..127)
    PROVE  /\ Len(text) \in Nat
           /\ Piece(Septets(text), 7 * Len(text))
           /\ \A q \in 0..(Len(text) - 1), i \in 1..7 :
                 Septets(text)[7 * q + i] = FieldReversed(text[q + 1], 7)[i]
<1> DEFINE l == Len(text)
           n == 7 * l
           w == Septets(text)
<1>1. l \in Nat /\ n \in Nat /\ \A j \in 1..l : text[j] \in 0..127
    <2>1. Len(text) \in Nat
        OBVIOUS
    <2>2. ASSUME NEW j \in 1..Len(text) PROVE text[j] \in 0..127
        BY ElementIs
    <2>3. l \in Nat /\ \A j \in 1..l : text[j] \in 0..127
        BY <2>1, <2>2
    <2> HIDE DEF l
    <2> QED BY <2>3
<1>2. w = [i \in 1..n |-> FieldReversed(text[((i - 1) \div 7) + 1], 7)[((i - 1) % 7) + 1]]
    BY DEF Septets
<1>3. ASSUME NEW x \in 0..127 PROVE FieldReversed(x, 7) \in [1..7 -> Bit]
    <2> DEFINE r == RightShifts(x, 7)
    <2>1. r \in [0..7 -> Nat]
        <3>1. x \in Nat /\ 7 \in Nat
            OBVIOUS
        <3> QED BY ONLY <3>1, RightShiftsAre
    <2>2. FieldReversed(x, 7) = [i \in 1..7 |-> r[i - 1] % 2]
        BY DEF FieldReversed
    <2> HIDE DEF r
    <2>3. \A i \in 1..7 : r[i - 1] % 2 \in Bit
        <3> SUFFICES ASSUME NEW i \in 1..7 PROVE r[i - 1] % 2 \in Bit
            OBVIOUS
        <3>1. i - 1 \in 0..7
            OBVIOUS
        <3>2. r[i - 1] \in Nat
            BY <2>1, <3>1
        <3> QED BY ONLY <3>2, DoubleAndHalf
    <2> QED BY <2>2, <2>3
<1>4. ASSUME NEW i \in 1..n
      PROVE  ((i - 1) \div 7) + 1 \in 1..l /\ ((i - 1) % 7) + 1 \in 1..7
    <2> HIDE DEF l
    <2> QED BY <1>1
<1>5. ASSUME NEW q \in 0..(l - 1), NEW i \in 1..7
      PROVE  7 * q + i \in 1..n /\ ((7 * q + i) - 1) \div 7 = q /\ (((7 * q + i) - 1) % 7) + 1 = i
    <2> HIDE DEF l
    <2> QED BY <1>1
<1> HIDE DEF w, n, l
<1>6. w \in [1..n -> Bit]
    <2>1. ASSUME NEW i \in 1..n
          PROVE  FieldReversed(text[((i - 1) \div 7) + 1], 7)[((i - 1) % 7) + 1] \in Bit
        <3>1. text[((i - 1) \div 7) + 1] \in 0..127
            BY <1>1, <1>4
        <3>2. FieldReversed(text[((i - 1) \div 7) + 1], 7) \in [1..7 -> Bit]
            BY <1>3, <3>1
        <3> QED BY <1>4, <3>2
    <2> QED BY <1>2, <2>1
<1>7. Piece(w, n)
    BY <1>1, <1>6, SeqIs DEF Piece
<1>8. ASSUME NEW q \in 0..(l - 1), NEW i \in 1..7
      PROVE  w[7 * q + i] = FieldReversed(text[q + 1], 7)[i]
    BY <1>2, <1>5
<1> QED BY <1>1, <1>7, <1>8 DEF w, n, l

\* One septet, lowest bit first, is read as it was written.
LEMMA SeptetIsRead ==
    ASSUME NEW x \in 0..127, NEW v, NEW rp \in Nat, \A i \in 1..7 : v[rp + i] = FieldReversed(x, 7)[i]
    PROVE  PeekReversed(v, rp, 7) = x
<1> DEFINE r == RightShifts(x, 7)
           f == Field(x, 7)
<1>1. Fits(x, 7)
    BY Widths
<1>2. Number(f) = x /\ f \in [1..7 -> Bit]
    BY <1>1, NumberOfField DEF Fits
<1>3. f = [i \in 1..7 |-> r[7 - i] % 2] /\ FieldReversed(x, 7) = [i \in 1..7 |-> r[i - 1] % 2]
    BY DEF Field, FieldReversed
<1> HIDE DEF r, f
<1>4. ASSUME NEW i \in 1..7 PROVE v[rp + 7 + 1 - i] % 2 = f[i]
    <2>1. 8 - i \in 1..7 /\ (8 - i) - 1 = 7 - i /\ rp + 7 + 1 - i = rp + (8 - i)
        OBVIOUS
    <2>2. v[rp + (8 - i)] = f[i]
        BY <1>3, <2>1
    <2>3. f[i] \in Bit
        BY <1>2
    <2>4. f[i] % 2 = f[i]
        BY <2>3, DoubleAndHalf
    <2> QED BY <2>1, <2>2, <2>4
<1>5. [i \in 1..7 |-> v[rp + 7 + 1 - i] % 2] = f
    <2>1. f = [i \in 1..7 |-> f[i]]
        BY <1>2
    <2> QED BY <1>4, <2>1
<1> QED BY <1>2, <1>5 DEF PeekReversed

\* The shifts of a number of eight bits, and of the lower seven of them.
LEMMA LowShifts ==
    ASSUME NEW o \in 0..255
    PROVE  LET c == o % 128
               b == o \div 128
           IN  /\ c \in 0..127 /\ b \in Bit
               /\ \A k \in 0..6 : RightShifts(o, 8)[k] % 2 = RightShifts(c, 7)[k] % 2
               /\ RightShifts(o, 8)[7] % 2 = b
<1> DEFINE c == o % 128
           b == o \div 128
           r == RightShifts(o, 8)
           s == RightShifts(c, 7)
<1>1. c \in 0..127 /\ b \in Bit /\ o = c + 128 * b
    BY DEF Bit
<1> HIDE DEF c, b
<1>2. s[0] = c /\ s \in [0..7 -> Nat] /\ \A k \in 1..7 : s[k] = s[k - 1] \div 2
    <2>1. c \in Nat /\ 7 \in Nat
        BY <1>1
    <2> QED BY ONLY <2>1, RightShiftsAre
<1>3. r[0] = o /\ \A k \in 1..8 : r[k] = r[k - 1] \div 2
    <2>1. o \in Nat /\ 8 \in Nat
        OBVIOUS
    <2> QED BY ONLY <2>1, RightShiftsAre
<1>4. s[7] = 0
    BY <1>1, Fits7
<1> HIDE DEF r, s
<1>5. b = 0 \/ b = 1
    BY <1>1 DEF Bit
<1>6. r[0] = s[0] + 128 * b /\ s[0] \in Nat /\ r[0] % 2 = s[0] % 2
    BY <1>1, <1>2, <1>3, <1>5
<1>7. r[1] = s[1] + 64 * b /\ s[1] \in Nat /\ r[1] % 2 = s[1] % 2
    <2>1. 1 \in 1..7 /\ 1 \in 1..8 /\ 1 \in 0..7 /\ 1 - 1 = 0
        OBVIOUS
    <2>2. r[1] = r[0] \div 2 /\ s[1] = s[0] \div 2 /\ s[1] \in Nat
        BY <1>2, <1>3, <2>1
    <2> QED BY <1>5, <1>6, <2>2
<1>8. r[2] = s[2] + 32 * b /\ s[2] \in Nat /\ r[2] % 2 = s[2] % 2
    <2>1. 2 \in 1..7 /\ 2 \in 1..8 /\ 2 \in 0..7 /\ 2 - 1 = 1
        OBVIOUS
    <2>2. r[2] = r[1] \div 2 /\ s[2] = s[1] \div 2 /\ s[2] \in Nat
        BY <1>2, <1>3, <2>1
    <2> QED BY <1>5, <1>7, <2>2
<1>9. r[3] = s[3] + 16 * b /\ s[3] \in Nat /\ r[3] % 2 = s[3] % 2
    <2>1. 3 \in 1..7 /\ 3 \in 1..8 /\ 3 \in 0..7 /\ 3 - 1 = 2
        OBVIOUS
    <2>2. r[3] = r[2] \div 2 /\ s[3] = s[2] \div 2 /\ s[3] \in Nat
        BY <1>2, <1>3, <2>1
    <2> QED BY <1>5, <1>8, <2>2
<1>10. r[4] = s[4] + 8 * b /\ s[4] \in Nat /\ r[4] % 2 = s[4] % 2
    <2>1. 4 \in 1..7 /\ 4 \in 1..8 /\ 4 \in 0..7 /\ 4 - 1 = 3
        OBVIOUS
    <2>2. r[4] = r[3] \div 2 /\ s[4] = s[3] \div 2 /\ s[4] \in Nat
        BY <1>2, <1>3, <2>1
    <2> QED BY <1>5, <1>9, <2>2
<1>11. r[5] = s[5] + 4 * b /\ s[5] \in Nat /\ r[5] % 2 = s[5] % 2
    <2>1. 5 \in 1..7 /\ 5 \in 1..8 /\ 5 \in 0..7 /\ 5 - 1 = 4
        OBVIOUS
    <2>2. r[5] = r[4] \div 2 /\ s[5] = s[4] \div 2 /\ s[5] \in Nat
        BY <1>2, <1>3, <2>1
    <2> QED BY <1>5, <1>10, <2>2
<1>12. r[6] = s[6] + 2 * b /\ s[6] \in Nat /\ r[6] % 2 = s[6] % 2
    <2>1. 6 \in 1..7 /\ 6 \in 1..8 /\ 6 \in 0..7 /\ 6 - 1 = 5
        OBVIOUS
    <2>2. r[6] = r[5] \div 2 /\ s[6] = s[5] \div 2 /\ s[6] \in Nat
        BY <1>2, <1>3, <2>1
    <2> QED BY <1>5, <1>11, <2>2
<1>13. r[7] = s[7] + b /\ s[7] \in Nat
    <2>1. 7 \in 1..7 /\ 7 \in 1..8 /\ 7 \in 0..7 /\ 7 - 1 = 6
        OBVIOUS
    <2>2. r[7] = r[6] \div 2 /\ s[7] = s[6] \div 2 /\ s[7] \in Nat
        BY <1>2, <1>3, <2>1
    <2> QED BY <1>5, <1>12, <2>2
<1>14. \A k \in 0..6 : r[k] % 2 = s[k] % 2
    BY <1>6, <1>7, <1>8, <1>9, <1>10, <1>11, <1>12
<1>15. r[7] % 2 = b
    BY <1>4, <1>5, <1>13
<1> QED BY <1>1, <1>14, <1>15 DEF r, s, c, b

\* The septets of a text.
LEMMA SeptetsAreRead ==
    ASSUME NEW text \in Seq(0..127), Len(text) <= 160
    PROVE  LET e == Encode7bit(text)
               m == Ceil(7 * Len(text), 8)
           IN  /\ e = [dcs |-> 0, udhi |-> FALSE, length |-> Len(text), data |-> e.data]
               /\ m \in 0..140
               /\ Piece(e.data, 8 * m)
               /\ 7 * Len(text) <= 8 * m
               /\ \A q \in 0..(Len(text) - 1) : PeekReversed(e.data, 7 * q, 7) = text[q + 1]
               /\ \A q \in 0..(Len(text) - 1), i \in 1..7 :
                     e.data[7 * q + i] = FieldReversed(text[q + 1], 7)[i]
<1> DEFINE l == Len(text)
           n == 7 * l
           m == Ceil(n, 8)
           s == Septets(text)
           z == Filling(s)
           d == s \o z
           e == Encode7bit(text)
<1>1. e = [dcs |-> 0, udhi |-> FALSE, length |-> l, data |-> d] /\ e.data = d
    BY DEF Encode7bit
<1>2. /\ l \in Nat /\ Piece(s, n)
      /\ \A q \in 0..(l - 1), i \in 1..7 : s[7 * q + i] = FieldReversed(text[q + 1], 7)[i]
    BY SeptetsAre
<1>3. \A q \in 0..(l - 1) : text[q + 1] \in 0..127
    <2> SUFFICES ASSUME NEW q \in 0..(l - 1) PROVE text[q + 1] \in 0..127
        OBVIOUS
    <2>1. q + 1 \in 1..Len(text)
        BY <1>2
    <2> QED BY ONLY <2>1, ElementIs, text \in Seq(0..127)
<1>4. l <= 160
    OBVIOUS
<1> HIDE DEF e
<1>5. n \in Nat /\ n <= 1120 /\ n = 7 * l /\ \A q \in 0..(l - 1), i \in 1..7 : 7 * q + i \in 1..n /\ 7 * q \in Nat
    <2> HIDE DEF l
    <2> QED BY <1>2, <1>4
<1> HIDE DEF n
<1>6. m \in Nat /\ 8 * m >= n /\ 8 * m < n + 8
    BY <1>5, OctetsAre
<1> HIDE DEF m
<1>7. m \in 0..140
    BY <1>5, <1>6
<1>8. s \in Seq(Bit) /\ Len(s) = n /\ Octets(s) = m
    BY <1>2 DEF Piece, Octets, m
<1>9. Piece(z, 8 * m - n)
    <2>1. 8 * m - n \in Nat
        BY <1>5, <1>6
    <2>2. z = Zeros(8 * m - n)
        BY <1>8 DEF Filling
    <2> HIDE DEF z
    <2> QED BY <2>1, <2>2, ZerosAre
<1> HIDE DEF s, z
<1>10. Piece(d, 8 * m)
    <2>1. Piece(d, n + (8 * m - n))
        BY ONLY <1>2, <1>9, Join
    <2>2. n + (8 * m - n) = 8 * m
        BY <1>5, <1>6
    <2> QED BY <2>1, <2>2
<1>11. ASSUME NEW i \in 1..n PROVE d[i] = s[i]
    BY <1>8, <1>9 DEF Piece
<1> HIDE DEF d
<1>12. ASSUME NEW q \in 0..(l - 1), NEW i \in 1..7
       PROVE  d[7 * q + i] = FieldReversed(text[q + 1], 7)[i]
    BY <1>2, <1>5, <1>11
<1> HIDE DEF l
<1>13. ASSUME NEW q \in 0..(l - 1) PROVE PeekReversed(d, 7 * q, 7) = text[q + 1]
    <2> DEFINE x == text[q + 1]
               rp == 7 * q
    <2>1. x \in 0..127 /\ rp \in Nat /\ \A i \in 1..7 : d[rp + i] = FieldReversed(x, 7)[i]
        BY <1>2, <1>3, <1>12
    <2> HIDE DEF x, rp
    <2>2. PeekReversed(d, rp, 7) = x
        BY <2>1, SeptetIsRead
    <2> QED BY <2>2 DEF x, rp
<1> QED BY <1>1, <1>5, <1>6, <1>7, <1>10, <1>12, <1>13 DEF l, n, m, e

\* The header before a text, and how far decode steps over it.
LEMMA HeaderIs ==
    ASSUME NEW o \in 0..139
    PROVE  LET h == Header(o)
           IN  /\ h \in Seq(0..127)
               /\ o = 0 => h = << >> /\ Len(h) = 0
               /\ o > 0 => /\ Len(h) = HeaderSeptets(o) /\ Len(h) >= 2
                           /\ h[1] = o % 128 /\ h[2] = o \div 128
<1> DEFINE n == Ceil(8 + 8 * o, 7)
           h == Header(o)
<1>1. CASE o = 0
    BY <1>1 DEF Header
<1>2. CASE o > 0
    <2>1. h = [i \in 1..n |-> CASE i = 1 -> o % 128 [] i = 2 -> o \div 128 [] OTHER -> 0]
        BY <1>2 DEF Header
    <2>2. n \in Nat /\ n >= 2 /\ n = HeaderSeptets(o)
        BY <1>2 DEF Ceil, HeaderSeptets
    <2>3. o % 128 \in 0..127 /\ o \div 128 \in 0..127
        OBVIOUS
    <2> HIDE DEF h, n
    <2>4. h \in [1..n -> 0..127]
        <3> DEFINE f(i) == CASE i = 1 -> o % 128 [] i = 2 -> o \div 128 [] OTHER -> 0
        <3>1. \A i \in 1..n : f(i) \in 0..127
            BY <2>3
        <3> QED BY <2>1, <3>1
    <2>5. h \in Seq(0..127) /\ Len(h) = n
        BY <2>2, <2>4, SeqIs
    <2>6. 1 \in 1..n /\ 2 \in 1..n
        BY <2>2
    <2>7. h[1] = o % 128 /\ h[2] = o \div 128
        BY <2>1, <2>6
    <2> QED BY <1>2, <2>2, <2>5, <2>7 DEF h
<1> QED BY <1>1, <1>2

\* The length octet of a header, that lies across two septets.
LEMMA HeaderIsRead ==
    ASSUME NEW o \in 0..139, NEW T \in Seq(0..127), Len(T) <= 160, Len(T) >= 2,
           T[1] = o % 128, T[2] = o \div 128
    PROVE  PeekReversed(Encode7bit(T).data, 0, 8) = o
<1> DEFINE d == Encode7bit(T).data
           c == o % 128
           b == o \div 128
           r == RightShifts(o, 8)
           s == RightShifts(c, 7)
           f == Field(o, 8)
<1>1. /\ c \in 0..127 /\ b \in Bit
      /\ \A k \in 0..6 : r[k] % 2 = s[k] % 2
      /\ r[7] % 2 = b
    <2>1. o \in 0..255
        OBVIOUS
    <2> QED BY ONLY <2>1, LowShifts
<1>2. \A q \in 0..(Len(T) - 1), i \in 1..7 : d[7 * q + i] = FieldReversed(T[q + 1], 7)[i]
    BY SeptetsAreRead
<1>3. Fits(o, 8)
    <2>1. o \in 0..255
        OBVIOUS
    <2> QED BY ONLY <2>1, Widths
<1>4. Number(f) = o /\ f \in [1..8 -> Bit]
    BY <1>3, NumberOfField DEF Fits
<1>5. f = [i \in 1..8 |-> r[8 - i] % 2]
    BY DEF Field
<1>6. \A i \in 1..7 : FieldReversed(c, 7)[i] = s[i - 1] % 2
    BY DEF FieldReversed
<1>7. FieldReversed(b, 7)[1] = b
    <2>1. b \in Nat /\ 7 \in Nat /\ b % 2 = b
        <3>1. b = 0 \/ b = 1
            BY ONLY <1>1 DEF Bit
        <3> HIDE DEF b
        <3>2. b % 2 = b
            BY ONLY <3>1
        <3> QED BY ONLY <3>1, <3>2
    <2>2. RightShifts(b, 7)[0] = b
        BY ONLY <2>1, RightShiftsAre
    <2>3. FieldReversed(b, 7) = [i \in 1..7 |-> RightShifts(b, 7)[i - 1] % 2]
        BY DEF FieldReversed
    <2>4. 1 \in 1..7 /\ 1 - 1 = 0
        OBVIOUS
    <2> HIDE DEF b
    <2> QED BY <2>1, <2>2, <2>3, <2>4
<1> HIDE DEF d, c, b, r, s, f
<1>8. Len(T) \in Nat /\ T[1] = c /\ T[2] = b /\ 0 \in 0..(Len(T) - 1) /\ 1 \in 0..(Len(T) - 1)
    <2>1. Len(T) \in Nat
        OBVIOUS
    <2>2. 0 \in 0..(Len(T) - 1) /\ 1 \in 0..(Len(T) - 1)
        BY <2>1
    <2> QED BY <2>1, <2>2 DEF c, b
<1>9. \A j \in 1..7 : d[j] = r[j - 1] % 2
    <2> SUFFICES ASSUME NEW j \in 1..7 PROVE d[j] = r[j - 1] % 2
        OBVIOUS
    <2>1. j - 1 \in 0..6 /\ 7 * 0 + j = j /\ 0 + 1 = 1
        OBVIOUS
    <2>2. d[7 * 0 + j] = FieldReversed(T[0 + 1], 7)[j]
        BY <1>2, <1>8
    <2>3. d[j] = FieldReversed(c, 7)[j]
        BY <1>8, <2>1, <2>2
    <2> QED BY <1>1, <1>6, <2>1, <2>3
<1>10. d[8] = r[7] % 2
    <2>1. 1 \in 1..7 /\ 7 * 1 + 1 = 8 /\ 1 + 1 = 2
        OBVIOUS
    <2>2. d[7 * 1 + 1] = FieldReversed(T[1 + 1], 7)[1]
        BY <1>2, <1>8, <2>1
    <2> QED BY <1>1, <1>7, <1>8, <2>1, <2>2
<1>11. ASSUME NEW i \in 1..8 PROVE d[0 + 8 + 1 - i] % 2 = f[i]
    <2>1. 0 + 8 + 1 - i = 9 - i /\ (9 - i = 8 \/ 9 - i \in 1..7) /\ (9 - i) - 1 = 8 - i /\ 8 - 1 = 7
        OBVIOUS
    <2>2. d[9 - i] = r[8 - i] % 2
        BY <1>9, <1>10, <2>1
    <2>3. f[i] = r[8 - i] % 2 /\ f[i] \in Bit
        BY <1>4, <1>5
    <2>4. f[i] % 2 = f[i]
        BY <2>3, DoubleAndHalf
    <2> QED BY <2>1, <2>2, <2>3, <2>4
<1>12. [i \in 1..8 |-> d[0 + 8 + 1 - i] % 2] = f
    <2>1. f = [i \in 1..8 |-> f[i]]
        BY <1>4
    <2> QED BY <1>11, <2>1
<1>13. PeekReversed(d, 0, 8) = o
    BY <1>4, <1>12 DEF PeekReversed
<1> QED BY <1>13 DEF d

\* What a text is after it was decoded.
Plain(text) == [i \in DOMAIN text |-> Canonical(text[i])]

\* A text that was decoded is decoded as itself.
LEMMA PlainIs ==
    ASSUME NEW text \in Seq(0..127)
    PROVE  /\ Plain(text) \in Seq(0..127) /\ Len(Plain(text)) = Len(text)
           /\ Plain(Plain(text)) = Plain(text)
<1> DEFINE l == Len(text)
           p == Plain(text)
<1>1. l \in Nat /\ DOMAIN text = 1..l
    OBVIOUS
<1>2. \A x \in 0..127 : Canonical(x) \in 0..127 /\ Canonical(Canonical(x)) = Canonical(x)
    BY DEF Canonical
<1>3. \A i \in 1..l : text[i] \in 0..127
    BY ElementIs
<1>4. p = [i \in 1..l |-> Canonical(text[i])]
    BY <1>1 DEF Plain
<1> HIDE DEF p, l
<1>5. p \in [1..l -> 0..127]
    BY <1>2, <1>3, <1>4
<1>6. p \in Seq(0..127) /\ Len(p) = l /\ DOMAIN p = 1..l
    BY <1>1, <1>5, SeqIs
<1>7. Plain(p) = [i \in 1..l |-> Canonical(p[i])]
    BY <1>6 DEF Plain
<1>8. \A i \in 1..l : Canonical(p[i]) = Canonical(text[i])
    BY <1>2, <1>3, <1>4
<1>9. Plain(p) = p
    BY <1>4, <1>7, <1>8
<1> QED BY <1>6, <1>9 DEF p, l

\* The user data of a text, with a header of so many octets or none.
Sent(o, text, dcs) ==
    [dcs |-> dcs, udhi |-> o > 0, length |-> Len(Header(o) \o text),
     data |-> Encode7bit(Header(o) \o text).data]

\* The text is decoded from them, where the alphabet is the one that decode knows.
LEMMA TextIsDecoded ==
    ASSUME NEW o \in 0..139, NEW text \in Seq(0..127), Len(Header(o)) + Len(text) <= 160, NEW dcs
    PROVE  /\ Decode(Sent(o, text, dcs)) \in {Failed, Plain(text)}
           /\ dcs = 0 => Decode(Sent(o, text, dcs)) = Plain(text)
<1> DEFINE h == Header(o)
           T == h \o text
           k == Len(h)
           l == Len(text)
           d == Encode7bit(T).data
           ud == Sent(o, text, dcs)
           skip == IF ud.udhi THEN HeaderSeptets(PeekReversed(ud.data, 0, 8)) ELSE 0
<1>1. /\ h \in Seq(0..127) /\ k \in Nat /\ l \in Nat
      /\ o = 0 => k = 0
      /\ o > 0 => /\ k = HeaderSeptets(o) /\ k >= 2
                  /\ h[1] = o % 128 /\ h[2] = o \div 128
    <2>1. /\ h \in Seq(0..127)
          /\ o = 0 => h = << >> /\ k = 0
          /\ o > 0 => /\ k = HeaderSeptets(o) /\ k >= 2
                      /\ h[1] = o % 128 /\ h[2] = o \div 128
        BY HeaderIs
    <2> HIDE DEF h
    <2>2. k \in Nat /\ l \in Nat
        BY <2>1
    <2> QED BY <2>1, <2>2
<1>2. k + l <= 160 /\ \A i \in 1..l : text[i] \in 0..127
    BY ElementIs
<1> HIDE DEF h
<1>3. T \in Seq(0..127) /\ Len(T) = k + l
    BY <1>1
<1>4. ASSUME NEW i \in 1..k PROVE T[i] = h[i]
    BY <1>1
<1>5. ASSUME NEW i \in 1..l PROVE T[k + i] = text[i]
    BY <1>1
<1>6. ud = [dcs |-> dcs, udhi |-> o > 0, length |-> k + l, data |-> d]
    BY <1>3 DEF Sent, h
<1> HIDE DEF T, k, l, ud
<1>7. /\ \A q \in 0..(Len(T) - 1) : PeekReversed(d, 7 * q, 7) = T[q + 1]
      /\ Ceil(7 * Len(T), 8) \in 0..140 /\ Piece(d, 8 * Ceil(7 * Len(T), 8))
      /\ 7 * Len(T) <= 8 * Ceil(7 * Len(T), 8)
    <2>1. Len(T) <= 160
        BY <1>2, <1>3
    <2> HIDE DEF d
    <2> QED BY <1>3, <2>1, SeptetsAreRead DEF d
<1>8. ~((k + l) * 7 > Len(d))
    <2>1. Len(d) = 8 * Ceil(7 * Len(T), 8)
        BY <1>7 DEF Piece
    <2> HIDE DEF d
    <2> QED BY <1>1, <1>3, <1>7, <2>1
<1>9. skip = k
    <2>1. CASE o = 0
        <3>1. ~ud.udhi
            <4>1. ~(o > 0)
                BY <2>1
            <4>2. ud.udhi = (o > 0)
                BY ONLY <1>6
            <4> QED BY ONLY <4>1, <4>2
        <3> QED BY <1>1, <2>1, <3>1
    <2>2. CASE o > 0
        <3>1. 1 \in 1..k /\ 2 \in 1..k /\ Len(T) >= 2 /\ Len(T) <= 160
            BY <1>1, <1>2, <1>3, <2>2
        <3>2. T[1] = o % 128 /\ T[2] = o \div 128
            BY <1>1, <1>4, <2>2, <3>1
        <3>3. PeekReversed(d, 0, 8) = o
            BY <1>3, <3>1, <3>2, HeaderIsRead
        <3> HIDE DEF d
        <3>4. ud.udhi /\ ud.data = d
            BY <1>6, <2>2
        <3> QED BY <1>1, <2>2, <3>3, <3>4
    <2>3. o = 0 \/ o > 0
        OBVIOUS
    <2> QED BY <2>1, <2>2, <2>3
<1> HIDE DEF d, skip
<1>10. ud.length = k + l /\ ud.data = d /\ ud.dcs = dcs
    BY <1>6
<1>11. ~(k > k + l) /\ (k + l) - k = l
    BY <1>1
<1>12. [i \in 1..l |-> Canonical(PeekReversed(d, 7 * (k + i - 1), 7))] = Plain(text)
    <2>1. ASSUME NEW i \in 1..l PROVE PeekReversed(d, 7 * (k + i - 1), 7) = text[i]
        <3>1. k + i - 1 \in 0..(Len(T) - 1) /\ (k + i - 1) + 1 = k + i
            BY <1>1, <1>3
        <3>2. PeekReversed(d, 7 * (k + i - 1), 7) = T[(k + i - 1) + 1]
            BY <1>7, <3>1
        <3> QED BY <1>5, <3>1, <3>2
    <2>2. DOMAIN text = 1..l
        BY DEF l
    <2>3. Plain(text) = [i \in 1..l |-> Canonical(text[i])]
        BY <2>2 DEF Plain
    <2> QED BY <2>1, <2>3
<1>13. Decode(ud) = IF dcs \notin {0, 244, 245, 246, 247} THEN Failed ELSE Plain(text)
    <2>1. Decode(ud) = IF ud.dcs \notin {0, 244, 245, 246, 247} \/ ud.length * 7 > Len(ud.data) THEN Failed
                       ELSE IF skip > ud.length THEN Failed
                       ELSE [i \in 1..(ud.length - skip) |->
                                Canonical(PeekReversed(ud.data, 7 * (skip + i - 1), 7))]
        BY DEF Decode, skip
    <2>2. Decode(ud) = IF dcs \notin {0, 244, 245, 246, 247} \/ (k + l) * 7 > Len(d) THEN Failed
                       ELSE IF k > k + l THEN Failed
                       ELSE [i \in 1..((k + l) - k) |->
                                Canonical(PeekReversed(d, 7 * (k + i - 1), 7))]
        BY ONLY <1>9, <1>10, <2>1
    <2> QED BY <1>8, <1>11, <1>12, <2>2
<1> QED BY <1>13 DEF ud

--------------------------------------------------------------------------------
(* SMS-SUBMIT and SMS-DELIVER *)

\* One bit for a condition.
LEMMA FlagIs ==
    ASSUME NEW b \in BOOLEAN
    PROVE  /\ Piece(Flag(b), 1)
           /\ \A v \in Seq(Bit), rp \in Nat : Has(v, rp, Flag(b)) => (v[rp + 1] = 1) = b
<1>1. 0 \in Bit /\ 1 \in Bit
    BY DEF Bit
<1>2. CASE b = TRUE
    <2>1. Flag(b) = <<1>>
        BY <1>2 DEF Flag
    <2>2. /\ Piece(Flag(b), 1)
          /\ \A v \in Seq(Bit), rp \in Nat : Has(v, rp, Flag(b)) => v[rp + 1] = 1
        BY <1>1, <2>1, BitIs
    <2> QED BY <1>2, <2>2
<1>3. CASE b = FALSE
    <2>1. Flag(b) = <<0>>
        BY <1>3 DEF Flag
    <2>2. /\ Piece(Flag(b), 1)
          /\ \A v \in Seq(Bit), rp \in Nat : Has(v, rp, Flag(b)) => v[rp + 1] = 0
        BY <1>1, <2>1, BitIs
    <2>3. \A v \in Seq(Bit), rp \in Nat : Has(v, rp, Flag(b)) => ~(v[rp + 1] = 1)
        BY <2>2
    <2> QED BY <1>3, <2>2, <2>3
<1> QED BY <1>2, <1>3

\* The octets of a number in a TPDU, and of its address.
LEMMA AddressOctets ==
    ASSUME NEW number \in PhoneNumbers, Size(number) <= MaxDigits
    PROVE  LET o == Ceil(Len(number.digits), 2)
           IN  /\ o \in 0..10
               /\ Len(number.digits) \in 0..255 /\ Size(number) \in 0..255
               /\ ~Miscounted(number) => Ceil(Size(number), 2) = o
<1> DEFINE l == Len(number.digits)
           p == number.plus
           s == Size(number)
<1>1. l \in Nat /\ s \in Nat /\ l <= s /\ s <= 20 /\ p \in BOOLEAN
    BY SizeIs DEF MaxDigits
<1>2. s = l + (IF p THEN 1 ELSE 0)
    BY DEF Size
<1>3. Miscounted(number) <=> p /\ l % 2 = 0
    BY DEF Miscounted
<1> HIDE DEF l, p, s
<1>4. Ceil(l, 2) \in 0..10 /\ l \in 0..255 /\ s \in 0..255
    BY <1>1 DEF Ceil
<1>5. ASSUME ~Miscounted(number) PROVE Ceil(s, 2) = Ceil(l, 2)
    <2>1. CASE p
        <3>1. s = l + 1 /\ l % 2 # 0
            BY <1>2, <1>3, <1>5, <2>1
        <3> QED BY <1>1, <3>1 DEF Ceil
    <2>2. CASE ~p
        BY <1>1, <1>2, <2>2
    <2> QED BY <1>1, <2>1, <2>2
<1> QED BY <1>4, <1>5 DEF l, s

\* What the code expects of a message.
LEMMA MessageIs ==
    ASSUME sms \in Messages
    PROVE  /\ sms.to \in PhoneNumbers /\ Size(sms.to) <= MaxDigits
           /\ sms.from \in PhoneNumbers /\ Size(sms.from) <= MaxDigits
           /\ sms.vpf \in 0..3 /\ sms.vp \in 0..255 /\ sms.dcs \in 0..255 /\ sms.header \in 0..139
           /\ sms.text \in Seq(0..127)
           /\ Len(Header(sms.header)) + Len(sms.text) <= 160
<1>1. sms \in [to : PhoneNumbers, from : PhoneNumbers, vpf : 0..3, vp : 0..255, dcs : 0..255,
                header : 0..139, text : Seq(0..127)]
    BY CodecAssumption DEF CodecAssumption
<1>2. /\ Size(sms.to) <= MaxDigits /\ Size(sms.from) <= MaxDigits
      /\ Len(Header(sms.header)) + Len(sms.text) <= 160
    BY CodecAssumption DEF CodecAssumption
<1> QED BY ONLY <1>1, <1>2

\* The user data that the phone sends, and what is parsed of them.
Data == Sent(sms.header, sms.text, sms.dcs)

\* They are the septets of the header and the text, with the alphabet of the message.
LEMMA DataAre ==
    ASSUME sms \in Messages
    PROVE  LET T == Header(sms.header) \o sms.text
               e == Encode7bit(T)
               m == Ceil(7 * Len(T), 8)
           IN  /\ m \in 0..140 /\ Piece(e.data, 8 * m) /\ e.length = Len(T) /\ Len(T) \in 0..160
               /\ Data = [dcs |-> sms.dcs, udhi |-> sms.header > 0, length |-> e.length, data |-> e.data]
<1> DEFINE h == Header(sms.header)
           t == sms.text
           T == h \o t
           k == Len(h)
           l == Len(t)
           n == Len(T)
<1>1. h \in Seq(0..127) /\ t \in Seq(0..127) /\ k + l <= 160
    BY MessageIs, HeaderIs
<1> HIDE DEF h, t
<1>2. T \in Seq(0..127) /\ n = k + l /\ k \in Nat /\ l \in Nat
    BY <1>1
<1> HIDE DEF T, k, l, n
<1>3. n \in 0..160 /\ n <= 160
    BY <1>1, <1>2
<1>4. /\ Encode7bit(T).length = n
      /\ Ceil(7 * n, 8) \in 0..140 /\ Piece(Encode7bit(T).data, 8 * Ceil(7 * n, 8))
    <2>1. Len(T) <= 160
        BY <1>3 DEF n
    <2> DEFINE e == Encode7bit(T)
    <2>2. /\ e = [dcs |-> 0, udhi |-> FALSE, length |-> Len(T), data |-> e.data]
          /\ Ceil(7 * Len(T), 8) \in 0..140 /\ Piece(e.data, 8 * Ceil(7 * Len(T), 8))
        BY <1>2, <2>1, SeptetsAreRead
    <2> HIDE DEF e
    <2>3. e.length = Len(T)
        BY ONLY <2>2
    <2> QED BY <2>2, <2>3 DEF n, e
<1> QED BY <1>3, <1>4 DEF Data, Sent, T, h, t, n

\* The SMS-SUBMIT: its length, and what TLSubmit parses of it.
LEMMA SubmitIs ==
    ASSUME sms \in Messages, ~Misread
    PROVE  /\ \E k \in 0..255 : Piece(SubmitTPDU, 8 * k)
           /\ Peek(SubmitTPDU, 6, 2) = 1
           /\ ParseSubmit(SubmitTPDU)
                 = [to |-> sms.to, minutes |-> IF sms.vpf = 2 THEN Minutes(sms.vp) ELSE 10080, ud |-> Data]
<1> DEFINE T == Header(sms.header) \o sms.text
           ud == Encode7bit(T)
           m == Ceil(7 * Len(T), 8)
           o == Ceil(Len(sms.to.digits), 2)
           A == 16 + 8 * o
           V == IF sms.vpf = 2 THEN 8 ELSE 0
           U == 8 + 8 * m
           a == <<0>>
           b == Flag(sms.header > 0)
           c == <<0>>
           d == Field(sms.vpf, 2)
           e == <<0>>
           f == Field(1, 2)
           g == Field(7, 8)
           h == StandardAddress(sms.to)
           i == Field(0, 8)
           j == Field(sms.dcs, 8)
           k == CASE sms.vpf = 0 -> << >> [] sms.vpf = 2 -> Field(sms.vp, 8) [] OTHER -> Zeros(56)
           u == UserData(ud)
           v == SubmitTPDU
           q2 == a \o b
           q3 == q2 \o c
           q4 == q3 \o d
           q5 == q4 \o e
           q6 == q5 \o f
           q7 == q6 \o g
           q8 == q7 \o h
           q9 == q8 \o i
           q10 == q9 \o j
           q11 == q10 \o k
<1>0. /\ sms.to \in PhoneNumbers /\ Size(sms.to) <= MaxDigits
      /\ sms.vpf \in 0..3 /\ sms.vp \in 0..255 /\ sms.dcs \in 0..255
      /\ o \in 0..10 /\ Len(sms.to.digits) \in 0..255
    BY MessageIs, AddressOctets
<1>1. Piece(a, 1) /\ Piece(c, 1) /\ Piece(e, 1)
    <2>1. 0 \in Bit
        BY DEF Bit
    <2> QED BY <2>1, BitIs
<1>2. Piece(b, 1) /\ \A x \in Seq(Bit), rp \in Nat : Has(x, rp, b) => (x[rp + 1] = 1) = (sms.header > 0)
    <2>1. (sms.header > 0) \in BOOLEAN
        BY MessageIs
    <2> QED BY <2>1, FlagIs
<1>3. Piece(d, 2) /\ \A x \in Seq(Bit), rp \in Nat : Has(x, rp, d) => Peek(x, rp, 2) = sms.vpf
    <2>1. Fits(sms.vpf, 2)
        BY <1>0, Widths
    <2> QED BY <2>1, FieldIsRead
<1>4. Piece(f, 2) /\ \A x \in Seq(Bit), rp \in Nat : Has(x, rp, f) => Peek(x, rp, 2) = 1
    <2>1. Fits(1, 2)
        BY Widths
    <2> QED BY <2>1, FieldIsRead
<1>5. Piece(g, 8)
    <2>1. Fits(7, 8)
        BY Widths
    <2> QED BY <2>1, FieldIsRead
<1>6. /\ Piece(h, A)
      /\ \A x \in Seq(Bit), rp \in Nat :
            Has(x, rp, h) => ParseTLAddress(x, rp) = [number |-> sms.to, rp |-> rp + 16 + 8 * o]
    <2>1. h = AddressBits(Len(sms.to.digits), sms.to)
        BY DEF StandardAddress, AddressBits
    <2> HIDE DEF h
    <2>2. Piece(h, A)
        BY <1>0, <2>1, AddressIs
    <2>3. ASSUME NEW x \in Seq(Bit), NEW rp \in Nat, Has(x, rp, h)
          PROVE  ParseTLAddress(x, rp) = [number |-> sms.to, rp |-> rp + 16 + 8 * o]
        BY <1>0, <2>1, <2>3, AddressIsParsed
    <2> QED BY <2>2, <2>3
<1>7. Piece(i, 8)
    <2>1. Fits(0, 8)
        BY Widths
    <2> QED BY <2>1, FieldIsRead
<1>8. Piece(j, 8) /\ \A x \in Seq(Bit), rp \in Nat : Has(x, rp, j) => Peek(x, rp, 8) = sms.dcs
    <2>1. Fits(sms.dcs, 8)
        BY <1>0, Widths
    <2> QED BY <2>1, FieldIsRead
<1>9. /\ Piece(k, V) /\ sms.vpf \in {0, 2}
      /\ \A x \in Seq(Bit), rp \in Nat :
            Has(x, rp, k) =>
               ParseValidity(x, rp, sms.vpf)
                  = [minutes |-> IF sms.vpf = 2 THEN Minutes(sms.vp) ELSE 10080, rp |-> rp + V]
    <2>1. sms.vpf = 0 \/ sms.vpf = 2
        <3>1. sms.vpf \in 0..3 /\ sms.vpf \notin {1, 3}
            BY <1>0 DEF Misread
        <3> QED BY ONLY <3>1
    <2>2. CASE sms.vpf = 0
        <3>1. k = << >> /\ V = 0
            BY <2>2
        <3>2. Piece(<< >>, 0)
            BY DEF Piece
        <3>3. ASSUME NEW x, NEW rp \in Nat
              PROVE  ParseValidity(x, rp, sms.vpf) = [minutes |-> 10080, rp |-> rp + 0]
            BY <2>2 DEF ParseValidity
        <3> QED BY <2>2, <3>1, <3>2, <3>3
    <2>3. CASE sms.vpf = 2
        <3>1. k = Field(sms.vp, 8) /\ V = 8
            BY <2>3
        <3>2. Fits(sms.vp, 8)
            BY <1>0, Widths
        <3>3. Piece(k, 8) /\ \A x \in Seq(Bit), rp \in Nat : Has(x, rp, k) => Peek(x, rp, 8) = sms.vp
            BY <3>1, <3>2, FieldIsRead
        <3> HIDE DEF k
        <3>4. ASSUME NEW x \in Seq(Bit), NEW rp \in Nat, Has(x, rp, k)
              PROVE  ParseValidity(x, rp, sms.vpf) = [minutes |-> Minutes(sms.vp), rp |-> rp + 8]
            BY <2>3, <3>3, <3>4 DEF ParseValidity
        <3> QED BY <2>3, <3>1, <3>3, <3>4
    <2> QED BY <2>1, <2>2, <2>3
<1>10. /\ Piece(u, U)
       /\ \A x \in Seq(Bit), rp \in Nat : \A dcs, udhi :
             Has(x, rp, u) /\ Len(x) = rp + U =>
                ParseUserData(x, rp, dcs, udhi)
                   = [dcs |-> dcs, udhi |-> udhi, length |-> ud.length, data |-> ud.data]
    <2>1. m \in Nat /\ Piece(ud.data, 8 * m) /\ ud.length \in 0..255
        <3>1. m \in 0..140 /\ Piece(ud.data, 8 * m) /\ ud.length = Len(T) /\ Len(T) \in 0..160
            BY DataAre
        <3> HIDE DEF m, ud, T
        <3>2. m \in Nat /\ ud.length \in 0..255
            BY ONLY <3>1
        <3> QED BY ONLY <3>1, <3>2
    <2> HIDE DEF ud, m
    <2> QED BY ONLY <2>1, UserDataIsParsed DEF U, u
<1>11. /\ A \in Nat /\ V \in Nat /\ U \in Nat
       /\ A = 16 + 8 * o /\ o \in 0..10 /\ (V = 0 \/ V = 8) /\ U = 8 + 8 * m /\ m \in 0..140
    <2>1. m \in 0..140
        BY DataAre
    <2> HIDE DEF m
    <2> QED BY <1>0, <2>1
<1>12. v = q11 \o u
    BY DEF SubmitTPDU
<1> HIDE DEF a, b, c, d, e, f, g, h, i, j, k, u, v, A, V, U, o, m, ud, T
<1>13. Piece(q2, 2)
    <2>1. Piece(q2, (1) + 1)
        BY ONLY <1>1, <1>2, Join
    <2> QED BY <2>1
<1> HIDE DEF q2
<1>14. Piece(q3, 3)
    <2>1. Piece(q3, (2) + 1)
        BY ONLY <1>13, <1>1, Join
    <2> QED BY <2>1
<1> HIDE DEF q3
<1>15. Piece(q4, 5)
    <2>1. Piece(q4, (3) + 2)
        BY ONLY <1>14, <1>3, Join
    <2> QED BY <2>1
<1> HIDE DEF q4
<1>16. Piece(q5, 6)
    <2>1. Piece(q5, (5) + 1)
        BY ONLY <1>15, <1>1, Join
    <2> QED BY <2>1
<1> HIDE DEF q5
<1>17. Piece(q6, 8)
    <2>1. Piece(q6, (6) + 2)
        BY ONLY <1>16, <1>4, Join
    <2> QED BY <2>1
<1> HIDE DEF q6
<1>18. Piece(q7, 16)
    <2>1. Piece(q7, (8) + 8)
        BY ONLY <1>17, <1>5, Join
    <2> QED BY <2>1
<1> HIDE DEF q7
<1>19. Piece(q8, 16 + A)
    <2>1. Piece(q8, (16) + A)
        BY ONLY <1>18, <1>6, Join
    <2>2. (16) + A = 16 + A
        BY <1>11
    <2> QED BY <2>1, <2>2
<1> HIDE DEF q8
<1>20. Piece(q9, 24 + A)
    <2>1. Piece(q9, (16 + A) + 8)
        BY ONLY <1>19, <1>7, Join
    <2>2. (16 + A) + 8 = 24 + A
        BY <1>11
    <2> QED BY <2>1, <2>2
<1> HIDE DEF q9
<1>21. Piece(q10, 32 + A)
    <2>1. Piece(q10, (24 + A) + 8)
        BY ONLY <1>20, <1>8, Join
    <2>2. (24 + A) + 8 = 32 + A
        BY <1>11
    <2> QED BY <2>1, <2>2
<1> HIDE DEF q10
<1>22. Piece(q11, 32 + A + V)
    <2>1. Piece(q11, (32 + A) + V)
        BY ONLY <1>21, <1>9, Join
    <2>2. (32 + A) + V = 32 + A + V
        BY <1>11
    <2> QED BY <2>1, <2>2
<1> HIDE DEF q11
<1>23. Piece(v, 32 + A + V + U)
    <2>1. Piece(q11 \o u, (32 + A + V) + U)
        BY ONLY <1>22, <1>10, Join
    <2>2. (32 + A + V) + U = 32 + A + V + U
        BY <1>11
    <2> QED BY <2>1, <2>2, <1>12
<1>24. v \in Seq(Bit) /\ Len(v) = 32 + A + V + U /\ Has(v, 0, v)
    BY <1>23, HasAll DEF Piece
<1>25. Has(v, 0, q11) /\ Has(v, 32 + A + V, u)
    <2>1. 0 \in Nat /\ 0 + (32 + A + V) = 32 + A + V
        BY <1>11
    <2>2. Has(v, 0, q11) /\ Has(v, 0 + (32 + A + V), u)
        BY <1>22, <1>10, <1>24, <1>12, <1>24, <2>1, Split
    <2> QED BY <2>1, <2>2
<1>26. Has(v, 0, q10) /\ Has(v, 32 + A, k)
    <2>1. 0 \in Nat /\ 0 + (32 + A) = 32 + A
        BY <1>11
    <2>2. Has(v, 0, q10) /\ Has(v, 0 + (32 + A), k)
        BY <1>21, <1>9, <1>25, <1>24, <2>1, Split DEF q11
    <2> QED BY <2>1, <2>2
<1>27. Has(v, 0, q9) /\ Has(v, 24 + A, j)
    <2>1. 0 \in Nat /\ 0 + (24 + A) = 24 + A
        BY <1>11
    <2>2. Has(v, 0, q9) /\ Has(v, 0 + (24 + A), j)
        BY <1>20, <1>8, <1>26, <1>24, <2>1, Split DEF q10
    <2> QED BY <2>1, <2>2
<1>28. Has(v, 0, q8) /\ Has(v, 16 + A, i)
    <2>1. 0 \in Nat /\ 0 + (16 + A) = 16 + A
        BY <1>11
    <2>2. Has(v, 0, q8) /\ Has(v, 0 + (16 + A), i)
        BY <1>19, <1>7, <1>27, <1>24, <2>1, Split DEF q9
    <2> QED BY <2>1, <2>2
<1>29. Has(v, 0, q7) /\ Has(v, 16, h)
    <2>1. 0 \in Nat /\ 0 + 16 = 16
        OBVIOUS
    <2>2. Has(v, 0, q7) /\ Has(v, 0 + 16, h)
        BY <1>18, <1>6, <1>28, <1>24, <2>1, Split DEF q8
    <2> QED BY <2>1, <2>2
<1>30. Has(v, 0, q6) /\ Has(v, 8, g)
    <2>1. 0 \in Nat /\ 0 + 8 = 8
        OBVIOUS
    <2>2. Has(v, 0, q6) /\ Has(v, 0 + 8, g)
        BY <1>17, <1>5, <1>29, <1>24, <2>1, Split DEF q7
    <2> QED BY <2>1, <2>2
<1>31. Has(v, 0, q5) /\ Has(v, 6, f)
    <2>1. 0 \in Nat /\ 0 + 6 = 6
        OBVIOUS
    <2>2. Has(v, 0, q5) /\ Has(v, 0 + 6, f)
        BY <1>16, <1>4, <1>30, <1>24, <2>1, Split DEF q6
    <2> QED BY <2>1, <2>2
<1>32. Has(v, 0, q4) /\ Has(v, 5, e)
    <2>1. 0 \in Nat /\ 0 + 5 = 5
        OBVIOUS
    <2>2. Has(v, 0, q4) /\ Has(v, 0 + 5, e)
        BY <1>15, <1>1, <1>31, <1>24, <2>1, Split DEF q5
    <2> QED BY <2>1, <2>2
<1>33. Has(v, 0, q3) /\ Has(v, 3, d)
    <2>1. 0 \in Nat /\ 0 + 3 = 3
        OBVIOUS
    <2>2. Has(v, 0, q3) /\ Has(v, 0 + 3, d)
        BY <1>14, <1>3, <1>32, <1>24, <2>1, Split DEF q4
    <2> QED BY <2>1, <2>2
<1>34. Has(v, 0, q2) /\ Has(v, 2, c)
    <2>1. 0 \in Nat /\ 0 + 2 = 2
        OBVIOUS
    <2>2. Has(v, 0, q2) /\ Has(v, 0 + 2, c)
        BY <1>13, <1>1, <1>33, <1>24, <2>1, Split DEF q3
    <2> QED BY <2>1, <2>2
<1>35. Has(v, 0, a) /\ Has(v, 1, b)
    <2>1. 0 \in Nat /\ 0 + 1 = 1
        OBVIOUS
    <2>2. Has(v, 0, a) /\ Has(v, 0 + 1, b)
        BY <1>1, <1>2, <1>34, <1>24, <2>1, Split DEF q2
    <2> QED BY <2>1, <2>2
<1>36. Peek(v, 6, 2) = 1 /\ Peek(v, 3, 2) = sms.vpf /\ (v[2] = 1) = (sms.header > 0)
    <2>1. 6 \in Nat /\ 3 \in Nat /\ 1 \in Nat /\ 1 + 1 = 2
        OBVIOUS
    <2>2. Peek(v, 6, 2) = 1
        BY <1>4, <1>24, <1>31, <2>1
    <2>3. Peek(v, 3, 2) = sms.vpf
        BY <1>3, <1>24, <1>33, <2>1
    <2>4. (v[1 + 1] = 1) = (sms.header > 0)
        BY <1>2, <1>24, <1>35, <2>1
    <2> QED BY <2>1, <2>2, <2>3, <2>4
<1> DEFINE r == 16 + A
<1>37. /\ r \in Nat /\ r + 8 = 24 + A /\ r + 16 = 32 + A /\ r + 8 \in Nat /\ r + 16 \in Nat /\ 16 + 16 + 8 * o = r
       /\ r + 16 + V = 32 + A + V /\ r + 16 + V \in Nat /\ Len(v) = (r + 16 + V) + U
    BY <1>11, <1>24
<1>38. ParseTLAddress(v, 16) = [number |-> sms.to, rp |-> r]
    BY <1>6, <1>24, <1>29, <1>37
<1> HIDE DEF r
<1>39. Peek(v, r + 8, 8) = sms.dcs
    BY <1>8, <1>24, <1>27, <1>37
<1>40. ParseValidity(v, r + 16, sms.vpf)
          = [minutes |-> IF sms.vpf = 2 THEN Minutes(sms.vp) ELSE 10080, rp |-> r + 16 + V]
    BY <1>9, <1>24, <1>26, <1>37
<1>41. ParseUserData(v, r + 16 + V, sms.dcs, v[2] = 1)
          = [dcs |-> sms.dcs, udhi |-> sms.header > 0, length |-> ud.length, data |-> ud.data]
    <2>1. Has(v, r + 16 + V, u)
        BY <1>25, <1>37
    <2>2. ParseUserData(v, r + 16 + V, sms.dcs, sms.header > 0)
             = [dcs |-> sms.dcs, udhi |-> sms.header > 0, length |-> ud.length, data |-> ud.data]
        BY <1>10, <1>24, <1>37, <2>1
    <2> QED BY <1>36, <2>2
<1>42. ParseUserData(v, r + 16 + V, sms.dcs, v[2] = 1) = Data
    BY <1>41, DataAre DEF ud, T
<1>43. [number |-> sms.to, rp |-> r] # Failed
    <2>1. [number |-> sms.to, rp |-> r] \in [number : PhoneNumbers, rp : Nat]
        BY <1>0, <1>37
    <2>2. Failed \notin [number : PhoneNumbers, rp : Nat]
        BY CodecAssumption DEF CodecAssumption
    <2> QED BY <2>1, <2>2
<1>44. ParseSubmit(v)
          = [to |-> sms.to, minutes |-> IF sms.vpf = 2 THEN Minutes(sms.vp) ELSE 10080, ud |-> Data]
    BY <1>36, <1>38, <1>39, <1>40, <1>42, <1>43 DEF ParseSubmit
<1>45. \E x \in 0..255 : Piece(v, 8 * x)
    <2> DEFINE x == (32 + A + V + U) \div 8
    <2>1. x \in 0..255 /\ 8 * x = 32 + A + V + U
        BY <1>11
    <2> HIDE DEF x
    <2> QED BY <1>23, <2>1
<1> QED BY <1>36, <1>44, <1>45 DEF v

\* User data that an SMS-DELIVER can carry.
Carried(ud) ==
    /\ ud = [dcs |-> ud.dcs, udhi |-> ud.udhi, length |-> ud.length, data |-> ud.data]
    /\ ud.dcs \in 0..255 /\ ud.udhi \in BOOLEAN /\ ud.length \in 0..160
    /\ \E m \in 0..140 : Piece(ud.data, 8 * m)

\* What the other phone reads of a TPDU, as in Receive.
Reading(v) ==
    LET oa == ParseTLAddress(v, 8)
        ud == ParseUserData(v, oa.rp + 72, Peek(v, oa.rp + 8, 8), v[2] = 1)
    IN  IF oa = Failed \/ oa.rp + 80 > Len(v) THEN Failed
        ELSE [from |-> oa.number, udhi |-> ud.udhi, dcs |-> ud.dcs, text |-> Decode(ud)]

\* The SMS-DELIVER: its length, and what the phone reads in it.
LEMMA DeliverIs ==
    ASSUME NEW from \in PhoneNumbers, Size(from) <= MaxDigits, NEW ud, Carried(ud)
    PROVE  /\ DeliverLength(from, ud) \in 0..255
           /\ Piece(DeliverTPDU(from, ud), 8 * DeliverLength(from, ud))
           /\ ~Miscounted(from) =>
                 Reading(DeliverTPDU(from, ud))
                    = [from |-> from, udhi |-> ud.udhi, dcs |-> ud.dcs, text |-> Decode(ud)]
<1> DEFINE o == Ceil(Len(from.digits), 2)
           A == 16 + 8 * o
           a == <<0>>
           b == Flag(ud.udhi)
           c == <<0, 0, 0, 1>>
           d == Field(0, 2)
           h == TLAddress(from)
           i == Field(0, 8)
           j == Field(ud.dcs, 8)
           k == Zeros(56)
           u == UserData(ud)
           v == DeliverTPDU(from, ud)
           q2 == a \o b
           q3 == q2 \o c
           q4 == q3 \o d
           q5 == q4 \o h
           q6 == q5 \o i
           q7 == q6 \o j
           q8 == q7 \o k
<1>0. /\ ud = [dcs |-> ud.dcs, udhi |-> ud.udhi, length |-> ud.length, data |-> ud.data]
      /\ ud.dcs \in 0..255 /\ ud.udhi \in BOOLEAN /\ ud.length \in 0..255
      /\ \E m \in 0..140 : Piece(ud.data, 8 * m)
      /\ o \in 0..10 /\ Size(from) \in 0..255
      /\ ~Miscounted(from) => Ceil(Size(from), 2) = o
    <2>1. o \in 0..10 /\ Size(from) \in 0..255 /\ (~Miscounted(from) => Ceil(Size(from), 2) = o)
        BY AddressOctets
    <2>2. /\ ud = [dcs |-> ud.dcs, udhi |-> ud.udhi, length |-> ud.length, data |-> ud.data]
          /\ ud.dcs \in 0..255 /\ ud.udhi \in BOOLEAN /\ ud.length \in 0..160
          /\ \E m \in 0..140 : Piece(ud.data, 8 * m)
        BY Zenon DEF Carried
    <2>3. \A x \in 0..160 : x \in 0..255
        OBVIOUS
    <2>4. ud.length \in 0..255
        BY ONLY <2>2, <2>3
    <2> QED BY ONLY <2>1, <2>2, <2>4, Zenon
<1>1. Piece(a, 1)
    <2>1. 0 \in Bit
        BY DEF Bit
    <2> QED BY <2>1, BitIs
<1>2. Piece(b, 1) /\ \A x \in Seq(Bit), rp \in Nat : Has(x, rp, b) => (x[rp + 1] = 1) = ud.udhi
    BY <1>0, FlagIs
<1>3. Piece(c, 4)
    BY DEF Piece, Bit
<1>4. Piece(d, 2)
    <2>1. Fits(0, 2)
        BY Widths
    <2> QED BY <2>1, FieldIsRead
<1>5. /\ Piece(h, A)
      /\ ~Miscounted(from) =>
            \A x \in Seq(Bit), rp \in Nat :
               Has(x, rp, h) => ParseTLAddress(x, rp) = [number |-> from, rp |-> rp + 16 + 8 * o]
    <2>1. h = AddressBits(Size(from), from)
        BY DEF TLAddress, AddressBits
    <2> HIDE DEF h
    <2>2. Piece(h, A)
        BY <1>0, <2>1, AddressIs
    <2>3. ASSUME ~Miscounted(from), NEW x \in Seq(Bit), NEW rp \in Nat, Has(x, rp, h)
          PROVE  ParseTLAddress(x, rp) = [number |-> from, rp |-> rp + 16 + 8 * o]
        BY <1>0, <2>1, <2>3, AddressIsParsed
    <2> QED BY <2>2, <2>3
<1>6. Piece(i, 8)
    <2>1. Fits(0, 8)
        BY Widths
    <2> QED BY <2>1, FieldIsRead
<1>7. Piece(j, 8) /\ \A x \in Seq(Bit), rp \in Nat : Has(x, rp, j) => Peek(x, rp, 8) = ud.dcs
    <2>1. Fits(ud.dcs, 8)
        BY <1>0, Widths
    <2> QED BY <2>1, FieldIsRead
<1>8. Piece(k, 56)
    BY ZerosAre
<1> SUFFICES ASSUME NEW m \in 0..140, Piece(ud.data, 8 * m)
             PROVE  /\ DeliverLength(from, ud) \in 0..255
                    /\ Piece(v, 8 * DeliverLength(from, ud))
                    /\ ~Miscounted(from) =>
                          Reading(v) = [from |-> from, udhi |-> ud.udhi, dcs |-> ud.dcs, text |-> Decode(ud)]
    BY <1>0
<1> DEFINE U == 8 + 8 * m
<1>9. /\ Piece(u, U)
      /\ \A x \in Seq(Bit), rp \in Nat : \A dcs, udhi :
            Has(x, rp, u) /\ Len(x) = rp + U =>
               ParseUserData(x, rp, dcs, udhi)
                  = [dcs |-> dcs, udhi |-> udhi, length |-> ud.length, data |-> ud.data]
    <2>1. m \in Nat
        OBVIOUS
    <2> QED BY <1>0, <2>1, UserDataIsParsed
<1>10. /\ A \in Nat /\ U \in Nat
       /\ A = 16 + 8 * o /\ o \in 0..10 /\ U = 8 + 8 * m /\ m \in 0..140
    <2>1. o \in 0..10
        BY <1>0
    <2> HIDE DEF o
    <2> QED BY ONLY <2>1, m \in 0..140
<1>11. v = q8 \o u
    BY DEF DeliverTPDU
<1>11a. DeliverLength(from, ud) = 13 + o + m
    <2>1. Octets(ud.data) = m
        <3>1. Len(ud.data) = 8 * m /\ m \in Nat
            BY DEF Piece
        <3> QED BY <3>1, OctetsAre DEF Octets
    <2>2. DeliverLength(from, ud) = 1 + (2 + o) + 1 + 1 + 7 + (1 + m)
        BY <2>1 DEF DeliverLength, TLAddressLength, DigitsLengthV, UserDataLength
    <2>3. o \in Nat /\ m \in Nat
        BY <1>10
    <2> HIDE DEF o
    <2> QED BY ONLY <2>2, <2>3
<1> HIDE DEF a, b, c, d, h, i, j, k, u, v, A, U, o
<1>12. Piece(q2, 2)
    <2>1. Piece(q2, (1) + 1)
        BY ONLY <1>1, <1>2, Join
    <2> QED BY <2>1
<1> HIDE DEF q2
<1>13. Piece(q3, 6)
    <2>1. Piece(q3, (2) + 4)
        BY ONLY <1>12, <1>3, Join
    <2> QED BY <2>1
<1> HIDE DEF q3
<1>14. Piece(q4, 8)
    <2>1. Piece(q4, (6) + 2)
        BY ONLY <1>13, <1>4, Join
    <2> QED BY <2>1
<1> HIDE DEF q4
<1>15. Piece(q5, 8 + A)
    <2>1. Piece(q5, (8) + A)
        BY ONLY <1>14, <1>5, Join
    <2>2. (8) + A = 8 + A
        BY <1>10
    <2> QED BY <2>1, <2>2
<1> HIDE DEF q5
<1>16. Piece(q6, 16 + A)
    <2>1. Piece(q6, (8 + A) + 8)
        BY ONLY <1>15, <1>6, Join
    <2>2. (8 + A) + 8 = 16 + A
        BY <1>10
    <2> QED BY <2>1, <2>2
<1> HIDE DEF q6
<1>17. Piece(q7, 24 + A)
    <2>1. Piece(q7, (16 + A) + 8)
        BY ONLY <1>16, <1>7, Join
    <2>2. (16 + A) + 8 = 24 + A
        BY <1>10
    <2> QED BY <2>1, <2>2
<1> HIDE DEF q7
<1>18. Piece(q8, 80 + A)
    <2>1. Piece(q8, (24 + A) + 56)
        BY ONLY <1>17, <1>8, Join
    <2>2. (24 + A) + 56 = 80 + A
        BY <1>10
    <2> QED BY <2>1, <2>2
<1> HIDE DEF q8
<1>19. Piece(v, 80 + A + U)
    <2>1. Piece(q8 \o u, (80 + A) + U)
        BY ONLY <1>18, <1>9, Join
    <2>2. (80 + A) + U = 80 + A + U
        BY <1>10
    <2> QED BY <2>1, <2>2, <1>11
<1>20. v \in Seq(Bit) /\ Len(v) = 80 + A + U /\ Has(v, 0, v)
    BY <1>19, HasAll DEF Piece
<1>21. Has(v, 0, q8) /\ Has(v, 80 + A, u)
    <2>1. 0 \in Nat /\ 0 + (80 + A) = 80 + A
        BY <1>10
    <2>2. Has(v, 0, q8) /\ Has(v, 0 + (80 + A), u)
        BY <1>18, <1>9, <1>20, <1>11, <1>20, <2>1, Split
    <2> QED BY <2>1, <2>2
<1>22. Has(v, 0, q7) /\ Has(v, 24 + A, k)
    <2>1. 0 \in Nat /\ 0 + (24 + A) = 24 + A
        BY <1>10
    <2>2. Has(v, 0, q7) /\ Has(v, 0 + (24 + A), k)
        BY <1>17, <1>8, <1>21, <1>20, <2>1, Split DEF q8
    <2> QED BY <2>1, <2>2
<1>23. Has(v, 0, q6) /\ Has(v, 16 + A, j)
    <2>1. 0 \in Nat /\ 0 + (16 + A) = 16 + A
        BY <1>10
    <2>2. Has(v, 0, q6) /\ Has(v, 0 + (16 + A), j)
        BY <1>16, <1>7, <1>22, <1>20, <2>1, Split DEF q7
    <2> QED BY <2>1, <2>2
<1>24. Has(v, 0, q5) /\ Has(v, 8 + A, i)
    <2>1. 0 \in Nat /\ 0 + (8 + A) = 8 + A
        BY <1>10
    <2>2. Has(v, 0, q5) /\ Has(v, 0 + (8 + A), i)
        BY <1>15, <1>6, <1>23, <1>20, <2>1, Split DEF q6
    <2> QED BY <2>1, <2>2
<1>25. Has(v, 0, q4) /\ Has(v, 8, h)
    <2>1. 0 \in Nat /\ 0 + 8 = 8
        OBVIOUS
    <2>2. Has(v, 0, q4) /\ Has(v, 0 + 8, h)
        BY <1>14, <1>5, <1>24, <1>20, <2>1, Split DEF q5
    <2> QED BY <2>1, <2>2
<1>26. Has(v, 0, q3) /\ Has(v, 6, d)
    <2>1. 0 \in Nat /\ 0 + 6 = 6
        OBVIOUS
    <2>2. Has(v, 0, q3) /\ Has(v, 0 + 6, d)
        BY <1>13, <1>4, <1>25, <1>20, <2>1, Split DEF q4
    <2> QED BY <2>1, <2>2
<1>27. Has(v, 0, q2) /\ Has(v, 2, c)
    <2>1. 0 \in Nat /\ 0 + 2 = 2
        OBVIOUS
    <2>2. Has(v, 0, q2) /\ Has(v, 0 + 2, c)
        BY <1>12, <1>3, <1>26, <1>20, <2>1, Split DEF q3
    <2> QED BY <2>1, <2>2
<1>28. Has(v, 0, a) /\ Has(v, 1, b)
    <2>1. 0 \in Nat /\ 0 + 1 = 1
        OBVIOUS
    <2>2. Has(v, 0, a) /\ Has(v, 0 + 1, b)
        BY <1>1, <1>2, <1>27, <1>20, <2>1, Split DEF q2
    <2> QED BY <2>1, <2>2
<1>29. (v[2] = 1) = ud.udhi
    <2>1. 1 \in Nat /\ 1 + 1 = 2
        OBVIOUS
    <2>2. (v[1 + 1] = 1) = ud.udhi
        BY <1>2, <1>20, <1>28, <2>1
    <2> QED BY <2>1, <2>2
<1> DEFINE r == 8 + A
<1>30. /\ r \in Nat /\ r + 8 = 16 + A /\ r + 8 \in Nat /\ 8 + 16 + 8 * o = r
       /\ r + 72 = 80 + A /\ r + 72 \in Nat /\ Len(v) = (r + 72) + U /\ ~(r + 80 > Len(v))
    BY <1>10, <1>20
<1>31. ~Miscounted(from) => ParseTLAddress(v, 8) = [number |-> from, rp |-> r]
    BY <1>5, <1>20, <1>25, <1>30
<1> HIDE DEF r
<1>32. Peek(v, r + 8, 8) = ud.dcs
    BY <1>7, <1>20, <1>23, <1>30
<1>33. ParseUserData(v, r + 72, Peek(v, r + 8, 8), v[2] = 1) = ud
    <2>1. Has(v, r + 72, u)
        BY <1>21, <1>30
    <2>2. ParseUserData(v, r + 72, ud.dcs, ud.udhi)
             = [dcs |-> ud.dcs, udhi |-> ud.udhi, length |-> ud.length, data |-> ud.data]
        BY <1>9, <1>20, <1>30, <2>1
    <2>3. ParseUserData(v, r + 72, Peek(v, r + 8, 8), v[2] = 1) = ParseUserData(v, r + 72, ud.dcs, ud.udhi)
        BY <1>29, <1>32
    <2> QED BY <1>0, <2>2, <2>3
<1>34. [number |-> from, rp |-> r] # Failed
    <2>1. [number |-> from, rp |-> r] \in [number : PhoneNumbers, rp : Nat]
        BY <1>30
    <2>2. Failed \notin [number : PhoneNumbers, rp : Nat]
        BY CodecAssumption DEF CodecAssumption
    <2> QED BY <2>1, <2>2
<1>35. ASSUME ~Miscounted(from)
      PROVE  Reading(v) = [from |-> from, udhi |-> ud.udhi, dcs |-> ud.dcs, text |-> Decode(ud)]
    <2> DEFINE oa == ParseTLAddress(v, 8)
               x == ParseUserData(v, oa.rp + 72, Peek(v, oa.rp + 8, 8), v[2] = 1)
    <2>1. oa = [number |-> from, rp |-> r]
        BY <1>31, <1>35
    <2>2. oa.number = from /\ oa.rp = r /\ oa # Failed
        BY <1>34, <2>1
    <2> HIDE DEF oa
    <2>3. x = ud
        BY <1>33, <2>2
    <2> HIDE DEF x
    <2>4. Reading(v) = IF oa = Failed \/ oa.rp + 80 > Len(v) THEN Failed
                       ELSE [from |-> oa.number, udhi |-> x.udhi, dcs |-> x.dcs, text |-> Decode(x)]
        BY DEF Reading, oa, x
    <2>5. ~(oa.rp + 80 > Len(v))
        BY <1>30, <2>2
    <2> QED BY <2>2, <2>3, <2>4, <2>5
<1>36. DeliverLength(from, ud) \in 0..255 /\ Piece(v, 8 * DeliverLength(from, ud))
    <2>1. 13 + o + m \in 0..255 /\ 8 * (13 + o + m) = 80 + A + U
        BY <1>10
    <2> QED BY <1>19, <1>11a, <2>1
<1> QED BY <1>35, <1>36

--------------------------------------------------------------------------------
(* The way of a message *)

\* What is parsed of an SMS-SUBMIT.
Parsed == [to |-> sms.to, minutes |-> IF sms.vpf = 2 THEN Minutes(sms.vp) ELSE 10080, ud |-> Data]

\* The user data of the text that was decoded and encoded again.
Again == Encode7bit(Plain(sms.text))

\* What is sent to the other phone, and what that reads.
Delivery(ud, as) ==
    [frame |-> RPData(1, 9, Centre, NoNumber, DeliverTPDU(sms.from, ud)), ud |-> ud, as |-> as]
Heard(ud) == [from |-> sms.from, udhi |-> ud.udhi, dcs |-> ud.dcs, text |-> Decode(ud)]

\* At every stage there is nothing yet, or what comes of the message of the sender, unless its
\* period, or the plus of its number, is one that the code gets wrong.
CodecInv ==
    /\ sms \in Messages
    /\ uplink \in {NoFrame, RPData(0, 5, NoNumber, Centre, SubmitTPDU)}
    /\ ~Misread =>
          /\ submit \in {NoFrame, Parsed}
          /\ \/ downlink = NoFrame
             \/ downlink = Delivery(Data, "userdata")
             \/ downlink = Delivery(Again, "text")
          /\ got # NoFrame /\ ~Miscounted(sms.from) => downlink # NoFrame /\ got = Heard(downlink.ud)

\* Both user data fit into an SMS-DELIVER, and are decoded as the text, or not at all.
LEMMA DataAreCarried ==
    ASSUME sms \in Messages
    PROVE  /\ Carried(Data) /\ Data \in UserDatas
           /\ Decode(Data) \in {Failed, Plain(sms.text)}
           /\ sms.dcs = 0 => Decode(Data) = Plain(sms.text)
           /\ Data.dcs = sms.dcs /\ Data.udhi = (sms.header > 0)
<1> DEFINE T == Header(sms.header) \o sms.text
           e == Encode7bit(T)
           m == Ceil(7 * Len(T), 8)
           b == sms.header > 0
<1>1. /\ sms.dcs \in 0..255 /\ sms.header \in 0..139 /\ sms.text \in Seq(0..127)
      /\ Len(Header(sms.header)) + Len(sms.text) <= 160
    BY MessageIs
<1>2. /\ m \in 0..140 /\ Piece(e.data, 8 * m) /\ e.length = Len(T) /\ Len(T) \in 0..160
      /\ Data = [dcs |-> sms.dcs, udhi |-> b, length |-> e.length, data |-> e.data]
    BY DataAre
<1>3. b \in BOOLEAN
    OBVIOUS
<1> HIDE DEF m, e, T, b
<1>4. Data.dcs = sms.dcs /\ Data.udhi = b /\ Data.length = e.length /\ Data.data = e.data
    BY ONLY <1>2
<1>5. e.length \in 0..160 /\ e.data \in Seq({0, 1})
    BY <1>2 DEF Piece, Bit
<1>6. Data \in UserDatas
    BY <1>1, <1>2, <1>3, <1>5 DEF UserDatas
<1>7. Carried(Data)
    <2>1. Data = [dcs |-> Data.dcs, udhi |-> Data.udhi, length |-> Data.length, data |-> Data.data]
        BY ONLY <1>2, <1>4
    <2>2. Data.dcs \in 0..255 /\ Data.udhi \in BOOLEAN /\ Data.length \in 0..160
        BY ONLY <1>1, <1>3, <1>4, <1>5
    <2>3. \E x \in 0..140 : Piece(Data.data, 8 * x)
        BY ONLY <1>2, <1>4
    <2> QED BY ONLY <2>1, <2>2, <2>3, Zenon DEF Carried
<1>8. /\ Decode(Data) \in {Failed, Plain(sms.text)}
      /\ sms.dcs = 0 => Decode(Data) = Plain(sms.text)
    BY <1>1, TextIsDecoded DEF Data
<1> QED BY <1>4, <1>6, <1>7, <1>8 DEF b

\* The same of the text that is encoded again.
LEMMA AgainIsCarried ==
    ASSUME sms \in Messages
    PROVE  Carried(Again) /\ Again.dcs = 0 /\ Again.udhi = FALSE /\ Decode(Again) = Plain(sms.text)
<1> DEFINE p == Plain(sms.text)
           e == Encode7bit(p)
           m == Ceil(7 * Len(p), 8)
<1>1. sms.text \in Seq(0..127) /\ Len(sms.text) <= 160
    <2> DEFINE k == Len(Header(sms.header))
               l == Len(sms.text)
    <2>1. sms.text \in Seq(0..127) /\ sms.header \in 0..139 /\ k + l <= 160
        BY MessageIs
    <2>2. Header(sms.header) \in Seq(0..127)
        BY <2>1, HeaderIs
    <2>3. k \in Nat /\ l \in Nat
        BY <2>1, <2>2
    <2> HIDE DEF k, l
    <2>4. l <= 160
        BY <2>1, <2>3
    <2> QED BY <2>1, <2>4 DEF l
<1>2. p \in Seq(0..127) /\ Len(p) = Len(sms.text) /\ Plain(p) = p
    BY <1>1, PlainIs
<1> HIDE DEF p
<1>3. Len(p) <= 160 /\ Len(p) \in 0..160
    <2> DEFINE l == Len(sms.text)
    <2>1. l \in Nat
        BY <1>1
    <2>2. Len(p) = l /\ l <= 160
        BY <1>1, <1>2
    <2> HIDE DEF l
    <2> QED BY ONLY <2>1, <2>2
<1>4. /\ e = [dcs |-> 0, udhi |-> FALSE, length |-> Len(p), data |-> e.data]
      /\ m \in 0..140 /\ Piece(e.data, 8 * m)
    BY <1>2, <1>3, SeptetsAreRead
<1>5. Decode(e) = p
    <2>1. Header(0) = << >> /\ Len(Header(0)) = 0
        BY HeaderIs
    <2>2. Header(0) \o p = p
        BY <1>2, <2>1
    <2>3. Sent(0, p, 0) = [dcs |-> 0, udhi |-> 0 > 0, length |-> Len(p), data |-> e.data]
        BY <2>2 DEF Sent
    <2>4. (0 > 0) = FALSE
        OBVIOUS
    <2>5. Sent(0, p, 0) = e
        BY ONLY <1>4, <2>3, <2>4
    <2>6. Len(Header(0)) + Len(p) <= 160
        BY <1>3, <2>1
    <2>7. Decode(Sent(0, p, 0)) = Plain(p)
        <3>1. 0 \in 0..139 /\ 0 = 0
            OBVIOUS
        <3> QED BY ONLY <1>2, <2>6, <3>1, TextIsDecoded
    <2> QED BY <1>2, <2>5, <2>7
<1> HIDE DEF e, m
<1>6. e.dcs = 0 /\ e.udhi = FALSE /\ e.length = Len(p)
    BY ONLY <1>4
<1>7. Carried(e)
    <2>1. e = [dcs |-> e.dcs, udhi |-> e.udhi, length |-> e.length, data |-> e.data]
        BY ONLY <1>4, <1>6
    <2>2. e.dcs \in 0..255 /\ e.udhi \in BOOLEAN /\ e.length \in 0..160
        <3>1. e.dcs \in 0..255
            BY ONLY <1>6
        <3>2. e.udhi \in BOOLEAN
            BY ONLY <1>6, Zenon
        <3>3. e.length \in 0..160
            BY ONLY <1>3, <1>6
        <3> QED BY <3>1, <3>2, <3>3
    <2>3. \E x \in 0..140 : Piece(e.data, 8 * x)
        BY ONLY <1>4
    <2> QED BY ONLY <2>1, <2>2, <2>3, Zenon DEF Carried
<1> QED BY <1>5, <1>6, <1>7 DEF Again, e, p

\* The numbers of the service centre and of nobody.
LEMMA CentreIs ==
    /\ NoNumber \in PhoneNumbers /\ Size(NoNumber) <= MaxDigits
    /\ Centre \in PhoneNumbers /\ Size(Centre) <= MaxDigits
    BY DEF NoNumber, Centre, PhoneNumbers, Size, MaxDigits

\* A piece is not a failure.
LEMMA PieceHasNotFailed ==
    ASSUME NEW a, NEW n, Piece(a, n)
    PROVE  a # Failed
<1>1. a \in Seq({0, 1})
    BY DEF Piece, Bit
<1> QED BY <1>1, CodecAssumption DEF CodecAssumption

\* While the message stays the same, so does what comes of it.
LEMMA MessageStays ==
    ASSUME sms' = sms
    PROVE  /\ SubmitTPDU' = SubmitTPDU /\ Data' = Data /\ Parsed' = Parsed /\ Again' = Again
           /\ Misread' = Misread /\ Miscounted(sms.from)' = Miscounted(sms.from)
           /\ \A ud, as : Delivery(ud, as)' = Delivery(ud, as)
           /\ \A ud : Heard(ud)' = Heard(ud)
<1>1. SubmitTPDU' = SubmitTPDU
    BY DEF SubmitTPDU
<1>2. Data' = Data
    BY DEF Data
<1>3. Parsed' = Parsed
    BY <1>2 DEF Parsed
<1>4. Again' = Again
    BY DEF Again
<1>5. Misread' = Misread
    BY DEF Misread
<1>6. Miscounted(sms.from)' = Miscounted(sms.from)
    OBVIOUS
<1>7. \A ud, as : Delivery(ud, as)' = Delivery(ud, as)
    BY DEF Delivery
<1>8. \A ud : Heard(ud)' = Heard(ud)
    BY DEF Heard
<1> QED BY <1>1, <1>2, <1>3, <1>4, <1>5, <1>6, <1>7, <1>8

\* A frame that is as long as what is written to it is just that.
LEMMA WrittenIs ==
    ASSUME NEW octets \in Nat, NEW v, Piece(v, 8 * octets)
    PROVE  Written(octets, v) = v
<1> DEFINE n == 8 * octets
<1>1. n \in Nat /\ v \in Seq(Bit) /\ Len(v) = n
    BY DEF Piece
<1>2. Written(octets, v) = IF Len(v) > n THEN Failed ELSE [i \in 1..n |-> IF i <= Len(v) THEN v[i] ELSE 0]
    BY DEF Written
<1> HIDE DEF n
<1>3. v = [i \in 1..n |-> v[i]]
    BY <1>1
<1>4. ~(Len(v) > n) /\ \A i \in 1..n : i <= Len(v)
    BY <1>1
<1>5. Written(octets, v) = [i \in 1..n |-> IF i <= Len(v) THEN v[i] ELSE 0]
    BY ONLY <1>2, <1>4
<1>6. [i \in 1..n |-> IF i <= Len(v) THEN v[i] ELSE 0] = [i \in 1..n |-> v[i]]
    BY ONLY <1>4
<1> QED BY ONLY <1>3, <1>5, <1>6

\* The frames are as long as what is written to them.
LEMMA FrameIs ==
    ASSUME NEW from \in PhoneNumbers, Size(from) <= MaxDigits, NEW ud, Carried(ud)
    PROVE  /\ DeliverFrame(from, ud) = RPData(1, 9, Centre, NoNumber, DeliverTPDU(from, ud))
           /\ DeliverFrame(from, ud) # Failed
<1> DEFINE k == DeliverLength(from, ud)
           w == DeliverTPDU(from, ud)
           f == RPData(1, 9, Centre, NoNumber, w)
           n == RPDataLength(Centre, NoNumber, w)
<1>1. k \in 0..255 /\ Piece(w, 8 * k)
    BY DeliverIs
<1> HIDE DEF w, k
<1>2. Written(k, w) = w /\ w # Failed
    <2>1. k \in Nat
        BY <1>1
    <2> QED BY <1>1, <2>1, WrittenIs, PieceHasNotFailed
<1>3. Piece(f, 8 * n)
    <2>1. 1 \in 0..7 /\ 9 \in 0..255
        OBVIOUS
    <2> QED BY ONLY <1>1, <2>1, CentreIs, RPDataIs
<1>4. n \in Nat
    <2>1. RPAddressLengthV(Centre) \in Nat /\ RPAddressLengthV(NoNumber) \in Nat
        BY CentreIs, RPAddressIs
    <2>2. Octets(w) \in Nat
        <3>1. Len(w) \in Nat
            BY <1>1 DEF Piece
        <3> QED BY <3>1, OctetsAre DEF Octets
    <2> QED BY <2>1, <2>2 DEF RPDataLength
<1> HIDE DEF f, n
<1>5. Written(n, f) = f /\ f # Failed
    BY <1>3, <1>4, WrittenIs, PieceHasNotFailed
<1>6. DeliverFrame(from, ud) = f
    BY <1>2, <1>5 DEF DeliverFrame, w, k, f, n
<1> QED BY <1>5, <1>6 DEF f, w

\* At first there is nothing yet.
LEMMA CodecInitially == CodecInit => CodecInv
    BY DEF CodecInit, CodecInv

\* What parsing the RP-DATA of the phone gives.
LEMMA UplinkIsParsed ==
    ASSUME sms \in Messages, uplink = RPData(0, 5, NoNumber, Centre, SubmitTPDU), ParseUplink, ~Misread
    PROVE  submit' = Parsed
<1>1. /\ Peek(SubmitTPDU, 6, 2) = 1
      /\ ParseSubmit(SubmitTPDU) = Parsed
    BY SubmitIs DEF Parsed
<1>2. PICK k \in 0..255 : Piece(SubmitTPDU, 8 * k)
    BY SubmitIs
<1>3. TPDU(uplink) = SubmitTPDU
    <2>1. 0 \in 0..7 /\ 5 \in 0..255
        OBVIOUS
    <2>2. TPDU(RPData(0, 5, NoNumber, Centre, SubmitTPDU)) = SubmitTPDU
        BY ONLY <1>2, <2>1, CentreIs, TPDUIsCutOut
    <2> QED BY <2>2
<1>4. SubmitTPDU # Failed
    BY <1>2, PieceHasNotFailed
<1>5. submit' = LET tpdu == TPDU(uplink)
                IN  IF tpdu = Failed THEN Failed
                    ELSE IF Peek(tpdu, 6, 2) # 1 THEN Failed ELSE ParseSubmit(tpdu)
    BY DEF ParseUplink
<1> QED BY <1>1, <1>3, <1>4, <1>5

\* And what reading the RP-DATA for the other phone gives.
LEMMA DownlinkIsRead ==
    ASSUME sms \in Messages, NEW ud, Carried(ud), NEW as, downlink = Delivery(ud, as), Receive,
           ~Miscounted(sms.from)
    PROVE  got' = Heard(downlink.ud)
<1> DEFINE w == DeliverTPDU(sms.from, ud)
<1>1. sms.from \in PhoneNumbers /\ Size(sms.from) <= MaxDigits
    BY MessageIs
<1>2. PICK k \in 0..255 : Piece(w, 8 * k)
    BY <1>1, DeliverIs
<1>3. Reading(w) = [from |-> sms.from, udhi |-> ud.udhi, dcs |-> ud.dcs, text |-> Decode(ud)]
    BY <1>1, DeliverIs
<1> HIDE DEF w
<1>4. downlink.frame = RPData(1, 9, Centre, NoNumber, w) /\ downlink.ud = ud
    BY DEF Delivery, w
<1>5. TPDU(downlink.frame) = w
    <2>1. 1 \in 0..7 /\ 9 \in 0..255
        OBVIOUS
    <2>2. TPDU(RPData(1, 9, Centre, NoNumber, w)) = w
        BY ONLY <1>2, <2>1, CentreIs, TPDUIsCutOut
    <2> QED BY <1>4, <2>2
<1>6. w # Failed
    BY <1>2, PieceHasNotFailed
<1>7. downlink.frame # Failed
    BY <1>1, FrameIs DEF Delivery
<1>8. got' = IF TPDU(downlink.frame) = Failed THEN Failed ELSE Reading(TPDU(downlink.frame))
    BY <1>7 DEF Receive, Reading
<1>9. got' = Reading(w)
    BY <1>5, <1>6, <1>8
<1> QED BY <1>3, <1>4, <1>9 DEF Heard

\* The invariant is kept by every step.
LEMMA CodecInductive == CodecInv /\ [CodecNext]_codecVars => CodecInv'
<1> SUFFICES ASSUME CodecInv, [CodecNext]_codecVars PROVE CodecInv'
    OBVIOUS
<1>1. /\ sms \in Messages
      /\ uplink \in {NoFrame, RPData(0, 5, NoNumber, Centre, SubmitTPDU)}
      /\ ~Misread => submit \in {NoFrame, Parsed}
      /\ ~Misread => \/ downlink = NoFrame
                     \/ downlink = Delivery(Data, "userdata")
                     \/ downlink = Delivery(Again, "text")
      /\ ~Misread /\ got # NoFrame /\ ~Miscounted(sms.from) => downlink # NoFrame /\ got = Heard(downlink.ud)
    BY DEF CodecInv
<1>2. sms' = sms
    BY DEF CodecNext, codecVars, Submit, ParseUplink, Forward, Receive
<1>3. /\ SubmitTPDU' = SubmitTPDU /\ Data' = Data /\ Parsed' = Parsed /\ Again' = Again
      /\ Misread' = Misread /\ Miscounted(sms.from)' = Miscounted(sms.from)
      /\ \A ud, as : Delivery(ud, as)' = Delivery(ud, as)
      /\ \A ud : Heard(ud)' = Heard(ud)
    BY <1>2, MessageStays
<1>4. CASE UNCHANGED codecVars
    <2>1. uplink' = uplink /\ submit' = submit /\ downlink' = downlink /\ got' = got
        BY <1>4 DEF codecVars
    <2> QED BY <1>1, <1>2, <1>3, <2>1 DEF CodecInv
<1>5. CASE Submit
    <2>1. uplink' = RPData(0, 5, NoNumber, Centre, SubmitTPDU) /\ UNCHANGED <<submit, downlink, got>>
        BY <1>5 DEF Submit
    <2> QED BY <1>1, <1>2, <1>3, <2>1 DEF CodecInv
<1>6. CASE ParseUplink
    <2>1. uplink # NoFrame /\ UNCHANGED <<uplink, downlink, got>>
        BY <1>6 DEF ParseUplink
    <2>2. ~Misread => submit' = Parsed
        BY <1>1, <1>6, <2>1, UplinkIsParsed
    <2> QED BY <1>1, <1>2, <1>3, <2>1, <2>2 DEF CodecInv
<1>7. CASE Forward
    <2>1. submit \notin {NoFrame, Failed} /\ downlink = NoFrame /\ UNCHANGED <<uplink, submit, got>>
        BY <1>7 DEF Forward
    <2>2. ASSUME ~Misread
          PROVE  downlink' = Delivery(Data, "userdata") \/ downlink' = Delivery(Again, "text")
        <3>1. submit = Parsed /\ submit.ud = Data
            BY <1>1, <2>1, <2>2 DEF Parsed
        <3>2. \A ud : Carried(ud) =>
                 DeliverFrame(sms.from, ud) = RPData(1, 9, Centre, NoNumber, DeliverTPDU(sms.from, ud))
            BY <1>1, MessageIs, FrameIs
        <3>3. CASE downlink' = [frame |-> DeliverFrame(sms.from, submit.ud), ud |-> submit.ud, as |-> "userdata"]
            BY <1>1, <3>1, <3>3, <3>2, DataAreCarried DEF Delivery
        <3>4. CASE /\ Decode(submit.ud) # Failed
                   /\ LET ud == Encode7bit(Decode(submit.ud))
                      IN  downlink' = [frame |-> DeliverFrame(sms.from, ud), ud |-> ud, as |-> "text"]
            <4>1. Decode(Data) = Plain(sms.text)
                BY <1>1, <3>1, <3>4, DataAreCarried
            <4>2. Encode7bit(Decode(submit.ud)) = Again
                BY <3>1, <4>1 DEF Again
            <4> QED BY <1>1, <3>4, <3>2, <4>2, AgainIsCarried DEF Delivery
        <3> QED BY <1>7, <3>3, <3>4 DEF Forward
    <2>3. ~(~Misread /\ got # NoFrame /\ ~Miscounted(sms.from))
        BY <1>1, <2>1
    <2> QED BY <1>1, <1>2, <1>3, <2>1, <2>2, <2>3 DEF CodecInv
<1>8. CASE Receive
    <2>1. downlink # NoFrame /\ got = NoFrame /\ UNCHANGED <<uplink, submit, downlink>>
        BY <1>8 DEF Receive
    <2>2. ASSUME ~Misread, ~Miscounted(sms.from)
          PROVE  got' = Heard(downlink.ud)
        <3>1. Carried(Data) /\ Carried(Again)
            BY <1>1, DataAreCarried, AgainIsCarried
        <3>2. CASE downlink = Delivery(Data, "userdata")
            BY <1>1, <1>8, <2>2, <3>1, <3>2, DownlinkIsRead
        <3>3. CASE downlink = Delivery(Again, "text")
            BY <1>1, <1>8, <2>2, <3>1, <3>3, DownlinkIsRead
        <3> QED BY <1>1, <2>1, <2>2, <3>2, <3>3
    <2> QED BY <1>1, <1>2, <1>3, <2>1, <2>2 DEF CodecInv
<1> QED BY <1>4, <1>5, <1>6, <1>7, <1>8 DEF CodecNext

\* The invariant says of what was parsed, and of what arrives, what the properties say.
LEMMA CodecInvMeans == CodecInv => SubmitIsParsed /\ DeliverArrives
<1> SUFFICES ASSUME CodecInv PROVE SubmitIsParsed /\ DeliverArrives
    OBVIOUS
<1>1. /\ sms \in Messages
      /\ ~Misread => submit \in {NoFrame, Parsed}
      /\ ~Misread => \/ downlink = NoFrame
                     \/ downlink = Delivery(Data, "userdata")
                     \/ downlink = Delivery(Again, "text")
      /\ ~Misread /\ got # NoFrame /\ ~Miscounted(sms.from) => downlink # NoFrame /\ got = Heard(downlink.ud)
    BY DEF CodecInv
<1>2. /\ Carried(Data) /\ Data \in UserDatas
      /\ Decode(Data) \in {Failed, Plain(sms.text)}
      /\ sms.dcs = 0 => Decode(Data) = Plain(sms.text)
      /\ Data.dcs = sms.dcs /\ Data.udhi = (sms.header > 0)
    BY <1>1, DataAreCarried
<1>3. Carried(Again) /\ Again.dcs = 0 /\ Again.udhi = FALSE /\ Decode(Again) = Plain(sms.text)
    BY <1>1, AgainIsCarried
<1>4. sms.to \in PhoneNumbers /\ sms.from \in PhoneNumbers /\ sms.vp \in 0..255
      /\ sms.text \in Seq(0..127) /\ Plain(sms.text) \in Seq(0..127)
    BY <1>1, MessageIs, PlainIs
<1>5. SubmitIsParsed
    <2> SUFFICES ASSUME submit # NoFrame, ~Misread
                 PROVE  /\ submit # Failed
                        /\ submit.to = sms.to
                        /\ submit.minutes = (IF sms.vpf = 2 THEN Minutes(sms.vp) ELSE 10080)
                        /\ sms.dcs = 0 =>
                              Decode(submit.ud) = [i \in DOMAIN sms.text |-> Canonical(sms.text[i])]
        BY DEF SubmitIsParsed
    <2> DEFINE n == IF sms.vpf = 2 THEN Minutes(sms.vp) ELSE 10080
    <2>1. submit = [to |-> sms.to, minutes |-> n, ud |-> Data]
        BY <1>1 DEF Parsed
    <2>2. n \in Nat
        <3>1. \A x \in 0..255 : Minutes(x) \in Nat
            BY DEF Minutes
        <3>2. sms.vp \in 0..255
            BY <1>4
        <3>3. Minutes(sms.vp) \in Nat
            BY ONLY <3>1, <3>2
        <3>4. 10080 \in Nat
            OBVIOUS
        <3> QED BY ONLY <3>3, <3>4
    <2> HIDE DEF n
    <2>3. submit \in [to : PhoneNumbers, minutes : Nat, ud : UserDatas]
        BY <1>2, <1>4, <2>1, <2>2
    <2>4. submit # Failed
        BY <2>3, CodecAssumption DEF CodecAssumption
    <2>5. submit.to = sms.to /\ submit.minutes = n /\ submit.ud = Data
        BY <2>1
    <2> QED BY <1>2, <2>4, <2>5 DEF n, Plain
<1>6. DeliverArrives
    <2> SUFFICES ASSUME got # NoFrame, ~Misread, ~Miscounted(sms.from)
                 PROVE  /\ got # Failed
                        /\ got.from = sms.from
                        /\ sms.dcs = 0 => got.text = [i \in DOMAIN sms.text |-> Canonical(sms.text[i])]
                        /\ downlink.as = "userdata" => got.dcs = sms.dcs /\ got.udhi = (sms.header > 0)
        BY DEF DeliverArrives
    <2>1. got = Heard(downlink.ud) /\ downlink # NoFrame
        BY <1>1
    <2>2. PICK ud : /\ got = Heard(ud) /\ Carried(ud)
                    /\ Decode(ud) \in {Failed, Plain(sms.text)}
                    /\ sms.dcs = 0 => Decode(ud) = Plain(sms.text)
                    /\ downlink.as = "userdata" => ud.dcs = sms.dcs /\ ud.udhi = (sms.header > 0)
        <3>1. CASE downlink = Delivery(Data, "userdata")
            <4>1. downlink.ud = Data
                BY <3>1 DEF Delivery
            <4> QED BY <1>2, <2>1, <4>1
        <3>2. CASE downlink = Delivery(Again, "text")
            <4>1. downlink.ud = Again /\ downlink.as # "userdata"
                BY <3>2 DEF Delivery
            <4> QED BY <1>3, <2>1, <4>1
        <3> QED BY <1>1, <2>1, <3>1, <3>2
    <2>3. got = [from |-> sms.from, udhi |-> ud.udhi, dcs |-> ud.dcs, text |-> Decode(ud)]
        BY <2>2 DEF Heard
    <2>4. ud.dcs \in 0..255 /\ ud.udhi \in BOOLEAN
        BY <2>2, Zenon DEF Carried
    <2>5. Decode(ud) \in Seq(0..127) \cup {Failed}
        BY <1>4, <2>2
    <2>6. got \in [from : PhoneNumbers, udhi : BOOLEAN, dcs : 0..255, text : Seq(0..127) \cup {Failed}]
        BY <1>4, <2>3, <2>4, <2>5
    <2>7. got # Failed
        BY <2>6, CodecAssumption DEF CodecAssumption
    <2>8. got.from = sms.from /\ got.udhi = ud.udhi /\ got.dcs = ud.dcs /\ got.text = Decode(ud)
        BY ONLY <2>3
    <2> QED BY <2>2, <2>7, <2>8 DEF Plain
<1> QED BY <1>5, <1>6

\* What a phone sends is parsed as it was meant (decodeRPData, TLSubmit::parseBody): the number,
\* the period and the text, whatever these are, with a header or without.
THEOREM SubmitsAreRead == CodecSpec => []SubmitIsParsed
<1>1. CodecInit => CodecInv
    BY CodecInitially
<1>2. CodecInv /\ [CodecNext]_codecVars => CodecInv'
    BY CodecInductive
<1>3. CodecInv => SubmitIsParsed
    BY CodecInvMeans
<1> QED BY <1>1, <1>2, <1>3, PTL DEF CodecSpec

\* What is sent on (create_sms_delivery) is read by the other phone as it was sent, by either way
\* of making the DELIVER, whatever the number, the text, the header and the alphabet.
THEOREM DeliversAreRead == CodecSpec => []DeliverArrives
<1>1. CodecInit => CodecInv
    BY CodecInitially
<1>2. CodecInv /\ [CodecNext]_codecVars => CodecInv'
    BY CodecInductive
<1>3. CodecInv => DeliverArrives
    BY CodecInvMeans
<1> QED BY <1>1, <1>2, <1>3, PTL DEF CodecSpec

================================================================================
