------------------------------- MODULE BitVectors -------------------------------
(***************************************************************************)
(* The operations of BitVector (CommonLibs/BitVector): fields, octets and  *)
(* hex digits, permutation and puncturing, parity words.  A vector is a    *)
(* sequence of its elements; they are chars, of which only the last bit    *)
(* counts in most places.  Positions count from 0, as in the code.         *)
(***************************************************************************)
EXTENDS Integers, Sequences, FiniteSets

CONSTANT Unread   \* what unhex leaves when it fails

Zeros(n) == [i \in 1..n |-> 0]
Ceil(a, b) == (a + b - 1) \div b

\* The elements as bits.
Bits(v) == [i \in DOMAIN v |-> v[i] % 2]

--------------------------------------------------------------------------------
(* Fields *)

\* What is left of a value after each of n times value >>= 1, and after n times value <<= 1.
RightShifts(value, n) ==
    LET right[k \in 0..n] == IF k = 0 THEN value ELSE right[k - 1] \div 2
    IN  right
LeftShifts(value, n) ==
    LET left[k \in 0..n] == IF k = 0 THEN value ELSE 2 * left[k - 1]
    IN  left

\* fillField, writeField: the value, highest bit first; fillFieldReversed: lowest bit first.
Field(value, n) ==
    LET right == RightShifts(value, n)
    IN  [i \in 1..n |-> right[n - i] % 2]
FieldReversed(value, n) ==
    LET right == RightShifts(value, n)
    IN  [i \in 1..n |-> right[i - 1] % 2]

\* The loop of peekField: accum <<= 1, and the next bit.
Accum(bits) ==
    LET accum[k \in 0..Len(bits)] == IF k = 0 THEN 0 ELSE 2 * accum[k - 1] + bits[k]
    IN  accum
Number(bits) == Accum(bits)[Len(bits)]

\* peekField; rp counts the bits read before.  It does not look at the end of the vector:
\* what stands there is taken for zeros, and no instance leads there.
Peek(v, rp, n) == Number([i \in 1..n |-> IF rp + i <= Len(v) THEN v[rp + i] % 2 ELSE 0])

\* peekFieldReversed
PeekReversed(v, rp, n) == Number([i \in 1..n |-> v[rp + n + 1 - i] % 2])

\* v after fillField(at, value, n).
Filled(v, at, value, n) ==
    [i \in DOMAIN v |-> IF i - at \in 1..n THEN Field(value, n)[i - at] ELSE v[i]]

\* LSB8MSB: the bits of each whole octet in reverse order.
LSB8MSB(v) ==
    [i \in DOMAIN v |-> LET o == (i - 1) \div 8
                            k == (i - 1) % 8
                        IN  IF 8 * o + 8 <= Len(v) THEN v[8 * o + 8 - k] ELSE v[i]]

\* invert: ~0 and ~1 as chars, whose last bits are 1 and 0.
Inverted(v) == [i \in DOMAIN v |-> -1 - v[i]]

--------------------------------------------------------------------------------
(* Octets and hex digits *)

\* pack, packToString: the bits that are over are the high ones of the last octet.
Packed8(v) ==
    LET rem == Len(v) % 8
    IN  [i \in 1..Ceil(Len(v), 8) |->
            IF 8 * i <= Len(v) THEN Peek(v, 8 * (i - 1), 8)
            ELSE LeftShifts(Peek(v, 8 * (i - 1), rem), 8 - rem)[8 - rem]]

\* unpack, into a vector of n elements.
Unpacked8(octets, n) ==
    LET rem == n % 8
    IN  [i \in 1..n |->
            LET o == (i - 1) \div 8
                k == (i - 1) % 8
            IN  IF 8 * o + 8 <= n THEN Field(octets[o + 1], 8)[k + 1]
                ELSE Field(RightShifts(octets[o + 1], 8 - rem)[8 - rem], rem)[k + 1]]

\* hex, hexstr: the bits that are over are left out.
Hex(v) == [i \in 1..(Len(v) \div 4) |-> Peek(v, 4 * (i - 1), 4)]

\* unhex, into a vector of n elements: the bits that are over are the low ones of one more digit.
Unhex(digits, n) ==
    IF Len(digits) < Ceil(n, 4) THEN Unread
    ELSE [i \in 1..n |->
            LET o == (i - 1) \div 4
                k == (i - 1) % 4
            IN  Field(digits[o + 1], IF 4 * o + 4 <= n THEN 4 ELSE n % 4)[k + 1]]

--------------------------------------------------------------------------------
(* Permutation and puncturing *)

\* map: dest[i] = this[map[i]]; unmap: dest[map[i]] = this[i].
Mapped(v, map) == [i \in DOMAIN map |-> v[map[i] + 1]]
Unmapped(v, map) ==
    [j \in 1..Len(map) |-> v[CHOOSE i \in DOMAIN map : map[i] + 1 = j]]

\* copyPunctured: without the elements at the positions that puncture lists, in order.
Punctured(v, puncture) ==
    LET kept[n \in 0..Len(v)] ==
            IF n = 0 THEN << >>
            ELSE IF n - 1 \in puncture THEN kept[n - 1] ELSE Append(kept[n - 1], v[n])
    IN  kept[Len(v)]

\* SoftVector(const BitVector&), in hundredths, and sliced.
Soft(v) == [i \in DOMAIN v |-> IF v[i] % 2 = 1 THEN 100 ELSE 0]
Sliced(s) == [i \in DOMAIN s |-> IF s[i] > 50 THEN 1 ELSE 0]

\* copyUnPunctured: one half where an element was left out.
Unpunctured(s, puncture, n) ==
    [i \in 1..n |-> IF i - 1 \in puncture THEN 50
                    ELSE s[i - Cardinality({p \in puncture : p < i})]]

--------------------------------------------------------------------------------
(* Parity: a shift register with the coefficients g, highest first *)

Xor(s, t) == [i \in DOMAIN s |-> (s[i] + t[i]) % 2]

\* Generator::encoderShift
EncoderShift(g, state, bit) ==
    LET shifted == Append(Tail(state), 0)
    IN  IF (state[1] + bit) % 2 = 1 THEN Xor(shifted, g) ELSE shifted

\* A faulty syndromeShift, that takes the bit into the feedback, as the encoder does.
SyndromeFeedsBack(g, state, bit) == EncoderShift(g, state, bit)
\* Generator::syndromeShift
SyndromeShift(g, state, bit) ==
    LET shifted == Append(Tail(state), bit % 2)
    IN  IF state[1] = 1 THEN Xor(shifted, g) ELSE shifted

\* BitVector::parity, and syndrome: the state after each bit of the vector.
EncoderStates(v, g) ==
    LET state[k \in 0..Len(v)] ==
            IF k = 0 THEN Zeros(Len(g)) ELSE EncoderShift(g, state[k - 1], v[k])
    IN  state
SyndromeStates(v, g) ==
    LET state[k \in 0..Len(v)] ==
            IF k = 0 THEN Zeros(Len(g)) ELSE SyndromeShift(g, state[k - 1], v[k])
    IN  state
ParityOf(v, g) == EncoderStates(v, g)[Len(v)]
SyndromeOf(v, g) == SyndromeStates(v, g)[Len(v)]

\* writeParityWord
ParityWord(v, g, invert) == IF invert THEN [i \in DOMAIN g |-> 1 - ParityOf(v, g)[i]] ELSE ParityOf(v, g)

================================================================================
