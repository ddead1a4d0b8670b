-------------------------------- MODULE VectorBits --------------------------------
(***************************************************************************)
(* A vector of bits that is written bit by bit, and what the operations of *)
(* BitVector make of it: what is written is what is read.                  *)
(***************************************************************************)
EXTENDS BitVectors

CONSTANTS
    MaxBits,    \* bound: elements of the vector
    MaxField,   \* bound: bits of a field, 64 in the code (uint64_t)
    Generators, \* of parity words
    Maps        \* by which vectors are permuted

ASSUME VectorBitsAssumption ==
    /\ MaxBits \in Nat
    /\ MaxField \in 0..64
    \* A state is a uint64_t as well; the last coefficient, of x^0, is 1.
    /\ \A g \in Generators : g \in Seq({0, 1}) /\ g # << >> /\ Len(g) <= 64 /\ g[Len(g)] = 1
    /\ \A map \in Maps :
          /\ map \in Seq(Nat)
          /\ \A i \in DOMAIN map : map[i] < Len(map)
          /\ \A j \in DOMAIN map : \E i \in DOMAIN map : map[i] + 1 = j
          /\ \A i, j \in DOMAIN map : map[i] = map[j] => i = j

VARIABLE bits

BitsInit == bits = << >>

\* writeField of a bit.
AppendBit ==
    /\ Len(bits) < MaxBits
    /\ \E b \in {0, 1} : bits' = Append(bits, b)

BitsSpec == BitsInit /\ [][AppendBit]_bits

--------------------------------------------------------------------------------
(* What is read of a vector v *)

FieldsAgree(v) ==
    /\ Len(v) <= MaxField =>
          /\ Field(Peek(v, 0, Len(v)), Len(v)) = v
          /\ FieldReversed(PeekReversed(v, 0, Len(v)), Len(v)) = v
    /\ \A at \in 0..Len(v), n \in 0..MaxField :
          at + n <= Len(v) =>
              /\ Filled(v, at, Peek(v, at, n), n) = v
              /\ \A field \in [1..n -> {0, 1}] :
                    Peek(Filled(v, at, Number(field), n), at, n) = Number(field)
    /\ LSB8MSB(LSB8MSB(v)) = v
    /\ Bits(Inverted(v)) = [i \in DOMAIN v |-> 1 - v[i]]
    /\ Inverted(Inverted(v)) = v

OctetsAgree(v) ==
    /\ Unpacked8(Packed8(v), Len(v)) = v
    /\ Unhex(Hex(v), Len(v)) = IF Len(v) % 4 = 0 THEN v ELSE Unread

PuncturesAgree(v) ==
    \A P \in SUBSET {i - 1 : i \in DOMAIN v} :
        Sliced(Unpunctured(Soft(Punctured(v, P)), P, Len(v)))
            = [i \in DOMAIN v |-> IF i - 1 \in P THEN 0 ELSE v[i]]

MapsAgree(v) ==
    \A map \in Maps : Len(map) = Len(v) => Unmapped(Mapped(v, map), map) = v

\* A word with its parity has the syndrome zero, or all ones where the parity is inverted; and
\* one wrong bit shows.
ParityChecks(v, g) ==
    /\ SyndromeOf(v \o ParityWord(v, g, FALSE), g) = Zeros(Len(g))
    /\ SyndromeOf(v \o ParityWord(v, g, TRUE), g) = [i \in DOMAIN g |-> 1]
    /\ LET word == v \o ParityWord(v, g, FALSE)
       IN  \A i \in DOMAIN word : SyndromeOf([word EXCEPT ![i] = 1 - @], g) # Zeros(Len(g))

--------------------------------------------------------------------------------
(* Property *)

\* What is written to a vector of bits is what is read: fields, octets and hex digits,
\* permuted, and punctured with what was left out; and a parity word tells every wrong bit.
VectorsReadBack ==
    /\ FieldsAgree(bits)
    /\ OctetsAgree(bits)
    /\ PuncturesAgree(bits)
    /\ MapsAgree(bits)
    /\ \A g \in Generators : ParityChecks(bits, g)

================================================================================
