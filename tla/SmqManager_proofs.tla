--------------------------- MODULE SmqManager_proofs ---------------------------
(***************************************************************************)
(* The queue, for every value of the constants of SmqManager.  First what  *)
(* the list operations of TimeSortedList return: the positions they choose *)
(* exist, and splicing keeps exactly the expected elements, once, and in   *)
(* the order of their times.  Then type correctness; and safety: the list  *)
(* loses no message (ListComplete), no message is sent more often than the *)
(* retry limit allows (SendsWithinLimit), a bounce is never bounced        *)
(* (BouncesNeverBounce); and on the invariant of these, Safe, what depends *)
(* on the times and the counts: which messages may come to wait for others *)
(* (OrderKept), sends are apart (ResendSpaced), and every attempt that the *)
(* limit counts is a send (DroppedAfterAllSends).                          *)
(***************************************************************************)
EXTENDS SmqManager, TLAPS, SequenceTheorems, WellFoundedInduction

--------------------------------------------------------------------------------
(* The list *)

\* A non-empty set of natural numbers has a smallest element.
LEMMA LeastNatural ==
    ASSUME NEW T, T \subseteq Nat, T # {}
    PROVE  \E n \in T : \A y \in T : n <= y
<1>1. PICK x \in T : \A y \in T : <<y, x>> \notin OpToRel(<, Nat)
    BY WFMin, NatLessThanWellFounded, Zenon
<1>2. \A y \in T : y \in Nat /\ x \in Nat /\ ~ (y < x)
    BY <1>1, Zenon DEF OpToRel
<1>3. \A y \in T : x <= y
    BY <1>2
<1>. QED  BY <1>3

--------------------------------------------------------------------------------

\* The loop of SmqManager::set_state ends within the list or right behind it.
LEMMA InsertPosBounds ==
    ASSUME NEW S, NEW q \in Seq(S), NEW m, NEW t \in Int,
           \A id \in S : m[id].due \in Int
    PROVE  /\ InsertPos(q, m, t) \in 1..(Len(q) + 1)
           /\ StopsAt(q, m, t, InsertPos(q, m, t))
<1>. DEFINE T == {n \in 1..(Len(q) + 1) : n \in DOMAIN q => m[q[n]].due >= t}
<1>1. Len(q) \in Nat /\ DOMAIN q = 1..Len(q) /\ \A i \in DOMAIN q : q[i] \in S
    BY LenProperties, ElementOfSeq
<1>2. T \subseteq Nat
    OBVIOUS
<1>3. Len(q) + 1 \in T
    BY <1>1
<1>4. PICK i \in T : \A y \in T : i <= y
    <2>. HIDE DEF T
    <2>1. T # {}
        BY <1>3
    <2>. QED  BY <1>2, <2>1, LeastNatural
<1>5. StopsAt(q, m, t, i)
    <2>1. ASSUME NEW j \in 1..(i - 1) PROVE m[q[j]].due < t
        <3>1. j \in 1..(Len(q) + 1) /\ j < i
            BY <1>1, <1>4
        <3>2. j \notin T
            BY <1>2, <1>4, <3>1
        <3>3. j \in DOMAIN q /\ ~ (m[q[j]].due >= t)
            BY <3>1, <3>2
        <3>. QED  BY <1>1, <3>3
    <2>. QED  BY <1>4, <2>1 DEF StopsAt
<1>. QED  BY <1>4, <1>5 DEF InsertPos

--------------------------------------------------------------------------------

\* Splicing an element in: the elements before position i stay, the others move
\* up by one.
LEMMA InsertAtProperties ==
    ASSUME NEW S, NEW q \in Seq(S), NEW i \in 1..(Len(q) + 1), NEW e \in S
    PROVE  /\ InsertAt(q, i, e) \in Seq(S)
           /\ Len(InsertAt(q, i, e)) = Len(q) + 1
           /\ \A k \in 1..(Len(q) + 1) :
                  InsertAt(q, i, e)[k] =
                      IF k < i THEN q[k] ELSE IF k = i THEN e ELSE q[k - 1]
<1>. DEFINE a == SubSeq(q, 1, i - 1)
            b == SubSeq(q, i, Len(q))
            c == a \o <<e>>
<1>1. Len(q) \in Nat /\ \A k \in 1..Len(q) : q[k] \in S
    BY LenProperties, ElementOfSeq
<1>2. /\ a \in Seq(S)
      /\ Len(a) = i - 1
      /\ \A k \in 1..(i - 1) : a[k] = q[k]
    <2>. HIDE DEF a
    <2>1. \A k \in 1..(i - 1) : q[k] \in S
        BY <1>1
    <2>2. /\ SubSeq(q, 1, i - 1) \in Seq(S)
          /\ Len(SubSeq(q, 1, i - 1)) = IF 1 <= i - 1 THEN i - 1 - 1 + 1 ELSE 0
          /\ \A k \in 1..(i - 1 - 1 + 1) : SubSeq(q, 1, i - 1)[k] = q[1 + k - 1]
        BY <2>1, SubSeqProperties
    <2>. QED  BY <2>2 DEF a
<1>3. /\ b \in Seq(S)
      /\ Len(b) = Len(q) - i + 1
      /\ \A k \in 1..(Len(q) - i + 1) : b[k] = q[i + k - 1]
    <2>1. \A k \in i..Len(q) : q[k] \in S
        BY <1>1
    <2>2. /\ SubSeq(q, i, Len(q)) \in Seq(S)
          /\ Len(SubSeq(q, i, Len(q))) = IF i <= Len(q) THEN Len(q) - i + 1 ELSE 0
          /\ \A k \in 1..(Len(q) - i + 1) : SubSeq(q, i, Len(q))[k] = q[i + k - 1]
        BY <1>1, <2>1, SubSeqProperties
    <2>. QED  BY <1>1, <2>2
<1>4. <<e>> \in Seq(S) /\ Len(<<e>>) = 1 /\ <<e>>[1] = e
    OBVIOUS
<1>. HIDE DEF a, b
<1>5. /\ c \in Seq(S)
      /\ Len(c) = i
      /\ \A k \in 1..i : c[k] = IF k < i THEN q[k] ELSE e
    <2>1. /\ a \o <<e>> \in Seq(S)
          /\ Len(a \o <<e>>) = Len(a) + Len(<<e>>)
          /\ \A k \in 1..(Len(a) + Len(<<e>>)) :
                 (a \o <<e>>)[k] = IF k <= Len(a) THEN a[k] ELSE <<e>>[k - Len(a)]
        BY <1>2, <1>4, ConcatProperties
    <2>2. Len(a \o <<e>>) = i /\ Len(a) + Len(<<e>>) = i
        BY <1>2, <1>4, <2>1
    <2>3. ASSUME NEW k \in 1..i
          PROVE  (a \o <<e>>)[k] = IF k < i THEN q[k] ELSE e
        <3>1. (a \o <<e>>)[k] = IF k <= i - 1 THEN a[k] ELSE <<e>>[k - (i - 1)]
            BY <1>2, <2>1, <2>2
        <3>2. CASE k < i
            BY <1>2, <3>1, <3>2
        <3>3. CASE k = i
            <4>1. k - (i - 1) = 1 /\ ~ (k <= i - 1)
                BY <3>3
            <4>2. (a \o <<e>>)[k] = <<e>>[1]
                BY <3>1, <4>1, Zenon
            <4>3. ~ (k < i)
                BY <1>1, <3>3
            <4>. QED  BY <1>4, <4>2, <4>3, Zenon
        <3>4. k < i \/ k = i
            BY <1>1
        <3>. QED  BY <3>2, <3>3, <3>4, Zenon
    <2>. QED  BY <2>1, <2>2, <2>3
<1>. HIDE DEF c
<1>6. /\ c \o b \in Seq(S)
      /\ Len(c \o b) = Len(c) + Len(b)
      /\ \A k \in 1..(Len(c) + Len(b)) :
             (c \o b)[k] = IF k <= Len(c) THEN c[k] ELSE b[k - Len(c)]
    BY <1>3, <1>5, ConcatProperties
<1>7. InsertAt(q, i, e) = c \o b
    BY DEF InsertAt, a, b, c
<1>8. Len(c) + Len(b) = Len(q) + 1
    BY <1>1, <1>3, <1>5
<1>9. ASSUME NEW k \in 1..(Len(q) + 1)
      PROVE  (c \o b)[k] = IF k < i THEN q[k] ELSE IF k = i THEN e ELSE q[k - 1]
    <2>1. CASE k <= i
        BY <1>1, <1>5, <1>6, <1>8, <2>1
    <2>2. CASE k > i
        <3>1. k - i \in 1..(Len(q) - i + 1) /\ i + (k - i) - 1 = k - 1
            BY <1>1, <2>2
        <3>2. (c \o b)[k] = b[k - i]
            BY <1>1, <1>5, <1>6, <1>8, <2>2
        <3>3. b[k - i] = q[k - 1]
            BY <1>3, <3>1
        <3>. QED  BY <1>1, <2>2, <3>2, <3>3
    <2>3. k <= i \/ k > i
        BY <1>1
    <2>. QED  BY <2>1, <2>2, <2>3, Zenon
<1>. QED  BY <1>6, <1>7, <1>8, <1>9

--------------------------------------------------------------------------------

\* set_state: exactly the new element is added, and none is linked in twice.
LEMMA InsertAtElements ==
    ASSUME NEW S, NEW q \in Seq(S), NEW i \in 1..(Len(q) + 1), NEW e \in S
    PROVE  /\ ToSet(InsertAt(q, i, e)) = ToSet(q) \cup {e}
           /\ Distinct(q) /\ e \notin ToSet(q) => Distinct(InsertAt(q, i, e))
<1>. DEFINE r == InsertAt(q, i, e)
<1>1. Len(q) \in Nat /\ DOMAIN q = 1..Len(q)
    BY LenProperties
<1>2. /\ r \in Seq(S)
      /\ Len(r) = Len(q) + 1
      /\ \A k \in 1..(Len(q) + 1) :
             r[k] = IF k < i THEN q[k] ELSE IF k = i THEN e ELSE q[k - 1]
    BY InsertAtProperties
<1>. HIDE DEF r
<1>3. DOMAIN r = 1..(Len(q) + 1)
    BY <1>2, LenProperties
<1>4. ToSet(r) \subseteq ToSet(q) \cup {e}
    <2>1. ASSUME NEW k \in DOMAIN r, k # i
          PROVE  \E j \in DOMAIN q : r[k] = q[j]
        <3>1. CASE k < i
            BY <1>1, <1>2, <1>3, <3>1
        <3>2. CASE k > i
            <4>1. k - 1 \in DOMAIN q /\ ~ (k < i)
                BY <1>1, <1>3, <3>2
            <4>2. r[k] = q[k - 1]
                BY <1>2, <1>3, <2>1, <4>1, Zenon
            <4>. QED  BY <4>1, <4>2
        <3>3. k < i \/ k > i
            BY <1>1, <1>3, <2>1
        <3>. QED  BY <3>1, <3>2, <3>3
    <2>2. i \in DOMAIN r /\ r[i] = e
        BY <1>1, <1>2, <1>3
    <2>. QED  BY <2>1, <2>2 DEF ToSet
<1>5. ToSet(q) \cup {e} \subseteq ToSet(r)
    <2>1. e \in ToSet(r)
        BY <1>1, <1>2, <1>3 DEF ToSet
    <2>2. ASSUME NEW j \in DOMAIN q PROVE q[j] \in ToSet(r)
        <3>1. CASE j < i
            <4>1. j \in DOMAIN r /\ r[j] = q[j]
                BY <1>1, <1>2, <1>3, <3>1
            <4>. QED  BY <4>1 DEF ToSet
        <3>2. CASE j >= i
            <4>1. j + 1 \in DOMAIN r /\ ~ (j + 1 < i) /\ j + 1 # i /\ (j + 1) - 1 = j
                BY <1>1, <1>3, <3>2
            <4>2. r[j + 1] = q[(j + 1) - 1]
                BY <1>2, <1>3, <4>1, Zenon
            <4>. QED  BY <4>1, <4>2 DEF ToSet
        <3>3. j < i \/ j >= i
            BY <1>1
        <3>. QED  BY <3>1, <3>2, <3>3
    <2>. QED  BY <2>1, <2>2 DEF ToSet
<1>6. ASSUME Distinct(q), e \notin ToSet(q)
      PROVE  Distinct(r)
    <2>. DEFINE old(k) == IF k < i THEN k ELSE k - 1
    <2>1. \A k \in DOMAIN r : k # i => old(k) \in DOMAIN q /\ r[k] = q[old(k)]
        <3>1. ASSUME NEW k \in DOMAIN r, k # i
              PROVE  old(k) \in DOMAIN q
            BY <1>1, <1>3, <3>1
        <3>2. ASSUME NEW k \in DOMAIN r, k # i
              PROVE  r[k] = q[old(k)]
            BY <1>2, <1>3, <3>2, Zenon
        <3>. QED  BY <3>1, <3>2
    <2>2. r[i] = e
        BY <1>1, <1>2
    <2>3. \A k \in DOMAIN r : k # i => r[k] # e
        BY <1>6, <2>1 DEF ToSet
    <2>4. \A k, l \in DOMAIN r : k # i /\ l # i /\ old(k) = old(l) => k = l
        BY <1>1, <1>3
    <2>5. ASSUME NEW k \in DOMAIN r, NEW l \in DOMAIN r, r[k] = r[l]
          PROVE  k = l
        <3>1. CASE k = i \/ l = i
            BY <2>2, <2>3, <2>5, <3>1
        <3>2. CASE k # i /\ l # i
            <4>. HIDE DEF old
            <4>1. old(k) = old(l)
                BY <1>6, <2>1, <2>5, <3>2 DEF Distinct
            <4>. QED  BY <2>4, <3>2, <4>1
        <3>. QED  BY <3>1, <3>2
    <2>. QED  BY <2>5 DEF Distinct
<1>. QED  BY <1>4, <1>5, <1>6 DEF r

--------------------------------------------------------------------------------

\* Splicing an element out: the elements behind position i move down by one.
LEMMA RemoveAtProperties ==
    ASSUME NEW S, NEW q \in Seq(S), NEW i \in 1..Len(q)
    PROVE  /\ RemoveAt(q, i) \in Seq(S)
           /\ Len(RemoveAt(q, i)) = Len(q) - 1
           /\ \A k \in 1..(Len(q) - 1) :
                  RemoveAt(q, i)[k] = IF k < i THEN q[k] ELSE q[k + 1]
<1>. DEFINE a == SubSeq(q, 1, i - 1)
            b == SubSeq(q, i + 1, Len(q))
<1>1. Len(q) \in Nat /\ \A k \in 1..Len(q) : q[k] \in S
    BY LenProperties, ElementOfSeq
<1>2. /\ a \in Seq(S)
      /\ Len(a) = i - 1
      /\ \A k \in 1..(i - 1) : a[k] = q[k]
    <2>. HIDE DEF a
    <2>1. \A k \in 1..(i - 1) : q[k] \in S
        BY <1>1
    <2>2. /\ SubSeq(q, 1, i - 1) \in Seq(S)
          /\ Len(SubSeq(q, 1, i - 1)) = IF 1 <= i - 1 THEN i - 1 - 1 + 1 ELSE 0
          /\ \A k \in 1..(i - 1 - 1 + 1) : SubSeq(q, 1, i - 1)[k] = q[1 + k - 1]
        BY <2>1, SubSeqProperties
    <2>. QED  BY <1>1, <2>2 DEF a
<1>3. /\ b \in Seq(S)
      /\ Len(b) = Len(q) - i
      /\ \A k \in 1..(Len(q) - i) : b[k] = q[i + k]
    <2>1. \A k \in (i + 1)..Len(q) : q[k] \in S
        BY <1>1
    <2>2. /\ SubSeq(q, i + 1, Len(q)) \in Seq(S)
          /\ Len(SubSeq(q, i + 1, Len(q))) =
                 IF i + 1 <= Len(q) THEN Len(q) - (i + 1) + 1 ELSE 0
          /\ \A k \in 1..(Len(q) - (i + 1) + 1) :
                 SubSeq(q, i + 1, Len(q))[k] = q[i + 1 + k - 1]
        BY <1>1, <2>1, SubSeqProperties
    <2>. QED  BY <1>1, <2>2
<1>. HIDE DEF a, b
<1>4. /\ a \o b \in Seq(S)
      /\ Len(a \o b) = Len(a) + Len(b)
      /\ \A k \in 1..(Len(a) + Len(b)) :
             (a \o b)[k] = IF k <= Len(a) THEN a[k] ELSE b[k - Len(a)]
    BY <1>2, <1>3, ConcatProperties
<1>5. RemoveAt(q, i) = a \o b
    BY DEF RemoveAt, a, b
<1>6. Len(a) + Len(b) = Len(q) - 1
    BY <1>1, <1>2, <1>3
<1>7. ASSUME NEW k \in 1..(Len(q) - 1)
      PROVE  (a \o b)[k] = IF k < i THEN q[k] ELSE q[k + 1]
    <2>1. CASE k < i
        BY <1>1, <1>2, <1>4, <1>6, <2>1
    <2>2. CASE k >= i
        <3>1. k - (i - 1) \in 1..(Len(q) - i) /\ i + (k - (i - 1)) = k + 1
            BY <1>1, <2>2
        <3>2. (a \o b)[k] = b[k - (i - 1)]
            BY <1>1, <1>2, <1>4, <1>6, <2>2
        <3>3. b[k - (i - 1)] = q[k + 1]
            BY <1>3, <3>1
        <3>. QED  BY <1>1, <2>2, <3>2, <3>3
    <2>3. k < i \/ k >= i
        BY <1>1
    <2>. QED  BY <2>1, <2>2, <2>3, Zenon
<1>. QED  BY <1>4, <1>5, <1>6, <1>7

\* handle_response takes the datagram that was answered off the list: exactly that
\* element goes.
LEMMA RemoveAtElements ==
    ASSUME NEW S, NEW q \in Seq(S), NEW i \in 1..Len(q), Distinct(q)
    PROVE  /\ ToSet(RemoveAt(q, i)) = ToSet(q) \ {q[i]}
           /\ Distinct(RemoveAt(q, i))
<1>. DEFINE r == RemoveAt(q, i)
            old(k) == IF k < i THEN k ELSE k + 1
<1>1. Len(q) \in Nat /\ DOMAIN q = 1..Len(q)
    BY LenProperties
<1>2. /\ r \in Seq(S)
      /\ Len(r) = Len(q) - 1
      /\ \A k \in 1..(Len(q) - 1) : r[k] = IF k < i THEN q[k] ELSE q[k + 1]
    BY RemoveAtProperties
<1>. HIDE DEF r
<1>3. DOMAIN r = 1..(Len(q) - 1)
    BY <1>2, LenProperties
<1>4. \A k \in DOMAIN r : old(k) \in DOMAIN q /\ old(k) # i /\ r[k] = q[old(k)]
    <2>1. ASSUME NEW k \in DOMAIN r PROVE old(k) \in DOMAIN q /\ old(k) # i
        BY <1>1, <1>3
    <2>2. ASSUME NEW k \in DOMAIN r PROVE r[k] = q[old(k)]
        BY <1>2, <1>3, Zenon
    <2>. QED  BY <2>1, <2>2
<1>5. \A k, l \in DOMAIN r : old(k) = old(l) => k = l
    BY <1>1, <1>3
<1>6. \A j \in DOMAIN q : j # i => \E k \in DOMAIN r : old(k) = j
    <2>1. ASSUME NEW j \in DOMAIN q, j < i
          PROVE  j \in DOMAIN r /\ old(j) = j
        BY <1>1, <1>3, <2>1
    <2>2. ASSUME NEW j \in DOMAIN q, j > i
          PROVE  j - 1 \in DOMAIN r /\ old(j - 1) = j
        BY <1>1, <1>3, <2>2
    <2>3. \A j \in DOMAIN q : j # i => j < i \/ j > i
        BY <1>1
    <2>. HIDE DEF old
    <2>. QED  BY <2>1, <2>2, <2>3
<1>. HIDE DEF old
<1>7. ToSet(r) = ToSet(q) \ {q[i]}
    <2>1. \A k \in DOMAIN r : r[k] \in ToSet(q) /\ r[k] # q[i]
        BY <1>1, <1>4 DEF ToSet, Distinct
    <2>2. \A j \in DOMAIN q : q[j] # q[i] => q[j] \in ToSet(r)
        BY <1>4, <1>6 DEF ToSet
    <2>. QED  BY <2>1, <2>2 DEF ToSet
<1>8. Distinct(r)
    BY <1>4, <1>5 DEF Distinct
<1>. QED  BY <1>7, <1>8 DEF r

--------------------------------------------------------------------------------

\* Taking the front element off.
LEMMA TailElements ==
    ASSUME NEW S, NEW q \in Seq(S), q # << >>, Distinct(q)
    PROVE  /\ Head(q) \in S /\ Head(q) \in ToSet(q)
           /\ Tail(q) \in Seq(S)
           /\ ToSet(Tail(q)) = ToSet(q) \ {Head(q)}
           /\ Distinct(Tail(q))
<1>1. Len(q) \in Nat \ {0} /\ DOMAIN q = 1..Len(q)
    BY LenProperties, EmptySeq
<1>2. /\ Head(q) \in S
      /\ Tail(q) \in Seq(S)
      /\ Len(Tail(q)) = Len(q) - 1
      /\ \A i \in 1..Len(Tail(q)) : Tail(q)[i] = q[i + 1]
    BY HeadTailProperties
<1>3. DOMAIN Tail(q) = 1..(Len(q) - 1)
    BY <1>2, LenProperties
<1>4. Head(q) = q[1] /\ 1 \in DOMAIN q
    BY <1>1
<1>5. \A i \in DOMAIN Tail(q) :
          i + 1 \in DOMAIN q /\ i + 1 # 1 /\ Tail(q)[i] = q[i + 1]
    BY <1>1, <1>2, <1>3
<1>6. \A j \in DOMAIN q : j # 1 => j - 1 \in DOMAIN Tail(q) /\ Tail(q)[j - 1] = q[j]
    <2>. SUFFICES ASSUME NEW j \in DOMAIN q, j # 1
                  PROVE  j - 1 \in DOMAIN Tail(q) /\ Tail(q)[j - 1] = q[j]
        OBVIOUS
    <2>1. j - 1 \in DOMAIN Tail(q) /\ (j - 1) + 1 = j
        BY <1>1, <1>3
    <2>. QED  BY <1>5, <2>1
<1>7. ToSet(Tail(q)) = ToSet(q) \ {Head(q)}
    <2>1. \A i \in DOMAIN Tail(q) : Tail(q)[i] \in ToSet(q) /\ Tail(q)[i] # q[1]
        BY <1>4, <1>5 DEF ToSet, Distinct
    <2>2. \A j \in DOMAIN q : q[j] # q[1] => q[j] \in ToSet(Tail(q))
        BY <1>6 DEF ToSet
    <2>. QED  BY <1>4, <2>1, <2>2 DEF ToSet
<1>8. Distinct(Tail(q))
    <2>1. \A i, j \in DOMAIN Tail(q) : i + 1 = j + 1 => i = j
        BY <1>1, <1>3
    <2>. QED  BY <1>5, <2>1 DEF Distinct
<1>. QED  BY <1>2, <1>4, <1>7, <1>8 DEF ToSet

\* insert_new_message: an element is put in front.
LEMMA ConsElements ==
    ASSUME NEW S, NEW q \in Seq(S), NEW e \in S
    PROVE  /\ <<e>> \o q \in Seq(S)
           /\ ToSet(<<e>> \o q) = ToSet(q) \cup {e}
           /\ Distinct(q) /\ e \notin ToSet(q) => Distinct(<<e>> \o q)
<1>1. Len(q) \in Nat
    BY LenProperties
<1>2. InsertAt(q, 1, e) = <<e>> \o q
    <2>1. SubSeq(q, 1, 0) = << >>
        BY SubSeqEmpty
    <2>2. SubSeq(q, 1, Len(q)) = q
        BY SubSeqFull
    <2>3. << >> \o <<e>> = <<e>>
        BY ConcatEmptySeq
    <2>4. InsertAt(q, 1, e) = SubSeq(q, 1, 1 - 1) \o <<e>> \o SubSeq(q, 1, Len(q))
        BY DEF InsertAt
    <2>5. 1 - 1 = 0
        OBVIOUS
    <2>. QED  BY <2>1, <2>2, <2>3, <2>4, <2>5, Zenon
<1>3. 1 \in 1..(Len(q) + 1)
    BY <1>1
<1>4. /\ InsertAt(q, 1, e) \in Seq(S)
      /\ ToSet(InsertAt(q, 1, e)) = ToSet(q) \cup {e}
      /\ Distinct(q) /\ e \notin ToSet(q) => Distinct(InsertAt(q, 1, e))
    BY <1>3, InsertAtProperties, InsertAtElements
<1>. QED  BY <1>2, <1>4, Zenon

\* set_state puts a message that is off the list back, by its time.
LEMMA InsertByTimeElements ==
    ASSUME NEW S, NEW q \in Seq(S), NEW m, NEW id \in S,
           \A x \in S : m[x].due \in Int
    PROVE  /\ InsertByTime(q, m, id) \in Seq(S)
           /\ ToSet(InsertByTime(q, m, id)) = ToSet(q) \cup {id}
           /\ Distinct(q) /\ id \notin ToSet(q) => Distinct(InsertByTime(q, m, id))
<1>1. InsertPos(q, m, m[id].due) \in 1..(Len(q) + 1)
    BY InsertPosBounds
<1>. DEFINE i == InsertPos(q, m, m[id].due)
<1>2. /\ InsertAt(q, i, id) \in Seq(S)
      /\ ToSet(InsertAt(q, i, id)) = ToSet(q) \cup {id}
      /\ Distinct(q) /\ id \notin ToSet(q) => Distinct(InsertAt(q, i, id))
    <2>. HIDE DEF i
    <2>1. i \in 1..(Len(q) + 1)
        BY <1>1 DEF i
    <2>. QED  BY <2>1, InsertAtProperties, InsertAtElements
<1>. QED  BY <1>2 DEF InsertByTime

\* find_queued_msg_by_tag returns an element of the list that carries the tag.
LEMMA FirstTaggedIsTagged ==
    ASSUME NEW S, NEW q \in Seq(S), NEW m, NEW tag, Tagged(q, m, tag) # {}
    PROVE  /\ FirstTagged(q, m, tag) \in 1..Len(q)
           /\ m[q[FirstTagged(q, m, tag)]].qtag = tag
           /\ q[FirstTagged(q, m, tag)] \in S
           /\ q[FirstTagged(q, m, tag)] \in ToSet(q)
<1>. DEFINE T == Tagged(q, m, tag)
<1>1. DOMAIN q = 1..Len(q) /\ Len(q) \in Nat
    BY LenProperties
<1>2. T \subseteq Nat
    BY <1>1 DEF Tagged
<1>3. \E i \in T : \A j \in T : i <= j
    <2>. HIDE DEF T
    <2>1. T # {}
        BY DEF T
    <2>. QED  BY <1>2, <2>1, LeastNatural
<1>4. FirstTagged(q, m, tag) \in T
    BY <1>3 DEF FirstTagged
<1>5. FirstTagged(q, m, tag) \in DOMAIN q
    BY <1>4 DEF Tagged
<1>. QED  BY <1>1, <1>4, <1>5, ElementOfSeq DEF Tagged, ToSet

\* Blocks and HeldUp, of any list of messages.
Ahead(q, m, a, b) ==
    \E i, j \in DOMAIN q :
        i < j /\ q[i] = a /\ q[j] = b /\ m[a].due > 0 /\ m[a].due > m[b].due
Held(q, m, b) ==
    \E i, j \in DOMAIN q : i < j /\ q[j] = b /\ m[q[i]].due > 0 /\ m[q[i]].due > m[b].due

\* Who is held up depends on the times of the messages in the list; where those of C change,
\* it is one of C, or waits for one of C, or was held up before.
LEMMA HeldChanged ==
    ASSUME NEW q, NEW m, NEW n, NEW C, \A x \in ToSet(q) \ C : n[x].due = m[x].due,
           NEW b, Held(q, n, b)
    PROVE  b \in C \/ (\E a \in C : Ahead(q, n, a, b)) \/ Held(q, m, b)
<1>1. PICK i \in DOMAIN q, j \in DOMAIN q :
          i < j /\ q[j] = b /\ n[q[i]].due > 0 /\ n[q[i]].due > n[b].due
    BY DEF Held
<1>2. q[i] \in ToSet(q) /\ b \in ToSet(q)
    BY <1>1 DEF ToSet
<1>3. CASE q[i] \in C
    BY <1>1, <1>3 DEF Ahead
<1>4. CASE q[i] \notin C /\ b \notin C
    BY <1>1, <1>2, <1>4 DEF Held
<1>. QED  BY <1>3, <1>4

LEMMA HeldSame ==
    ASSUME NEW q, NEW m, NEW n, \A x \in ToSet(q) : n[x].due = m[x].due,
           NEW b, Held(q, n, b)
    PROVE  Held(q, m, b)
<1>1. PICK i \in DOMAIN q, j \in DOMAIN q :
          i < j /\ q[j] = b /\ n[q[i]].due > 0 /\ n[q[i]].due > n[b].due
    BY DEF Held
<1>2. q[i] \in ToSet(q) /\ b \in ToSet(q)
    BY <1>1 DEF ToSet
<1>. QED  BY <1>1, <1>2 DEF Held

LEMMA HeldTail ==
    ASSUME NEW S, NEW q \in Seq(S), q # << >>, NEW m, NEW b, Held(Tail(q), m, b)
    PROVE  Held(q, m, b)
<1>. DEFINE r == Tail(q)
<1>1. /\ Len(q) \in Nat /\ DOMAIN q = 1..Len(q)
      /\ DOMAIN r = 1..(Len(q) - 1)
      /\ \A i \in 1..(Len(q) - 1) : r[i] = q[i + 1]
    <2>1. Len(q) \in Nat \ {0} /\ DOMAIN q = 1..Len(q)
        BY LenProperties, EmptySeq
    <2>2. Tail(q) \in Seq(S) /\ Len(Tail(q)) = Len(q) - 1
        BY HeadTailProperties
    <2>3. \A i \in 1..(Len(q) - 1) : Tail(q)[i] = q[i + 1]
        BY HeadTailProperties
    <2>. QED  BY <2>1, <2>2, <2>3, LenProperties
<1>2. Held(r, m, b)
    OBVIOUS
<1>. HIDE DEF r
<1>3. PICK i \in DOMAIN r, j \in DOMAIN r :
          i < j /\ r[j] = b /\ m[r[i]].due > 0 /\ m[r[i]].due > m[b].due
    BY <1>2 DEF Held
<1>4. i + 1 \in DOMAIN q /\ j + 1 \in DOMAIN q /\ i + 1 < j + 1
    BY <1>1, <1>3
<1>5. r[i] = q[i + 1] /\ r[j] = q[j + 1]
    BY <1>1
<1>. QED  BY <1>3, <1>4, <1>5 DEF Held

LEMMA HeldRemove ==
    ASSUME NEW S, NEW q \in Seq(S), NEW p \in 1..Len(q), NEW m, NEW b,
           Held(RemoveAt(q, p), m, b)
    PROVE  Held(q, m, b)
<1>. DEFINE r == RemoveAt(q, p)
            old(k) == IF k < p THEN k ELSE k + 1
<1>1. Len(q) \in Nat /\ DOMAIN q = 1..Len(q)
    BY LenProperties
<1>2. /\ r \in Seq(S)
      /\ Len(r) = Len(q) - 1
      /\ \A k \in 1..(Len(q) - 1) : r[k] = IF k < p THEN q[k] ELSE q[k + 1]
    BY RemoveAtProperties
<1>3. Held(r, m, b)
    OBVIOUS
<1>. HIDE DEF r
<1>4. DOMAIN r = 1..(Len(q) - 1)
    BY <1>2, LenProperties
<1>5. PICK i \in DOMAIN r, j \in DOMAIN r :
          i < j /\ r[j] = b /\ m[r[i]].due > 0 /\ m[r[i]].due > m[b].due
    BY <1>3 DEF Held
<1>6. old(i) \in DOMAIN q /\ old(j) \in DOMAIN q /\ old(i) < old(j)
    BY <1>1, <1>4, <1>5
<1>7. r[i] = q[old(i)] /\ r[j] = q[old(j)]
    BY <1>2, <1>4, Zenon
<1>. HIDE DEF old
<1>. QED  BY <1>5, <1>6, <1>7 DEF Held

\* What is acted on at once may go ahead of everything.
LEMMA HeldCons ==
    ASSUME NEW S, NEW q \in Seq(S), NEW e \in S, NEW m, m[e].due = 0,
           NEW b, Held(<<e>> \o q, m, b)
    PROVE  Held(q, m, b)
<1>1. Len(q) \in Nat /\ DOMAIN q = 1..Len(q)
    BY LenProperties
<1>2. /\ DOMAIN (<<e>> \o q) = 1..(Len(q) + 1)
      /\ (<<e>> \o q)[1] = e
      /\ \A i \in 2..(Len(q) + 1) : (<<e>> \o q)[i] = q[i - 1]
    <2>1. <<e>> \in Seq(S) /\ Len(<<e>>) = 1 /\ <<e>>[1] = e
        OBVIOUS
    <2>2. <<e>> \o q \in Seq(S) /\ Len(<<e>> \o q) = Len(q) + 1
        BY <1>1, <2>1, ConcatProperties
    <2>3. \A i \in 1..(Len(q) + 1) :
              (<<e>> \o q)[i] = IF i <= 1 THEN <<e>>[i] ELSE q[i - 1]
        BY <1>1, <2>1, ConcatProperties
    <2>4. 1 \in 1..(Len(q) + 1)
        BY <1>1
    <2>5. (<<e>> \o q)[1] = e
        BY <2>1, <2>3, <2>4
    <2>6. \A i \in 2..(Len(q) + 1) : i \in 1..(Len(q) + 1) /\ ~ (i <= 1)
        BY <1>1
    <2>. QED  BY <2>2, <2>3, <2>5, <2>6, LenProperties
<1>3. PICK i \in DOMAIN (<<e>> \o q), j \in DOMAIN (<<e>> \o q) :
          /\ i < j /\ (<<e>> \o q)[j] = b
          /\ m[(<<e>> \o q)[i]].due > 0 /\ m[(<<e>> \o q)[i]].due > m[b].due
    BY DEF Held
<1>4. i # 1
    BY <1>2, <1>3
<1>5. /\ i \in 2..(Len(q) + 1) /\ j \in 2..(Len(q) + 1)
      /\ i - 1 \in DOMAIN q /\ j - 1 \in DOMAIN q /\ i - 1 < j - 1
    BY <1>1, <1>2, <1>3, <1>4
<1>6. (<<e>> \o q)[i] = q[i - 1] /\ (<<e>> \o q)[j] = q[j - 1]
    BY <1>2, <1>5
<1>. QED  BY <1>3, <1>5, <1>6 DEF Held

\* r is q with the element e at place p.
Inserted(r, q, p, e) ==
    /\ DOMAIN r = 1..(Len(q) + 1)
    /\ \A k \in 1..(Len(q) + 1) :
           r[k] = IF k < p THEN q[k] ELSE IF k = p THEN e ELSE q[k - 1]

LEMMA InsertAtInserted ==
    ASSUME NEW S, NEW q \in Seq(S), NEW i \in 1..(Len(q) + 1), NEW e \in S
    PROVE  Inserted(InsertAt(q, i, e), q, i, e)
<1>. DEFINE r == InsertAt(q, i, e)
<1>1. /\ r \in Seq(S)
      /\ Len(r) = Len(q) + 1
      /\ \A k \in 1..(Len(q) + 1) :
             r[k] = IF k < i THEN q[k] ELSE IF k = i THEN e ELSE q[k - 1]
    BY InsertAtProperties
<1>. HIDE DEF r
<1>2. DOMAIN r = 1..(Len(q) + 1)
    BY <1>1, LenProperties
<1>3. Inserted(r, q, i, e)
    BY <1>1, <1>2 DEF Inserted
<1>. QED  BY <1>3 DEF r

\* set_state puts a message where it waits for none, and none for it alone.
LEMMA HeldInsert ==
    ASSUME NEW S, NEW q \in Seq(S), NEW m, NEW id \in S, \A x \in S : m[x].due \in Int,
           NEW b, Held(InsertByTime(q, m, id), m, b)
    PROVE  Held(q, m, b)
<1>. DEFINE t == m[id].due
<1>1. Len(q) \in Nat /\ DOMAIN q = 1..Len(q) /\ \A i \in DOMAIN q : m[q[i]].due \in Int
    BY LenProperties, ElementOfSeq
<1>2. t \in Int
    OBVIOUS
<1>3. PICK p \in 1..(Len(q) + 1) :
          /\ p = InsertPos(q, m, t)
          /\ p \in DOMAIN q => m[q[p]].due >= t
          /\ \A k \in 1..(p - 1) : m[q[k]].due < t
    BY <1>2, InsertPosBounds DEF StopsAt
<1>. DEFINE r == InsertAt(q, p, id)
<1>4. /\ DOMAIN r = 1..(Len(q) + 1)
      /\ \A k \in 1..(Len(q) + 1) :
             r[k] = IF k < p THEN q[k] ELSE IF k = p THEN id ELSE q[k - 1]
    <2>1. Inserted(r, q, p, id)
        BY InsertAtInserted
    <2>. QED  BY <2>1 DEF Inserted
<1>5. Held(r, m, b)
    BY <1>3 DEF InsertByTime
<1>. HIDE DEF r
<1>6. PICK i \in 1..(Len(q) + 1), j \in 1..(Len(q) + 1) :
          i < j /\ r[j] = b /\ m[r[i]].due > 0 /\ m[r[i]].due > m[b].due
    BY <1>4, <1>5 DEF Held
<1>7. CASE j < p
    <2>1. i \in DOMAIN q /\ j \in DOMAIN q /\ r[i] = q[i] /\ r[j] = q[j]
        BY <1>1, <1>3, <1>4, <1>6, <1>7
    <2>. QED  BY <1>6, <2>1 DEF Held
<1>8. CASE j = p
    <2>1. i \in 1..(p - 1) /\ i \in DOMAIN q /\ r[i] = q[i] /\ b = id
        BY <1>1, <1>3, <1>4, <1>6, <1>8
    <2>2. m[q[i]].due \in Int /\ m[q[i]].due < t /\ m[q[i]].due > t
        BY <1>1, <1>3, <1>6, <2>1
    <2>. QED  BY <1>2, <2>2
<1>9. CASE j > p
    <2>1. j - 1 \in DOMAIN q /\ r[j] = q[j - 1] /\ b = q[j - 1] /\ m[b].due \in Int
        BY <1>1, <1>3, <1>4, <1>6, <1>9
    <2>2. CASE i < p
        <3>1. i \in DOMAIN q /\ r[i] = q[i] /\ i < j - 1
            BY <1>1, <1>3, <1>4, <1>6, <1>9, <2>2
        <3>. QED  BY <1>6, <2>1, <3>1 DEF Held
    <2>3. CASE i = p
        <3>1. r[i] = id /\ p \in DOMAIN q /\ t > 0 /\ t > m[b].due /\ m[q[p]].due >= t
            BY <1>1, <1>3, <1>4, <1>6, <1>9, <2>3
        <3>2. m[q[p]].due \in Int
            BY <1>1, <3>1
        <3>3. m[q[p]].due > 0 /\ m[q[p]].due > m[b].due
            <4>. DEFINE u == m[q[p]].due
                        v == m[b].due
            <4>1. u \in Int /\ v \in Int /\ t > 0 /\ t > v /\ u >= t
                BY <2>1, <3>1, <3>2
            <4>. HIDE DEF t, u, v
            <4>2. u > 0 /\ u > v
                BY <1>2, <4>1
            <4>. QED  BY <4>2 DEF u, v
        <3>4. p < j - 1
            <4>1. p # j - 1
                BY <2>1, <3>2, <3>3
            <4>. QED  BY <1>1, <1>9, <4>1
        <3>. QED  BY <2>1, <3>1, <3>3, <3>4 DEF Held
    <2>4. CASE i > p
        <3>1. i - 1 \in DOMAIN q /\ r[i] = q[i - 1] /\ i - 1 < j - 1
            BY <1>1, <1>3, <1>4, <1>6, <2>4
        <3>. QED  BY <1>6, <2>1, <3>1 DEF Held
    <2>. QED  BY <1>3, <2>2, <2>3, <2>4
<1>. QED  BY <1>3, <1>7, <1>8, <1>9

--------------------------------------------------------------------------------
(* Messages *)

\* Every entry of the timeout tables is one of the delays.
LEMMA TimeoutInDelays == \A old, new : Timeout(old, new) \in Delays
BY DEF Timeout, Delays, NT, RT

LEMMA TicksInNat == \A d \in Delays : Ticks[d] \in Nat
BY TicksAssumption

LEMMA RateLimitInNat == msSMSRateLimit \in Nat /\ max_retries \in Nat
<1>1. Ticks[1000] \in Nat
    BY TicksInNat DEF Delays
<1>. QED  BY <1>1, ManagerAssumption DEF msSMSRateLimit, max_retries

LEMMA SetStateIsMessage ==
    ASSUME NEW m \in Message, NEW s \in sm_state
    PROVE  SetState(m, s) \in Message
<1>1. Ticks[Timeout(m.state, s)] \in Int
    BY TimeoutInDelays, TicksInNat
<1>. QED  BY <1>1 DEF SetState, Message

LEMMA IncreaseTimeoutIsMessage ==
    ASSUME NEW m \in Message
    PROVE  IncreaseTimeout(m) \in Message
<1>1. Ticks[60000] \in Int
    BY TicksInNat DEF Delays
<1>. QED  BY <1>1 DEF IncreaseTimeout, Message

LEMMA NewIsMessage ==
    ASSUME NEW kind \in {"MESSAGE", "OTHER", "REGISTER", "RESPONSE"}, NEW tag \in Tags,
           NEW from \in {"user", "Bounce.Code"}, NEW linktag \in Tags,
           NEW status \in AllStatuses \cup {"none"}
    PROVE  New(kind, tag, from, linktag, status) \in Message
BY DEF New, Message, sm_state

--------------------------------------------------------------------------------
(* Type correctness *)

NonEmpty == time_sorted_list # << >>

LEMMA FrontType ==
    ASSUME TypeOK, NonEmpty
    PROVE  /\ qmsg \in Ids /\ msg[qmsg] \in Message
           /\ Rest \in Seq(Ids)
           /\ \A id \in Ids : msg[id] \in Message /\ msg[id].due \in Int
<1>1. qmsg \in Ids /\ Rest \in Seq(Ids)
    BY HeadTailProperties DEF TypeOK, NonEmpty, qmsg, Rest
<1>2. \A id \in Ids : msg[id] \in Message
    BY DEF TypeOK
<1>. QED  BY <1>1, <1>2 DEF Message

LEMMA RequeueType ==
    ASSUME TypeOK, NonEmpty, NEW m \in Message, Requeue(m)
    PROVE  time_sorted_list' \in Seq(Ids) /\ msg' \in [Ids -> Message]
<1>. DEFINE after == [msg EXCEPT ![qmsg] = m]
<1>1. after \in [Ids -> Message]
    BY FrontType DEF TypeOK
<1>2. \A x \in Ids : after[x].due \in Int
    BY <1>1 DEF Message
<1>3. msg' = after /\ time_sorted_list' = InsertByTime(Rest, after, qmsg)
    BY DEF Requeue
<1>. HIDE DEF after
<1>. QED  BY <1>1, <1>2, <1>3, FrontType, InsertByTimeElements

LEMMA MoveToType ==
    ASSUME TypeOK, NonEmpty, NEW s \in sm_state, MoveTo(s)
    PROVE  TypeOK'
<1>1. SetState(msg[qmsg], s) \in Message
    BY FrontType, SetStateIsMessage
<1>2. time_sorted_list' \in Seq(Ids) /\ msg' \in [Ids -> Message]
    BY <1>1, RequeueType DEF MoveTo
<1>. QED  BY <1>2 DEF MoveTo, TypeOK

LEMMA OriginateType ==
    ASSUME TypeOK, NonEmpty, NEW m \in Message, NEW first \in sm_state,
           NEW moved \in Message, OriginateAndRequeue(m, first, moved)
    PROVE  /\ time_sorted_list' \in Seq(Ids) /\ msg' \in [Ids -> Message]
           /\ created' \in 0..MaxMsgs
           /\ UNCHANGED <<sent, elapsed, mode, sends, waited, acked>>
<1>. DEFINE id == created + 1
            after == [msg EXCEPT ![id] = SetState(m, first), ![qmsg] = moved]
<1>1. id \in Ids /\ id \in 0..MaxMsgs
    BY ManagerAssumption DEF OriginateAndRequeue, TypeOK, Ids
<1>2. after \in [Ids -> Message]
    BY FrontType, SetStateIsMessage DEF TypeOK
<1>3. \A x \in Ids : after[x].due \in Int
    BY <1>2 DEF Message
<1>4. /\ created' = id /\ msg' = after
      /\ time_sorted_list' = InsertByTime(<<id>> \o Rest, after, qmsg)
      /\ UNCHANGED <<sent, elapsed, mode, sends, waited, acked>>
    BY DEF OriginateAndRequeue
<1>. HIDE DEF id, after
<1>5. <<id>> \o Rest \in Seq(Ids)
    BY <1>1, FrontType, ConsElements
<1>. QED  BY <1>1, <1>2, <1>3, <1>4, <1>5, FrontType, InsertByTimeElements

LEMMA NewTagsAreTags ==
    ASSUME TypeOK, created < MaxMsgs, NEW tag \in NewTags
    PROVE  tag \in Tags /\ tag # NoTag
BY ManagerAssumption DEF TypeOK, NewTags, Tags, Ids, NoTag

LEMMA DeleteType ==
    ASSUME TypeOK, NEW gone, Delete(gone)
    PROVE  /\ msg' \in [Ids -> Message] /\ sends' \in [Ids -> Nat]
           /\ waited' \in [Ids -> Nat] /\ depth' \in [Ids -> Nat]
<1>1. Nobody \in Message
    BY NewIsMessage DEF Nobody, Tags, AllStatuses
<1>2. ResendGap \in Nat
    BY TicksInNat DEF ResendGap, Delays
<1>. QED  BY <1>1, <1>2 DEF Delete, Cleared, TypeOK

LEMMA ArriveType ==
    ASSUME TypeOK, NEW m \in Message, Arrive(m), depth' \in [Ids -> Nat]
    PROVE  TypeOK'
<1>1. created + 1 \in Ids /\ created + 1 \in 0..MaxMsgs
    BY ManagerAssumption DEF Arrive, TypeOK, Ids
<1>2. SetState(m, "INITIAL_STATE") \in Message
    BY SetStateIsMessage DEF sm_state
<1>3. <<created + 1>> \o time_sorted_list \in Seq(Ids)
    BY <1>1, ConsElements DEF TypeOK
<1>. QED  BY <1>1, <1>2, <1>3 DEF Arrive, TypeOK

LEMMA RegisterHandsetType ==
    ASSUME TypeOK, NonEmpty, NEW m \in Message, RegisterHandset(m)
    PROVE  TypeOK'
<1>1. SetState(m, "DELETE_ME_STATE") \in Message
      /\ SetState(m, "ASKED_TO_REGISTER_HANDSET") \in Message
    BY SetStateIsMessage DEF sm_state
<1>2. ASSUME NEW tag \in NewTags,
             OriginateAndRequeue(New("REGISTER", tag, "user", m.qtag, "none"),
                                 "REQUEST_MSG_DELIVERY",
                                 SetState(m, "ASKED_TO_REGISTER_HANDSET"))
      PROVE  TypeOK'
    <2>1. tag \in Tags /\ m.qtag \in Tags
        BY <1>2, NewTagsAreTags DEF OriginateAndRequeue, Message
    <2>2. New("REGISTER", tag, "user", m.qtag, "none") \in Message
        BY <2>1, NewIsMessage
    <2>3. /\ time_sorted_list' \in Seq(Ids) /\ msg' \in [Ids -> Message]
          /\ created' \in 0..MaxMsgs
          /\ UNCHANGED <<sent, elapsed, mode, sends, waited, acked>>
        BY <1>1, <1>2, <2>2, OriginateType DEF sm_state
    <2>. QED  BY <2>3 DEF RegisterHandset, TypeOK
<1>3. ASSUME Requeue(SetState(m, "DELETE_ME_STATE")),
             UNCHANGED <<created, sent, elapsed, mode, sends, waited, acked>>
      PROVE  TypeOK'
    <2>1. time_sorted_list' \in Seq(Ids) /\ msg' \in [Ids -> Message]
        BY <1>1, <1>3, RequeueType
    <2>. QED  BY <1>3, <2>1 DEF RegisterHandset, TypeOK
<1>. QED  BY <1>2, <1>3 DEF RegisterHandset

\* The message that a response answers, and the one a REGISTER is linked to.
LEMMA SentType ==
    ASSUME TypeOK, NonEmpty, Matches # {}
    PROVE  /\ SentPos \in 1..Len(Rest)
           /\ SentId \in Ids /\ SentId \in ToSet(Rest) /\ msg[SentId] \in Message
           /\ msg[SentId].qtag = msg[qmsg].qtag
<1>1. /\ SentPos \in 1..Len(Rest)
      /\ msg[Rest[SentPos]].qtag = msg[qmsg].qtag
      /\ Rest[SentPos] \in Ids
      /\ Rest[SentPos] \in ToSet(Rest)
    BY FrontType, FirstTaggedIsTagged DEF Matches, SentPos
<1>. QED  BY <1>1, FrontType DEF SentId

LEMMA LinkedType ==
    ASSUME TypeOK, NonEmpty, Reruns
    PROVE  LinkedId \in Ids /\ LinkedId \in ToSet(Rest)
BY FrontType, FirstTaggedIsTagged DEF Reruns, Linked, LinkedId

LEMMA AnsweredType ==
    ASSUME TypeOK, NonEmpty, Matches # {}, NEW m \in Message, Answered(m),
           waited' \in [Ids -> Nat]
    PROVE  TypeOK'
<1>1. Nobody \in Message
    BY NewIsMessage DEF Nobody, Tags, AllStatuses
<1>. QED  BY <1>1, FrontType, SentType DEF Answered, TypeOK

LEMMA ResponseDeliveredType ==
    ASSUME TypeOK, ResponseDelivered
    PROVE  TypeOK'
<1>1. NonEmpty /\ Matches # {}
    BY DEF ResponseDelivered, Response, Due, NonEmpty
<1>2. RemoveAt(Rest, SentPos) \in Seq(Ids)
    BY <1>1, FrontType, SentType, RemoveAtProperties
<1>3. Nobody \in Message /\ ResendGap \in Nat
    <2>1. Nobody \in Message
        BY NewIsMessage DEF Nobody, Tags, AllStatuses
    <2>2. ResendGap \in Nat
        BY TicksInNat DEF ResendGap, Delays
    <2>. QED  BY <2>1, <2>2
<1>4. \A id \in Ids : SetState(msg[id], "INITIAL_STATE") \in Message
    BY SetStateIsMessage DEF TypeOK, sm_state
<1>5. msg[qmsg].qtag \in Tags
    BY <1>1, FrontType DEF Message
<1>6. /\ time_sorted_list' \in Seq(Ids) /\ acked' \subseteq Tags
      /\ sends' \in [Ids -> Nat] /\ waited' \in [Ids -> Nat] /\ depth' \in [Ids -> Nat]
      /\ UNCHANGED <<created, sent, elapsed, mode>>
    BY <1>2, <1>3, <1>5 DEF ResponseDelivered, Cleared, TypeOK
<1>7. msg' \in [Ids -> Message]
    BY <1>3, <1>4 DEF ResponseDelivered, TypeOK
<1>. QED  BY <1>6, <1>7 DEF TypeOK

LEMMA ResponseBouncesType ==
    ASSUME TypeOK, ResponseBounces
    PROVE  TypeOK'
<1>1. NonEmpty /\ Matches # {}
    BY DEF ResponseBounces, Response, Due, NonEmpty
<1>2. ASSUME Answered(SetState(msg[SentId], "NO_STATE")), UNCHANGED waited PROVE TypeOK'
    <2>1. SetState(msg[SentId], "NO_STATE") \in Message
        BY <1>1, SentType, SetStateIsMessage DEF sm_state
    <2>2. waited' \in [Ids -> Nat]
        BY <1>2 DEF TypeOK
    <2>. QED  BY <1>1, <1>2, <2>1, <2>2, AnsweredType
<1>3. ASSUME NEW tag \in NewTags, NEW first \in BounceStates,
             created < MaxMsgs,
             created' = created + 1,
             time_sorted_list' = <<created + 1>> \o Rest,
             msg' = [msg EXCEPT ![qmsg] = Nobody,
                                ![created + 1] = SetState(Bounce(tag), first),
                                ![SentId] = SetState(msg[SentId], "DELETE_ME_STATE")],
             depth' = [depth EXCEPT ![qmsg] = 0, ![created + 1] = depth[SentId] + 1],
             UNCHANGED <<sent, elapsed, mode, sends, waited, acked>>
      PROVE  TypeOK'
    <2>1. created + 1 \in Ids /\ created + 1 \in 0..MaxMsgs
        BY <1>3, ManagerAssumption DEF TypeOK, Ids
    <2>2. time_sorted_list' \in Seq(Ids)
        BY <1>1, <1>3, <2>1, FrontType, ConsElements
    <2>3. SetState(Bounce(tag), first) \in Message
        <3>1. Bounce(tag) \in Message
            BY <1>3, NewTagsAreTags, NewIsMessage DEF Bounce, Tags, AllStatuses
        <3>. QED  BY <3>1, SetStateIsMessage DEF BounceStates, sm_state
    <2>4. Nobody \in Message
        BY NewIsMessage DEF Nobody, Tags, AllStatuses
    <2>5. SetState(msg[SentId], "DELETE_ME_STATE") \in Message
        BY <1>1, SentType, SetStateIsMessage DEF sm_state
    <2>6. msg' \in [Ids -> Message]
        BY <1>3, <2>3, <2>4, <2>5 DEF TypeOK
    <2>7. depth' \in [Ids -> Nat]
        <3>1. depth[SentId] + 1 \in Nat
            BY <1>1, SentType DEF TypeOK
        <3>. QED  BY <1>3, <3>1 DEF TypeOK
    <2>. QED  BY <1>3, <2>1, <2>2, <2>6, <2>7 DEF TypeOK
<1>. QED  BY <1>2, <1>3 DEF ResponseBounces

LEMMA AttemptType ==
    ASSUME TypeOK, NonEmpty
    PROVE  /\ Attempt \in Message
           /\ Packed \in Message
           /\ Packed.due \in Int
<1>1. SetState(msg[qmsg], "REQUEST_MSG_DELIVERY") \in Message
    BY FrontType, SetStateIsMessage DEF sm_state
<1>. DEFINE m == IF msg[qmsg].state = "AWAITING_TRY_MSG_DELIVERY"
                 THEN SetState(msg[qmsg], "REQUEST_MSG_DELIVERY") ELSE msg[qmsg]
<1>2. m \in Message
    BY <1>1, FrontType
<1>3. Attempt = [m EXCEPT !.retries = @ + 1]
    BY DEF Attempt
<1>. HIDE DEF m
<1>4. Attempt \in Message
    BY <1>2, <1>3 DEF Message
<1>. QED  BY <1>4 DEF Packed, Message

\* Every step keeps the variables in their types.
LEMMA TypeStep ==
    ASSUME TypeOK, [Next]_vars
    PROVE  TypeOK'
<1>. USE DEF NonEmpty
<1>1. ASSUME ReceiveRequest PROVE TypeOK'
    <2>1. PICK kind \in RequestKinds, tag \in NewTags :
              Arrive(New(kind, tag, "user", NoTag, "none"))
        BY <1>1 DEF ReceiveRequest
    <2>2. tag \in Tags
        BY <2>1, NewTagsAreTags DEF Arrive
    <2>3. New(kind, tag, "user", NoTag, "none") \in Message
        <3>1. kind \in {"MESSAGE", "OTHER", "REGISTER", "RESPONSE"}
            BY ManagerAssumption
        <3>. QED  BY <2>2, <3>1, NewIsMessage DEF Tags
    <2>. QED  BY <1>1, <2>1, <2>3, ArriveType DEF ReceiveRequest, TypeOK
<1>2. ASSUME ReceiveResponse PROVE TypeOK'
    <2>1. PICK s \in sent, status \in Statuses :
              /\ Arrive(New("RESPONSE", s[1], s[2], NoTag, status))
              /\ depth' = [depth EXCEPT ![created + 1] =
                                            IF s[2] = "user" THEN 0 ELSE 1]
        BY <1>2 DEF ReceiveResponse
    <2>2. s[1] \in Tags /\ s[2] \in {"user", "Bounce.Code"}
        BY DEF TypeOK
    <2>3. New("RESPONSE", s[1], s[2], NoTag, status) \in Message
        <3>1. status \in AllStatuses \cup {"none"}
            BY ManagerAssumption
        <3>. QED  BY <2>2, <3>1, NewIsMessage DEF Tags
    <2>4. depth' \in [Ids -> Nat]
        BY <2>1 DEF TypeOK
    <2>. QED  BY <2>1, <2>3, <2>4, ArriveType
<1>3. ASSUME RejectMethod \/ OrdinaryMessage PROVE TypeOK'
    BY <1>3, MoveToType DEF RejectMethod, OrdinaryMessage, Due, sm_state
<1>4. ASSUME HandleShortCode PROVE TypeOK'
    <2>1. ASSUME ShortCodeReply PROVE TypeOK'
        <3>1. ASSUME NEW tag \in NewTags,
                     OriginateAndRequeue(New("MESSAGE", tag, "user", NoTag, "none"),
                                         "REQUEST_DESTINATION_SIPURL",
                                         SetState(msg[qmsg], "DELETE_ME_STATE")),
                     UNCHANGED depth
              PROVE  TypeOK'
            <4>1. New("MESSAGE", tag, "user", NoTag, "none") \in Message
                BY <3>1, NewTagsAreTags, NewIsMessage DEF OriginateAndRequeue, Tags
            <4>2. SetState(msg[qmsg], "DELETE_ME_STATE") \in Message
                BY <2>1, FrontType, SetStateIsMessage
                   DEF ShortCodeReply, ShortCode, Due, sm_state
            <4>3. /\ time_sorted_list' \in Seq(Ids) /\ msg' \in [Ids -> Message]
                  /\ created' \in 0..MaxMsgs
                  /\ UNCHANGED <<sent, elapsed, mode, sends, waited, acked>>
                BY <2>1, <3>1, <4>1, <4>2, OriginateType
                   DEF ShortCodeReply, ShortCode, Due, sm_state
            <4>. QED  BY <3>1, <4>3 DEF TypeOK
        <3>2. ASSUME MoveTo("NO_STATE") PROVE TypeOK'
            BY <2>1, <3>2, MoveToType DEF ShortCodeReply, ShortCode, Due, sm_state
        <3>. QED  BY <2>1, <3>1, <3>2 DEF ShortCodeReply
    <2>2. ASSUME ShortCodeError \/ ShortCodeDone \/ ShortCodeAwait \/ ShortCodeRestart
          PROVE  TypeOK'
        BY <2>2, MoveToType DEF ShortCodeError, ShortCodeDone, ShortCodeAwait,
                                ShortCodeRestart, ShortCode, Due, sm_state
    <2>3. ASSUME ShortCodeRegister PROVE TypeOK'
        BY <2>3, FrontType, RegisterHandsetType DEF ShortCodeRegister, ShortCode, Due
    <2>4. ASSUME ShortCodeRetry PROVE TypeOK'
        <3>1. NonEmpty
            BY <2>4 DEF ShortCodeRetry, ShortCode, Due
        <3>2. [msg[qmsg] EXCEPT !.retries = @ + 1] \in Message
            BY <3>1, FrontType DEF Message
        <3>3. SetState([msg[qmsg] EXCEPT !.retries = @ + 1],
                       "REQUEST_FROM_ADDRESS_LOOKUP") \in Message
            BY <3>2, SetStateIsMessage DEF sm_state
        <3>4. time_sorted_list' \in Seq(Ids) /\ msg' \in [Ids -> Message]
            BY <2>4, <3>1, <3>3, RequeueType DEF ShortCodeRetry
        <3>. QED  BY <2>4, <3>4 DEF ShortCodeRetry, TypeOK
    <2>5. ASSUME ShortCodeQuit PROVE TypeOK'
        <3>1. NonEmpty
            BY <2>5 DEF ShortCodeQuit, ShortCode, Due
        <3>2. SetState(msg[qmsg], "DELETE_ME_STATE") \in Message
            BY <3>1, FrontType, SetStateIsMessage DEF sm_state
        <3>3. time_sorted_list' \in Seq(Ids) /\ msg' \in [Ids -> Message]
            BY <2>5, <3>1, <3>2, RequeueType DEF ShortCodeQuit
        <3>. QED  BY <2>5, <3>3 DEF ShortCodeQuit, TypeOK
    <2>. QED  BY <1>4, <2>1, <2>2, <2>3, <2>4, <2>5 DEF HandleShortCode
<1>5. ASSUME HandleResponse PROVE TypeOK'
    <2>1. ASSUME IgnoreResponse PROVE TypeOK'
        <3>1. Rest \in Seq(Ids)
            BY <2>1, FrontType DEF IgnoreResponse, Response, Due
        <3>. QED  BY <2>1, <3>1, DeleteType DEF IgnoreResponse, TypeOK
    <2>2. ASSUME ResponseDefers PROVE TypeOK'
        <3>1. waited' \in [Ids -> Nat]
            BY <2>2 DEF ResponseDefers, TypeOK
        <3>. QED  BY <2>2, <3>1, SentType, IncreaseTimeoutIsMessage, AnsweredType
                  DEF ResponseDefers, Response, Due
    <2>3. ASSUME ResponseRedirects PROVE TypeOK'
        <3>1. ResendGap \in Nat
            BY TicksInNat DEF ResendGap, Delays
        <3>2. waited' \in [Ids -> Nat]
            BY <2>3, <3>1 DEF ResponseRedirects, TypeOK
        <3>. QED  BY <2>3, <3>2, SentType, SetStateIsMessage, AnsweredType
                  DEF ResponseRedirects, Response, Due, sm_state
    <2>. QED  BY <1>5, <2>1, <2>2, <2>3, ResponseDeliveredType, ResponseBouncesType
              DEF HandleResponse
<1>6. ASSUME DeleteMessage PROVE TypeOK'
    <2>1. Rest \in Seq(Ids)
        BY <1>6, FrontType DEF DeleteMessage, Due
    <2>. QED  BY <1>6, <2>1, DeleteType DEF DeleteMessage, TypeOK
<1>7. ASSUME LookupFromAddress PROVE TypeOK'
    <2>. DEFINE m == IF msg[qmsg].state \in Unexpected
                     THEN SetState(msg[qmsg], "INITIAL_STATE") ELSE msg[qmsg]
    <2>1. NonEmpty
        BY <1>7 DEF LookupFromAddress, Due
    <2>2. m \in Message
        BY <2>1, FrontType, SetStateIsMessage DEF sm_state
    <2>3. PICK newstate \in {"NO_STATE", "REQUEST_DESTINATION_IMSI"} :
              Requeue(SetState(m, newstate))
        BY <1>7 DEF LookupFromAddress
    <2>. HIDE DEF m
    <2>4. SetState(m, newstate) \in Message
        BY <2>2, <2>3, SetStateIsMessage DEF sm_state
    <2>5. time_sorted_list' \in Seq(Ids) /\ msg' \in [Ids -> Message]
        BY <2>1, <2>3, <2>4, RequeueType
    <2>. QED  BY <1>7, <2>5 DEF LookupFromAddress, TypeOK
<1>8. ASSUME LookupUriImsi PROVE TypeOK'
    <2>1. NonEmpty
        BY <1>8 DEF LookupUriImsi, Due
    <2>2. ASSUME MoveTo("NO_STATE") \/ MoveTo("REQUEST_DESTINATION_SIPURL")
          PROVE  TypeOK'
        BY <2>1, <2>2, MoveToType DEF sm_state
    <2>3. ASSUME NEW tag \in NewTags, NEW first \in BounceStates,
                 OriginateAndRequeue(Bounce(tag), first,
                                     SetState(msg[qmsg], "DELETE_ME_STATE")),
                 depth' = [depth EXCEPT ![created + 1] = depth[qmsg] + 1]
          PROVE  TypeOK'
        <3>1. Bounce(tag) \in Message
            BY <2>3, NewTagsAreTags, NewIsMessage
               DEF OriginateAndRequeue, Bounce, Tags
        <3>2. SetState(msg[qmsg], "DELETE_ME_STATE") \in Message
            BY <2>1, FrontType, SetStateIsMessage DEF sm_state
        <3>3. first \in sm_state
            BY DEF BounceStates, sm_state
        <3>4. /\ time_sorted_list' \in Seq(Ids) /\ msg' \in [Ids -> Message]
              /\ created' \in 0..MaxMsgs
              /\ UNCHANGED <<sent, elapsed, mode, sends, waited, acked>>
            BY <2>1, <2>3, <3>1, <3>2, <3>3, OriginateType
        <3>5. depth' \in [Ids -> Nat]
            <4>1. depth[qmsg] + 1 \in Nat
                BY <2>1, FrontType DEF TypeOK
            <4>. QED  BY <2>3, <4>1 DEF TypeOK
        <3>. QED  BY <3>4, <3>5 DEF TypeOK
    <2>. QED  BY <1>8, <2>2, <2>3 DEF LookupUriImsi
<1>9. ASSUME CrashInLookup PROVE TypeOK'
    BY <1>9 DEF CrashInLookup, TypeOK
<1>10. ASSUME LookupUriHostport PROVE TypeOK'
    BY <1>10, MoveToType DEF LookupUriHostport, Due, sm_state
<1>11. ASSUME PackFails \/ DropAfterRetries PROVE TypeOK'
    <2>1. NonEmpty
        BY <1>11 DEF PackFails, DropAfterRetries, Delivering, Due
    <2>2. /\ SetState(Attempt, "NO_STATE") \in Message
          /\ SetState(Packed, "DELETE_ME_STATE") \in Message
        BY <2>1, AttemptType, SetStateIsMessage DEF sm_state
    <2>3. time_sorted_list' \in Seq(Ids) /\ msg' \in [Ids -> Message]
        BY <1>11, <2>1, <2>2, RequeueType DEF PackFails, DropAfterRetries
    <2>. QED  BY <1>11, <2>3 DEF PackFails, DropAfterRetries, TypeOK
<1>12. ASSUME RateLimit PROVE TypeOK'
    <2>1. NonEmpty
        BY <1>12 DEF RateLimit, Delivering, Due
    <2>2. [Packed EXCEPT !.due = @ + msSMSRateLimit] \in Message
        BY <2>1, AttemptType, RateLimitInNat DEF Message
    <2>3. msg' \in [Ids -> Message]
        BY <1>12, <2>1, <2>2, FrontType DEF RateLimit, TypeOK
    <2>4. time_sorted_list' \in Seq(Ids)
        <3>. DEFINE packed == [msg EXCEPT ![qmsg] = Packed]
        <3>1. \A x \in Ids : packed[x].due \in Int
            BY <2>1, FrontType, AttemptType DEF TypeOK, Message
        <3>2. time_sorted_list' = time_sorted_list
              \/ time_sorted_list' = InsertByTime(Rest, packed, qmsg)
            BY <1>12 DEF RateLimit
        <3>. HIDE DEF packed
        <3>. QED  BY <2>1, <3>1, <3>2, FrontType, InsertByTimeElements DEF TypeOK
    <2>. QED  BY <1>12, <2>3, <2>4 DEF RateLimit, TypeOK
<1>13. ASSUME Deliver PROVE TypeOK'
    <2>1. NonEmpty
        BY <1>13 DEF Deliver, Delivering, Due
    <2>2. SetState(Packed, "ASKED_FOR_MSG_DELIVERY") \in Message
        BY <2>1, AttemptType, SetStateIsMessage DEF sm_state
    <2>3. time_sorted_list' \in Seq(Ids) /\ msg' \in [Ids -> Message]
        BY <1>13, <2>1, <2>2, RequeueType DEF Deliver
    <2>4. sent' \subseteq Tags \X {"user", "Bounce.Code"}
        <3>1. msg[qmsg].qtag \in Tags /\ msg[qmsg].from \in {"user", "Bounce.Code"}
            BY <2>1, FrontType DEF Message
        <3>. QED  BY <1>13, <3>1 DEF Deliver, TypeOK
    <2>5. sends' \in [Ids -> Nat]
        BY <1>13, <2>1, FrontType DEF Deliver, TypeOK
    <2>6. waited' \in [Ids -> Nat]
        BY <1>13 DEF Deliver, TypeOK
    <2>7. elapsed' \in Nat
        BY <1>13 DEF Deliver, TypeOK
    <2>. QED  BY <1>13, <2>3, <2>4, <2>5, <2>6, <2>7 DEF Deliver, TypeOK
<1>14. ASSUME NoAnswer \/ AwaitRegister \/ NoRegisterAnswer PROVE TypeOK'
    BY <1>14, MoveToType DEF NoAnswer, AwaitRegister, NoRegisterAnswer, Due, sm_state
<1>15. ASSUME Register PROVE TypeOK'
    <2>1. NonEmpty
        BY <1>15 DEF Register, Due
    <2>2. SetState(msg[qmsg], "REGISTER_HANDSET") \in Message
        BY <2>1, FrontType, SetStateIsMessage DEF sm_state
    <2>. QED  BY <1>15, <2>1, <2>2, RegisterHandsetType DEF Register
<1>16. ASSUME Tick PROVE TypeOK'
    <2>1. \A m \in Message : [m EXCEPT !.due = @ - 1] \in Message
        BY DEF Message
    <2>2. msg' \in [Ids -> Message]
        BY <1>16, <2>1 DEF Tick, TypeOK
    <2>3. waited' \in [Ids -> Nat] /\ elapsed' \in Nat
        BY <1>16 DEF Tick, TypeOK
    <2>. QED  BY <1>16, <2>2, <2>3 DEF Tick, TypeOK
<1>17. ASSUME UNCHANGED vars PROVE TypeOK'
    BY <1>17 DEF vars, TypeOK
<1>. QED  BY <1>1, <1>2, <1>3, <1>4, <1>5, <1>6, <1>7, <1>8, <1>9, <1>10, <1>11,
             <1>12, <1>13, <1>14, <1>15, <1>16, <1>17 DEF Next, ProcessTimeout

LEMMA InitType == Init => TypeOK
<1>1. Nobody \in Message
    BY NewIsMessage DEF Nobody, Tags, AllStatuses
<1>2. ResendGap \in Nat
    BY TicksInNat DEF ResendGap, Delays
<1>. QED  BY <1>1, <1>2, ManagerAssumption, EmptySeq DEF Init, TypeOK

\* The variables have their types: no handler leaves the list, a message or a
\* counter in a shape that the next handler could not read.
THEOREM TypeCorrect == Spec => []TypeOK
<1>1. TypeOK /\ [Next]_vars => TypeOK'
    BY TypeStep
<1>. QED  BY <1>1, InitType, PTL DEF Spec


--------------------------------------------------------------------------------
(* The inductive invariant *)

\* A message enters the list under a number of its own, and with a tag: a tag
\* that a datagram left with was some message's, so a response has one, too.
ListInv ==
    /\ ListComplete
    /\ Queued \subseteq 1..created
    /\ \A s \in sent : s[1] # NoTag

\* The attempts counted in a message are no fewer than its sends, also after it
\* was redirected or rerun; a response, or what is off the list, has none.
SendsInv ==
    \A id \in Ids :
        /\ sends[id] <= msg[id].retries
        /\ max_retries > 0 => sends[id] <= max_retries
        /\ id \notin Queued \/ msg[id].kind = "RESPONSE" => sends[id] = 0

\* Only what comes from Bounce.Code may be a bounce, of a message that is none.
DepthInv ==
    \A id \in Ids :
        /\ depth[id] <= 1
        /\ id \notin Queued \/ msg[id].from = "user" => depth[id] = 0

Safe == TypeOK /\ ListInv /\ SendsInv /\ DepthInv

--------------------------------------------------------------------------------
(* What the handlers do to a message *)

\* The message n is the message m, moved on.
Continues(m, n) ==
    /\ n.qtag = m.qtag
    /\ n.kind = m.kind
    /\ n.from = m.from
    /\ n.retries >= m.retries

LEMMA SetStateContinues ==
    ASSUME NEW m \in Message, NEW s
    PROVE  Continues(m, SetState(m, s))
BY DEF Continues, SetState, Message

LEMMA ContinuesTwice ==
    ASSUME NEW m \in Message, NEW n \in Message, NEW s, Continues(m, n)
    PROVE  Continues(m, SetState(n, s))
BY DEF Continues, SetState, Message

LEMMA SameContinues ==
    ASSUME NEW m \in Message
    PROVE  Continues(m, m) /\ Continues(m, IncreaseTimeout(m))
BY DEF Continues, IncreaseTimeout, Message

LEMMA AttemptContinues ==
    ASSUME TypeOK, NonEmpty
    PROVE  /\ Continues(msg[qmsg], Attempt)
           /\ Continues(msg[qmsg], Packed)
           /\ Attempt.retries = msg[qmsg].retries + 1
           /\ Packed.retries = msg[qmsg].retries + 1
<1>. DEFINE m == IF msg[qmsg].state = "AWAITING_TRY_MSG_DELIVERY"
                 THEN SetState(msg[qmsg], "REQUEST_MSG_DELIVERY") ELSE msg[qmsg]
<1>1. m \in Message /\ m.retries = msg[qmsg].retries /\ Continues(msg[qmsg], m)
    <2>1. SetState(msg[qmsg], "REQUEST_MSG_DELIVERY") \in Message
        BY FrontType, SetStateIsMessage DEF sm_state
    <2>2. SetState(msg[qmsg], "REQUEST_MSG_DELIVERY").retries = msg[qmsg].retries
        BY FrontType DEF SetState, Message
    <2>. QED  BY <2>1, <2>2, FrontType, SetStateContinues, SameContinues
<1>2. Attempt = [m EXCEPT !.retries = @ + 1]
    BY DEF Attempt
<1>. HIDE DEF m
<1>3. /\ Attempt \in Message
      /\ Attempt.retries = msg[qmsg].retries + 1
      /\ Continues(msg[qmsg], Attempt)
    BY <1>1, <1>2, FrontType DEF Continues, Message
<1>. QED  BY <1>3, FrontType DEF Packed, Continues, Message

LEMMA NewFields ==
    ASSUME NEW kind \in {"MESSAGE", "OTHER", "REGISTER", "RESPONSE"}, NEW tag, NEW from,
           NEW linktag, NEW status, NEW s
    PROVE  LET m == SetState(New(kind, tag, from, linktag, status), s)
           IN  m.kind = kind /\ m.qtag = tag /\ m.from = from /\ m.retries = 0
BY DEF New, SetState

--------------------------------------------------------------------------------
(* What the handlers do to the list *)

LEMMA FrontQueued ==
    ASSUME TypeOK, ListInv, NonEmpty
    PROVE  /\ qmsg \in Queued /\ Queued \subseteq Ids
           /\ ToSet(Rest) = Queued \ {qmsg} /\ Distinct(Rest)
<1>1. Distinct(time_sorted_list) /\ Queued \subseteq Ids
    BY DEF ListInv, ListComplete
<1>. QED  BY <1>1, TailElements DEF TypeOK, NonEmpty, qmsg, Rest, Queued

LEMMA RequeueList ==
    ASSUME TypeOK, ListInv, NonEmpty, NEW m \in Message, Requeue(m)
    PROVE  /\ Distinct(time_sorted_list') /\ Queued' = Queued
           /\ \A id \in Ids : msg'[id] = IF id = qmsg THEN m ELSE msg[id]
<1>. DEFINE after == [msg EXCEPT ![qmsg] = m]
<1>1. after \in [Ids -> Message]
    BY FrontType DEF TypeOK
<1>2. \A x \in Ids : after[x].due \in Int
    BY <1>1 DEF Message
<1>3. msg' = after /\ time_sorted_list' = InsertByTime(Rest, after, qmsg)
    BY DEF Requeue
<1>4. \A id \in Ids : after[id] = IF id = qmsg THEN m ELSE msg[id]
    BY DEF TypeOK
<1>. HIDE DEF after
<1>5. /\ ToSet(time_sorted_list') = ToSet(Rest) \cup {qmsg}
      /\ Distinct(time_sorted_list')
    BY <1>2, <1>3, FrontType, FrontQueued, InsertByTimeElements
<1>. QED  BY <1>3, <1>4, <1>5, FrontQueued DEF Queued

LEMMA OriginateList ==
    ASSUME TypeOK, ListInv, NonEmpty, NEW m \in Message, NEW first \in sm_state,
           NEW moved \in Message, OriginateAndRequeue(m, first, moved)
    PROVE  LET new == created + 1
           IN  /\ new \in Ids /\ new \notin Queued /\ new # qmsg /\ created' = new
               /\ Distinct(time_sorted_list') /\ Queued' = Queued \cup {new}
               /\ \A id \in Ids : msg'[id] = IF id = qmsg THEN moved
                                             ELSE IF id = new THEN SetState(m, first)
                                             ELSE msg[id]
<1>. DEFINE id == created + 1
            after == [msg EXCEPT ![id] = SetState(m, first), ![qmsg] = moved]
<1>1. id \in Ids /\ id \notin Queued /\ id # qmsg
    <2>1. id \in Ids
        BY ManagerAssumption DEF OriginateAndRequeue, TypeOK, Ids
    <2>2. id \notin Queued
        BY ManagerAssumption DEF TypeOK, ListInv
    <2>. QED  BY <2>1, <2>2, FrontQueued
<1>2. after \in [Ids -> Message]
    BY FrontType, SetStateIsMessage DEF TypeOK
<1>3. \A x \in Ids : after[x].due \in Int
    BY <1>2 DEF Message
<1>4. /\ created' = id /\ msg' = after
      /\ time_sorted_list' = InsertByTime(<<id>> \o Rest, after, qmsg)
    BY DEF OriginateAndRequeue
<1>5. \A x \in Ids : after[x] = IF x = qmsg THEN moved
                                ELSE IF x = id THEN SetState(m, first) ELSE msg[x]
    BY <1>1 DEF TypeOK
<1>. HIDE DEF id, after
<1>6. /\ <<id>> \o Rest \in Seq(Ids)
      /\ ToSet(<<id>> \o Rest) = ToSet(Rest) \cup {id}
      /\ Distinct(<<id>> \o Rest)
    BY <1>1, FrontType, FrontQueued, ConsElements
<1>7. /\ ToSet(time_sorted_list') = ToSet(<<id>> \o Rest) \cup {qmsg}
      /\ Distinct(time_sorted_list')
    <2>. DEFINE q == <<id>> \o Rest
    <2>1. q \in Seq(Ids) /\ Distinct(q) /\ qmsg \notin ToSet(q) /\ qmsg \in Ids
        BY <1>1, <1>6, FrontType, FrontQueued
    <2>2. time_sorted_list' = InsertByTime(q, after, qmsg)
        BY <1>4
    <2>. HIDE DEF q
    <2>3. ToSet(time_sorted_list') = ToSet(q) \cup {qmsg} /\ Distinct(time_sorted_list')
        BY <1>3, <2>1, <2>2, InsertByTimeElements
    <2>. QED  BY <2>3 DEF q
<1>8. Queued' = Queued \cup {id}
    BY <1>6, <1>7, FrontQueued DEF Queued
<1>. QED  BY <1>1, <1>4, <1>5, <1>7, <1>8 DEF id

--------------------------------------------------------------------------------
(* What a step does to a message *)

Remains(id) ==
    /\ id \in Queued' <=> id \in Queued
    /\ Continues(msg[id], msg'[id])
    /\ sends'[id] = sends[id] /\ depth'[id] = depth[id]

Gone(id) ==
    /\ id \in Queued /\ id \notin Queued'
    /\ msg'[id] = Nobody
    /\ sends'[id] = 0 /\ depth'[id] = 0

Entered(id) ==
    /\ id \notin Queued /\ id \in Queued'
    /\ msg'[id].qtag # NoTag
    /\ sends'[id] = 0
    /\ \/ depth'[id] = 0
       \/ msg'[id].from = "Bounce.Code" /\ depth'[id] <= 1

Sent(id) ==
    /\ id \in Queued /\ id \in Queued'
    /\ msg[id].kind # "RESPONSE"
    /\ Continues(msg[id], msg'[id])
    /\ msg'[id].retries = msg[id].retries + 1
    /\ max_retries > 0 => msg'[id].retries <= max_retries
    /\ sends'[id] = sends[id] + 1 /\ depth'[id] = depth[id]

Shape ==
    /\ Distinct(time_sorted_list')
    /\ Queued' \subseteq 1..created'
    /\ \A s \in sent' : s[1] # NoTag
    /\ \A id \in Ids : Remains(id) \/ Gone(id) \/ Entered(id) \/ Sent(id)

LEMMA ShapeSafe ==
    ASSUME Safe, TypeOK', Shape
    PROVE  Safe'
<1>. USE DEF Safe
<1>1. /\ \A id \in Ids : msg[id] \in Message /\ sends[id] \in Nat /\ depth[id] \in Nat
      /\ \A id \in Ids : msg'[id] \in Message /\ sends'[id] \in Nat /\ depth'[id] \in Nat
    BY DEF TypeOK
<1>2. Queued' \subseteq Ids
    BY ElementOfSeq DEF TypeOK, Queued, ToSet
<1>3. \A id \in Ids : id \in Queued' <=> msg'[id].qtag # NoTag
    <2>. SUFFICES ASSUME NEW id \in Ids PROVE id \in Queued' <=> msg'[id].qtag # NoTag
        OBVIOUS
    <2>1. id \in Queued <=> msg[id].qtag # NoTag
        BY DEF ListInv, ListComplete
    <2>2. CASE Remains(id)  BY <2>1, <2>2 DEF Remains, Continues
    <2>3. CASE Gone(id)  BY <2>3 DEF Gone, Nobody, New
    <2>4. CASE Entered(id)  BY <2>4 DEF Entered
    <2>5. CASE Sent(id)  BY <2>1, <2>5 DEF Sent, Continues
    <2>. QED  BY <2>2, <2>3, <2>4, <2>5 DEF Shape
<1>4. ListInv'
    BY <1>2, <1>3 DEF Shape, ListInv, ListComplete
<1>5. SendsInv'
    <2>. SUFFICES ASSUME NEW id \in Ids
                  PROVE  /\ sends'[id] <= msg'[id].retries
                         /\ max_retries > 0 => sends'[id] <= max_retries
                         /\ id \notin Queued' \/ msg'[id].kind = "RESPONSE"
                                => sends'[id] = 0
        BY DEF SendsInv, max_retries
    <2>1. /\ sends[id] <= msg[id].retries
          /\ max_retries > 0 => sends[id] <= max_retries
          /\ id \notin Queued \/ msg[id].kind = "RESPONSE" => sends[id] = 0
        BY DEF SendsInv
    <2>2. /\ sends[id] \in Nat /\ sends'[id] \in Nat /\ max_retries \in Nat
          /\ msg[id].retries \in Nat /\ msg'[id].retries \in Nat
        BY <1>1, RateLimitInNat DEF Message
    <2>3. CASE Remains(id)  BY <2>1, <2>2, <2>3 DEF Remains, Continues
    <2>4. CASE Gone(id)  BY <2>2, <2>4 DEF Gone
    <2>5. CASE Entered(id)  BY <2>2, <2>5 DEF Entered
    <2>6. CASE Sent(id)  BY <2>1, <2>2, <2>6 DEF Sent, Continues
    <2>. QED  BY <2>3, <2>4, <2>5, <2>6 DEF Shape
<1>6. DepthInv'
    <2>. SUFFICES ASSUME NEW id \in Ids
                  PROVE  /\ depth'[id] <= 1
                         /\ id \notin Queued' \/ msg'[id].from = "user" => depth'[id] = 0
        BY DEF DepthInv
    <2>1. /\ depth[id] <= 1
          /\ id \notin Queued \/ msg[id].from = "user" => depth[id] = 0
        BY DEF DepthInv
    <2>2. CASE Remains(id)  BY <2>1, <2>2 DEF Remains, Continues
    <2>3. CASE Gone(id)  BY <2>3 DEF Gone
    <2>4. CASE Entered(id)  BY <2>4 DEF Entered
    <2>5. CASE Sent(id)  BY <2>1, <2>5 DEF Sent, Continues
    <2>. QED  BY <2>2, <2>3, <2>4, <2>5 DEF Shape
<1>. QED  BY <1>4, <1>5, <1>6

LEMMA RemainsRefl ==
    ASSUME TypeOK, NEW id \in Ids, id \in Queued' <=> id \in Queued, msg'[id] = msg[id],
           sends'[id] = sends[id], depth'[id] = depth[id]
    PROVE  Remains(id)
<1>1. msg[id] \in Message
    BY DEF TypeOK
<1>. QED  BY <1>1, SameContinues DEF Remains

LEMMA RequeueShape ==
    ASSUME Safe, NonEmpty, NEW m \in Message, Continues(msg[qmsg], m), Requeue(m),
           UNCHANGED <<created, sent, sends, depth>>
    PROVE  Shape
<1>. USE DEF Safe
<1>1. /\ Distinct(time_sorted_list') /\ Queued' = Queued
      /\ \A id \in Ids : msg'[id] = IF id = qmsg THEN m ELSE msg[id]
    BY RequeueList
<1>2. ASSUME NEW id \in Ids PROVE Remains(id)
    <2>1. CASE id = qmsg  BY <1>1, <2>1 DEF Remains
    <2>2. CASE id # qmsg  BY <1>1, <2>2, RemainsRefl
    <2>. QED  BY <2>1, <2>2
<1>. QED  BY <1>1, <1>2 DEF Shape, ListInv

LEMMA MoveToShape ==
    ASSUME Safe, NonEmpty, NEW s \in sm_state, MoveTo(s)
    PROVE  Shape
<1>1. SetState(msg[qmsg], s) \in Message /\ Continues(msg[qmsg], SetState(msg[qmsg], s))
    BY FrontType, SetStateIsMessage, SetStateContinues DEF Safe
<1>. QED  BY <1>1, RequeueShape DEF MoveTo

LEMMA OriginateShape ==
    ASSUME Safe, NonEmpty, NEW kind \in {"MESSAGE", "OTHER", "REGISTER", "RESPONSE"},
           NEW tag \in NewTags, NEW from \in {"user", "Bounce.Code"}, NEW linktag \in Tags,
           NEW first \in sm_state, NEW moved \in Message, Continues(msg[qmsg], moved),
           OriginateAndRequeue(New(kind, tag, from, linktag, "none"), first, moved),
           \/ UNCHANGED depth
           \/ /\ from = "Bounce.Code" /\ MayBounce(qmsg)
              /\ depth' = [depth EXCEPT ![created + 1] = depth[qmsg] + 1]
    PROVE  Shape
<1>. USE DEF Safe
<1>. DEFINE new == created + 1
            m == New(kind, tag, from, linktag, "none")
<1>1. tag \in Tags /\ tag # NoTag
    BY NewTagsAreTags DEF OriginateAndRequeue
<1>2. m \in Message
    BY <1>1, NewIsMessage
<1>3. SetState(m, first).qtag = tag /\ SetState(m, first).from = from
    BY NewFields
<1>4. /\ new \in Ids /\ new \notin Queued /\ new # qmsg /\ created' = new
      /\ Distinct(time_sorted_list') /\ Queued' = Queued \cup {new}
      /\ \A id \in Ids : msg'[id] = IF id = qmsg THEN moved
                                    ELSE IF id = new THEN SetState(m, first)
                                    ELSE msg[id]
    BY <1>2, OriginateList
<1>5. UNCHANGED <<sent, sends>>
    BY DEF OriginateAndRequeue
<1>6. /\ \A id \in Ids \ {new} : depth'[id] = depth[id]
      /\ depth'[new] = 0 \/ (from = "Bounce.Code" /\ depth'[new] <= 1)
    <2>1. depth[new] = 0 /\ sends[new] = 0
        BY <1>4 DEF DepthInv, SendsInv
    <2>2. MayBounce(qmsg) => depth[qmsg] = 0
        BY FrontType DEF MayBounce, DepthInv, Message
    <2>. QED  BY <1>4, <2>1, <2>2 DEF TypeOK
<1>. HIDE DEF m, new
<1>7. ASSUME NEW id \in Ids PROVE Remains(id) \/ Entered(id)
    <2>1. CASE id = new
        <3>1. sends'[id] = 0
            BY <1>4, <1>5, <2>1 DEF SendsInv
        <3>. QED  BY <1>1, <1>3, <1>4, <1>6, <2>1, <3>1 DEF Entered
    <2>2. CASE id = qmsg
        BY <1>4, <1>5, <1>6, <2>2, FrontQueued DEF Remains
    <2>3. CASE id # new /\ id # qmsg
        BY <1>4, <1>5, <1>6, <2>3, RemainsRefl
    <2>. QED  BY <2>1, <2>2, <2>3
<1>8. Queued' \subseteq 1..created'
    BY <1>4 DEF ListInv, TypeOK, new
<1>. QED  BY <1>4, <1>5, <1>7, <1>8 DEF Shape, ListInv

LEMMA ArriveShape ==
    ASSUME Safe, NEW kind \in {"MESSAGE", "OTHER", "REGISTER", "RESPONSE"},
           NEW tag \in Tags, tag # NoTag, NEW from, NEW status,
           Arrive(New(kind, tag, from, NoTag, status)),
           \/ UNCHANGED depth
           \/ depth' = [depth EXCEPT ![created + 1] = IF from = "user" THEN 0 ELSE 1],
           from \in {"user", "Bounce.Code"}
    PROVE  Shape
<1>. USE DEF Safe
<1>. DEFINE new == created + 1
            m == SetState(New(kind, tag, from, NoTag, status), "INITIAL_STATE")
<1>1. new \in Ids /\ new \notin Queued
    <2>1. new \in Ids
        BY ManagerAssumption DEF Arrive, TypeOK, Ids
    <2>2. new \notin Queued
        BY ManagerAssumption DEF TypeOK, ListInv
    <2>. QED  BY <2>1, <2>2
<1>2. m.qtag = tag /\ m.from = from
    BY NewFields
<1>3. /\ created' = new /\ time_sorted_list' = <<new>> \o time_sorted_list
      /\ UNCHANGED <<sent, sends>>
      /\ \A id \in Ids : msg'[id] = IF id = new THEN m ELSE msg[id]
    BY DEF Arrive, TypeOK
<1>4. depth[new] = 0 /\ sends[new] = 0
    BY <1>1 DEF DepthInv, SendsInv
<1>5. /\ \A id \in Ids \ {new} : depth'[id] = depth[id]
      /\ depth'[new] = 0 \/ (from = "Bounce.Code" /\ depth'[new] <= 1)
    BY <1>1, <1>4 DEF TypeOK
<1>6. Distinct(time_sorted_list') /\ Queued' = Queued \cup {new}
    BY <1>1, <1>3, ConsElements DEF TypeOK, ListInv, ListComplete, Queued
<1>7. Queued' \subseteq 1..created'
    BY <1>3, <1>6, ManagerAssumption DEF ListInv, TypeOK
<1>. HIDE DEF m, new
<1>8. ASSUME NEW id \in Ids PROVE Remains(id) \/ Entered(id)
    <2>1. CASE id = new
        BY <1>1, <1>2, <1>3, <1>4, <1>5, <1>6, <2>1 DEF Entered
    <2>2. CASE id # new
        BY <1>3, <1>5, <1>6, <2>2, RemainsRefl
    <2>. QED  BY <2>1, <2>2
<1>. QED  BY <1>3, <1>6, <1>7, <1>8 DEF Shape, ListInv

\* The front message leaves the list.
LEMMA DropFrontShape ==
    ASSUME Safe, NonEmpty, time_sorted_list' = Rest, Delete({qmsg}),
           UNCHANGED <<created, sent>>
    PROVE  Shape
<1>. USE DEF Safe
<1>1. Distinct(time_sorted_list') /\ Queued' = Queued \ {qmsg} /\ qmsg \in Queued
    BY FrontQueued DEF Queued
<1>2. ASSUME NEW id \in Ids PROVE Remains(id) \/ Gone(id)
    <2>1. CASE id = qmsg  BY <1>1, <2>1 DEF Gone, Delete, Cleared
    <2>2. CASE id # qmsg  BY <1>1, <2>2, RemainsRefl DEF Delete, Cleared
    <2>. QED  BY <2>1, <2>2
<1>. QED  BY <1>1, <1>2 DEF Shape, ListInv

--------------------------------------------------------------------------------
(* Responses *)

\* The front message is a response: it was never sent.
LEMMA FrontResponse ==
    ASSUME Safe, NEW statuses, Response(statuses)
    PROVE  /\ NonEmpty /\ sends[qmsg] = 0
           /\ Distinct(Rest) /\ ToSet(Rest) = Queued \ {qmsg} /\ qmsg \in Queued
BY FrontType, FrontQueued DEF Safe, Response, Due, NonEmpty, SendsInv

\* The response leaves, the message it answers stays.
LEMMA AnsweredShape ==
    ASSUME Safe, NEW statuses, Response(statuses), Matches # {},
           NEW m \in Message, Continues(msg[SentId], m), Answered(m)
    PROVE  Shape
<1>. USE DEF Safe
<1>1. /\ NonEmpty /\ sends[qmsg] = 0 /\ Distinct(Rest)
      /\ ToSet(Rest) = Queued \ {qmsg} /\ qmsg \in Queued
    BY FrontResponse
<1>2. SentId \in Ids /\ SentId \in Queued /\ SentId # qmsg /\ qmsg \in Ids
    BY <1>1, SentType, FrontType
<1>3. /\ \A id \in Ids : msg'[id] = IF id = SentId THEN m
                                    ELSE IF id = qmsg THEN Nobody ELSE msg[id]
      /\ \A id \in Ids : depth'[id] = IF id = qmsg THEN 0 ELSE depth[id]
      /\ UNCHANGED <<created, sent, sends>>
    BY <1>2 DEF Answered, TypeOK
<1>4. Queued' = Queued \ {qmsg} /\ Distinct(time_sorted_list')
    BY <1>1 DEF Answered, Queued
<1>5. ASSUME NEW id \in Ids PROVE Remains(id) \/ Gone(id)
    <2>1. CASE id = qmsg  BY <1>1, <1>2, <1>3, <1>4, <2>1 DEF Gone
    <2>2. CASE id = SentId  BY <1>2, <1>3, <1>4, <2>2 DEF Remains
    <2>3. CASE id # qmsg /\ id # SentId  BY <1>3, <1>4, <2>3, RemainsRefl
    <2>. QED  BY <2>1, <2>2, <2>3
<1>. QED  BY <1>3, <1>4, <1>5 DEF Shape, ListInv

\* The response leaves together with the message it answers.
LEMMA DeliveredShape ==
    ASSUME Safe, ResponseDelivered
    PROVE  Shape
<1>. USE DEF Safe
<1>1. /\ NonEmpty /\ Matches # {} /\ Distinct(Rest)
      /\ ToSet(Rest) = Queued \ {qmsg} /\ qmsg \in Queued
    BY FrontResponse DEF ResponseDelivered
<1>2. /\ SentPos \in 1..Len(Rest) /\ Rest \in Seq(Ids) /\ qmsg \in Ids
      /\ SentId = Rest[SentPos] /\ SentId \in Ids /\ SentId \in Queued
    BY <1>1, SentType, FrontType DEF SentId
<1>3. Distinct(time_sorted_list') /\ Queued' = Queued \ {qmsg, SentId}
    <2>1. ToSet(RemoveAt(Rest, SentPos)) = ToSet(Rest) \ {SentId}
          /\ Distinct(RemoveAt(Rest, SentPos))
        BY <1>1, <1>2, RemoveAtElements
    <2>. QED  BY <1>1, <2>1 DEF ResponseDelivered, Queued
<1>4. \A id \in Ids :
          /\ sends'[id] = IF id \in {qmsg, SentId} THEN 0 ELSE sends[id]
          /\ depth'[id] = IF id \in {qmsg, SentId} THEN 0 ELSE depth[id]
          /\ id \in {qmsg, SentId} => msg'[id] = Nobody
          /\ id \notin {qmsg, SentId} =>
                 msg'[id] = msg[id] \/ msg'[id] = SetState(msg[id], "INITIAL_STATE")
    BY DEF ResponseDelivered, Cleared
<1>5. ASSUME NEW id \in Ids PROVE Remains(id) \/ Gone(id)
    <2>1. CASE id \in {qmsg, SentId}  BY <1>1, <1>2, <1>3, <1>4, <2>1 DEF Gone
    <2>2. CASE id \notin {qmsg, SentId}
        <3>1. msg[id] \in Message
            BY DEF TypeOK
        <3>2. Continues(msg[id], msg'[id])
            BY <1>4, <2>2, <3>1, SameContinues, SetStateContinues
        <3>. QED  BY <1>3, <1>4, <2>2, <3>2 DEF Remains
    <2>. QED  BY <2>1, <2>2
<1>6. UNCHANGED <<created, sent>>
    BY DEF ResponseDelivered
<1>. QED  BY <1>3, <1>5, <1>6 DEF Shape, ListInv

\* The response leaves and a bounce enters, of a message that is none.
LEMMA BouncesShape ==
    ASSUME Safe, ResponseBounces
    PROVE  Shape
<1>. USE DEF Safe
<1>1. /\ NonEmpty /\ sends[qmsg] = 0 /\ Matches # {} /\ Distinct(Rest)
      /\ ToSet(Rest) = Queued \ {qmsg} /\ qmsg \in Queued
    BY FrontResponse DEF ResponseBounces
<1>2. SentId \in Ids /\ SentId \in Queued /\ SentId # qmsg /\ qmsg \in Ids
      /\ msg[SentId] \in Message /\ Rest \in Seq(Ids)
    BY <1>1, SentType, FrontType
<1>3. CASE Answered(SetState(msg[SentId], "NO_STATE"))
    <2>1. SetState(msg[SentId], "NO_STATE") \in Message
        BY <1>2, SetStateIsMessage DEF sm_state
    <2>. QED  BY <1>1, <1>2, <1>3, <2>1, SetStateContinues, AnsweredShape
              DEF ResponseBounces
<1>4. ASSUME NEW tag \in NewTags, NEW first \in BounceStates,
             MayBounce(SentId), created < MaxMsgs, created' = created + 1,
             time_sorted_list' = <<created + 1>> \o Rest,
             msg' = [msg EXCEPT ![qmsg] = Nobody,
                                ![created + 1] = SetState(Bounce(tag), first),
                                ![SentId] = SetState(msg[SentId], "DELETE_ME_STATE")],
             depth' = [depth EXCEPT ![qmsg] = 0, ![created + 1] = depth[SentId] + 1],
             UNCHANGED <<sent, elapsed, mode, sends, waited, acked>>
      PROVE  Shape
    <2>. DEFINE new == created + 1
                b == SetState(Bounce(tag), first)
                m == SetState(msg[SentId], "DELETE_ME_STATE")
    <2>1. new \in Ids /\ new \notin Queued
        <3>1. new \in Ids
            BY <1>4, ManagerAssumption DEF TypeOK, Ids
        <3>2. new \notin Queued
            BY ManagerAssumption DEF TypeOK, ListInv
        <3>. QED  BY <3>1, <3>2
    <2>2. b.qtag # NoTag /\ b.from = "Bounce.Code"
        BY <1>4, NewTagsAreTags, NewFields DEF Bounce
    <2>3. Continues(msg[SentId], m)
        BY <1>2, SetStateContinues
    <2>4. depth[SentId] = 0
        BY <1>2, <1>4 DEF MayBounce, DepthInv, Message
    <2>5. sends'[new] = 0
        BY <1>4, <2>1 DEF SendsInv
    <2>6. /\ \A id \in Ids : msg'[id] = IF id = SentId THEN m ELSE IF id = new THEN b
                                        ELSE IF id = qmsg THEN Nobody ELSE msg[id]
          /\ \A id \in Ids : depth'[id] = IF id = new THEN 1
                                          ELSE IF id = qmsg THEN 0 ELSE depth[id]
        BY <1>1, <1>2, <1>4, <2>1, <2>4 DEF TypeOK
    <2>7. Distinct(time_sorted_list') /\ Queued' = (Queued \ {qmsg}) \cup {new}
        BY <1>1, <1>2, <1>4, <2>1, ConsElements DEF Queued
    <2>8. Queued' \subseteq 1..created'
        <3>1. created \in Nat /\ Queued \subseteq 1..created
            BY ManagerAssumption DEF ListInv, TypeOK
        <3>2. Queued' \subseteq (1..created) \cup {created + 1}
            BY <2>7, <3>1
        <3>3. (1..created) \cup {created + 1} \subseteq 1..(created + 1)
            BY <3>1
        <3>4. created' = created + 1
            BY <1>4
        <3>. QED  BY <3>2, <3>3, <3>4
    <2>. HIDE DEF new, b, m
    <2>9. ASSUME NEW id \in Ids PROVE Remains(id) \/ Gone(id) \/ Entered(id)
        <3>1. CASE id = qmsg  BY <1>1, <1>2, <1>4, <2>1, <2>6, <2>7, <3>1 DEF Gone
        <3>2. CASE id = SentId  BY <1>2, <1>4, <2>1, <2>3, <2>6, <2>7, <3>2 DEF Remains
        <3>3. CASE id = new
            <4>1. id # qmsg /\ id # SentId
                BY <1>1, <1>2, <2>1, <3>3
            <4>2. msg'[id] = b /\ depth'[id] = 1 /\ id \in Queued'
                BY <2>6, <2>7, <3>3, <4>1
            <4>. QED  BY <2>1, <2>2, <2>5, <3>3, <4>2 DEF Entered
        <3>4. CASE id \notin {qmsg, SentId, new}
            BY <1>4, <2>6, <2>7, <3>4, RemainsRefl
        <3>. QED  BY <3>1, <3>2, <3>3, <3>4
    <2>. QED  BY <1>4, <2>7, <2>8, <2>9 DEF Shape, ListInv
<1>. QED  BY <1>3, <1>4 DEF ResponseBounces

--------------------------------------------------------------------------------
(* Every step *)

LEMMA RegisterHandsetShape ==
    ASSUME Safe, NonEmpty, NEW m \in Message, Continues(msg[qmsg], m), RegisterHandset(m)
    PROVE  Shape
<1>1. /\ \A s \in {"DELETE_ME_STATE", "ASKED_TO_REGISTER_HANDSET"} :
             SetState(m, s) \in Message /\ Continues(msg[qmsg], SetState(m, s))
      /\ m.qtag \in Tags
    <2>1. msg[qmsg] \in Message
        BY FrontType DEF Safe
    <2>2. m.qtag \in Tags
        BY DEF Message
    <2>3. \A s \in sm_state :
              SetState(m, s) \in Message /\ Continues(msg[qmsg], SetState(m, s))
        BY <2>1, SetStateIsMessage, ContinuesTwice
    <2>. QED  BY <2>2, <2>3 DEF sm_state
<1>2. ASSUME NEW tag \in NewTags,
             OriginateAndRequeue(New("REGISTER", tag, "user", m.qtag, "none"),
                                 "REQUEST_MSG_DELIVERY",
                                 SetState(m, "ASKED_TO_REGISTER_HANDSET"))
      PROVE  Shape
    BY <1>1, <1>2, OriginateShape DEF RegisterHandset, sm_state
<1>3. ASSUME Requeue(SetState(m, "DELETE_ME_STATE")),
             UNCHANGED <<created, sent, elapsed, mode, sends, waited, acked>>
      PROVE  Shape
    BY <1>1, <1>3, RequeueShape DEF RegisterHandset
<1>. QED  BY <1>2, <1>3 DEF RegisterHandset

LEMMA ShortCodeShape ==
    ASSUME Safe, HandleShortCode
    PROVE  Shape
<1>1. NonEmpty
    BY DEF HandleShortCode, ShortCodeReply, ShortCodeError, ShortCodeDone, ShortCodeAwait,
           ShortCodeRegister, ShortCodeRestart, ShortCodeRetry, ShortCodeQuit,
           ShortCode, Due, NonEmpty
<1>2. /\ msg[qmsg] \in Message
      /\ SetState(msg[qmsg], "DELETE_ME_STATE") \in Message
      /\ Continues(msg[qmsg], SetState(msg[qmsg], "DELETE_ME_STATE"))
      /\ Continues(msg[qmsg], msg[qmsg])
    BY <1>1, FrontType, SetStateIsMessage, SetStateContinues, SameContinues
       DEF Safe, sm_state
<1>3. ASSUME ShortCodeReply PROVE Shape
    <2>1. ASSUME NEW tag \in NewTags,
                 OriginateAndRequeue(New("MESSAGE", tag, "user", NoTag, "none"),
                                     "REQUEST_DESTINATION_SIPURL",
                                     SetState(msg[qmsg], "DELETE_ME_STATE")),
                 UNCHANGED depth
          PROVE  Shape
        BY <1>1, <1>2, <2>1, OriginateShape DEF sm_state, Tags
    <2>. QED  BY <1>1, <1>3, <2>1, MoveToShape DEF ShortCodeReply, sm_state
<1>4. ASSUME ShortCodeError \/ ShortCodeDone \/ ShortCodeAwait \/ ShortCodeRestart
      PROVE  Shape
    BY <1>1, <1>4, MoveToShape
       DEF ShortCodeError, ShortCodeDone, ShortCodeAwait, ShortCodeRestart, sm_state
<1>5. ASSUME ShortCodeRegister PROVE Shape
    BY <1>1, <1>2, <1>5, RegisterHandsetShape DEF ShortCodeRegister
<1>6. ASSUME ShortCodeRetry PROVE Shape
    <2>. DEFINE m == [msg[qmsg] EXCEPT !.retries = @ + 1]
    <2>1. m \in Message /\ Continues(msg[qmsg], m)
        BY <1>2 DEF Message, Continues
    <2>2. SetState(m, "REQUEST_FROM_ADDRESS_LOOKUP") \in Message
          /\ Continues(msg[qmsg], SetState(m, "REQUEST_FROM_ADDRESS_LOOKUP"))
        BY <1>2, <2>1, SetStateIsMessage, ContinuesTwice DEF sm_state
    <2>. QED  BY <1>1, <1>6, <2>2, RequeueShape DEF ShortCodeRetry
<1>7. ASSUME ShortCodeQuit PROVE Shape
    BY <1>1, <1>2, <1>7, RequeueShape DEF ShortCodeQuit
<1>. QED  BY <1>3, <1>4, <1>5, <1>6, <1>7 DEF HandleShortCode

LEMMA HandleResponseShape ==
    ASSUME Safe, HandleResponse
    PROVE  Shape
<1>1. ASSUME IgnoreResponse PROVE Shape
    BY <1>1, FrontResponse, DropFrontShape DEF IgnoreResponse
<1>2. ASSUME ResponseDefers PROVE Shape
    <2>1. /\ Response({"1xx", "480", "5xx"}) /\ Matches # {}
          /\ Answered(IncreaseTimeout(msg[SentId]))
        BY <1>2 DEF ResponseDefers
    <2>2. msg[SentId] \in Message
        BY <2>1, FrontResponse, SentType DEF Safe
    <2>. QED  BY <2>1, <2>2, IncreaseTimeoutIsMessage, SameContinues, AnsweredShape
<1>3. ASSUME ResponseRedirects PROVE Shape
    <2>1. /\ Response({"3xx", "6xx"}) /\ Matches # {}
          /\ Answered(SetState(msg[SentId], "REQUEST_DESTINATION_IMSI"))
        BY <1>3 DEF ResponseRedirects
    <2>2. msg[SentId] \in Message
        BY <2>1, FrontResponse, SentType DEF Safe
    <2>3. SetState(msg[SentId], "REQUEST_DESTINATION_IMSI") \in Message
        BY <2>2, SetStateIsMessage DEF sm_state
    <2>. QED  BY <2>1, <2>2, <2>3, SetStateContinues, AnsweredShape
<1>. QED  BY <1>1, <1>2, <1>3, DeliveredShape, BouncesShape DEF HandleResponse

\* Attempts: all of them count, one of them sends.
LEMMA AttemptShape ==
    ASSUME Safe, PackFails \/ DropAfterRetries \/ RateLimit \/ Deliver
    PROVE  Shape
<1>. USE DEF Safe
<1>1. NonEmpty /\ qmsg \in Ids /\ msg[qmsg] \in Message /\ msg[qmsg].kind # "RESPONSE"
    BY FrontType DEF PackFails, DropAfterRetries, RateLimit, Deliver, Delivering, Due,
                     Requests, NonEmpty
<1>2. /\ Attempt \in Message /\ Packed \in Message
      /\ Continues(msg[qmsg], Attempt) /\ Continues(msg[qmsg], Packed)
      /\ Attempt.retries = msg[qmsg].retries + 1
      /\ Packed.retries = msg[qmsg].retries + 1
    BY <1>1, AttemptType, AttemptContinues
<1>3. ASSUME PackFails \/ DropAfterRetries PROVE Shape
    <2>1. /\ SetState(Attempt, "NO_STATE") \in Message
          /\ Continues(msg[qmsg], SetState(Attempt, "NO_STATE"))
          /\ SetState(Packed, "DELETE_ME_STATE") \in Message
          /\ Continues(msg[qmsg], SetState(Packed, "DELETE_ME_STATE"))
        BY <1>1, <1>2, SetStateIsMessage, ContinuesTwice DEF sm_state
    <2>. QED  BY <1>1, <1>3, <2>1, RequeueShape DEF PackFails, DropAfterRetries
<1>4. ASSUME RateLimit PROVE Shape
    <2>. DEFINE late == [Packed EXCEPT !.due = @ + msSMSRateLimit]
                packed == [msg EXCEPT ![qmsg] = Packed]
    <2>1. Continues(msg[qmsg], late)
        BY <1>1, <1>2 DEF Continues, Message
    <2>2. \A id \in Ids : msg'[id] = IF id = qmsg THEN late ELSE msg[id]
        BY <1>4 DEF RateLimit, TypeOK
    <2>3. Distinct(time_sorted_list') /\ Queued' = Queued
        <3>1. \A x \in Ids : packed[x].due \in Int
            BY <1>1, <1>2, FrontType DEF TypeOK, Message
        <3>2. \/ time_sorted_list' = time_sorted_list
              \/ time_sorted_list' = InsertByTime(Rest, packed, qmsg)
            BY <1>4 DEF RateLimit
        <3>. HIDE DEF packed
        <3>3. ToSet(InsertByTime(Rest, packed, qmsg)) = ToSet(Rest) \cup {qmsg}
              /\ Distinct(InsertByTime(Rest, packed, qmsg))
            BY <1>1, <3>1, FrontType, FrontQueued, InsertByTimeElements
        <3>. QED  BY <1>1, <3>2, <3>3, FrontQueued DEF ListInv, ListComplete, Queued
    <2>. HIDE DEF late, packed
    <2>4. UNCHANGED <<created, sent, sends, depth>>
        BY <1>4 DEF RateLimit
    <2>5. ASSUME NEW id \in Ids PROVE Remains(id)
        <3>1. CASE id = qmsg  BY <2>1, <2>2, <2>3, <2>4, <3>1 DEF Remains
        <3>2. CASE id # qmsg  BY <2>2, <2>3, <2>4, <3>2, RemainsRefl
        <3>. QED  BY <3>1, <3>2
    <2>. QED  BY <2>3, <2>4, <2>5 DEF Shape, ListInv
<1>5. ASSUME Deliver PROVE Shape
    <2>. DEFINE m == SetState(Packed, "ASKED_FOR_MSG_DELIVERY")
    <2>1. /\ m \in Message /\ Continues(msg[qmsg], m)
          /\ m.retries = msg[qmsg].retries + 1
        <3>1. m \in Message /\ Continues(msg[qmsg], m)
            BY <1>1, <1>2, SetStateIsMessage, ContinuesTwice DEF sm_state
        <3>2. m.retries = Packed.retries
            BY <1>2 DEF SetState, Message
        <3>. QED  BY <1>2, <3>1, <3>2
    <2>2. /\ Distinct(time_sorted_list') /\ Queued' = Queued /\ qmsg \in Queued
          /\ \A id \in Ids : msg'[id] = IF id = qmsg THEN m ELSE msg[id]
        BY <1>1, <1>5, <2>1, RequeueList, FrontQueued DEF Deliver
    <2>3. max_retries > 0 => m.retries <= max_retries
        BY <1>1, <1>2, <1>5, <2>1, RateLimitInNat DEF Deliver, RetriesExceeded, Message
    <2>. HIDE DEF m
    <2>4. /\ \A id \in Ids : sends'[id] = IF id = qmsg THEN sends[id] + 1 ELSE sends[id]
          /\ UNCHANGED <<created, depth>>
        BY <1>5 DEF Deliver, TypeOK
    <2>5. \A s \in sent' : s[1] # NoTag
        <3>1. msg[qmsg].qtag # NoTag
            BY <2>2, <1>1 DEF ListInv, ListComplete
        <3>. QED  BY <1>5, <3>1 DEF Deliver, ListInv
    <2>6. ASSUME NEW id \in Ids PROVE Remains(id) \/ Sent(id)
        <3>1. CASE id = qmsg  BY <1>1, <2>1, <2>2, <2>3, <2>4, <3>1 DEF Sent
        <3>2. CASE id # qmsg  BY <2>2, <2>4, <3>2, RemainsRefl
        <3>. QED  BY <3>1, <3>2
    <2>. QED  BY <2>2, <2>4, <2>5, <2>6 DEF Shape, ListInv
<1>. QED  BY <1>3, <1>4, <1>5

LEMMA ProcessTimeoutShape ==
    ASSUME Safe, ProcessTimeout
    PROVE  Shape
<1>. USE DEF Safe
<1>1. ASSUME RejectMethod \/ OrdinaryMessage PROVE Shape
    BY <1>1, MoveToShape DEF RejectMethod, OrdinaryMessage, Due, NonEmpty, sm_state
<1>2. ASSUME DeleteMessage PROVE Shape
    BY <1>2, DropFrontShape DEF DeleteMessage, Due, NonEmpty
<1>3. ASSUME LookupFromAddress PROVE Shape
    <2>. DEFINE m == IF msg[qmsg].state \in Unexpected
                     THEN SetState(msg[qmsg], "INITIAL_STATE") ELSE msg[qmsg]
    <2>1. NonEmpty
        BY <1>3 DEF LookupFromAddress, Due, NonEmpty
    <2>2. m \in Message /\ Continues(msg[qmsg], m) /\ msg[qmsg] \in Message
        <3>1. msg[qmsg] \in Message
            BY <2>1, FrontType
        <3>2. SetState(msg[qmsg], "INITIAL_STATE") \in Message
            BY <3>1, SetStateIsMessage DEF sm_state
        <3>. QED  BY <3>1, <3>2, SetStateContinues, SameContinues
    <2>3. PICK newstate \in {"NO_STATE", "REQUEST_DESTINATION_IMSI"} :
              Requeue(SetState(m, newstate))
        BY <1>3 DEF LookupFromAddress
    <2>. HIDE DEF m
    <2>4. newstate \in sm_state
        BY DEF sm_state
    <2>5. SetState(m, newstate) \in Message /\ Continues(msg[qmsg], SetState(m, newstate))
        BY <2>2, <2>4, SetStateIsMessage, ContinuesTwice
    <2>6. UNCHANGED <<created, sent, sends, depth>>
        BY <1>3 DEF LookupFromAddress
    <2>. QED  BY <2>1, <2>3, <2>5, <2>6, RequeueShape
<1>4. ASSUME LookupUriImsi PROVE Shape
    <2>1. NonEmpty
        BY <1>4 DEF LookupUriImsi, Due, NonEmpty
    <2>2. ASSUME MoveTo("NO_STATE") \/ MoveTo("REQUEST_DESTINATION_SIPURL")
          PROVE  Shape
        BY <2>1, <2>2, MoveToShape DEF sm_state
    <2>3. ASSUME NEW tag \in NewTags, NEW first \in BounceStates, MayBounce(qmsg),
                 OriginateAndRequeue(Bounce(tag), first,
                                     SetState(msg[qmsg], "DELETE_ME_STATE")),
                 depth' = [depth EXCEPT ![created + 1] = depth[qmsg] + 1]
          PROVE  Shape
        <3>1. /\ SetState(msg[qmsg], "DELETE_ME_STATE") \in Message
              /\ Continues(msg[qmsg], SetState(msg[qmsg], "DELETE_ME_STATE"))
            BY <2>1, FrontType, SetStateIsMessage, SetStateContinues DEF sm_state
        <3>2. first \in sm_state /\ NoTag \in Tags
            BY DEF BounceStates, sm_state, Tags
        <3>. QED  BY <2>1, <2>3, <3>1, <3>2, OriginateShape DEF Bounce
    <2>. QED  BY <1>4, <2>2, <2>3 DEF LookupUriImsi
<1>5. ASSUME CrashInLookup PROVE Shape
    <2>1. UNCHANGED <<time_sorted_list, msg, created, sent, sends, depth>>
        BY <1>5 DEF CrashInLookup
    <2>. QED  BY <2>1, RemainsRefl DEF Shape, ListInv, ListComplete, Queued
<1>6. ASSUME LookupUriHostport PROVE Shape
    BY <1>6, MoveToShape DEF LookupUriHostport, Due, NonEmpty, sm_state
<1>7. ASSUME NoAnswer \/ AwaitRegister \/ NoRegisterAnswer PROVE Shape
    BY <1>7, MoveToShape DEF NoAnswer, AwaitRegister, NoRegisterAnswer, Due, NonEmpty,
                             sm_state
<1>8. ASSUME Register PROVE Shape
    <2>1. NonEmpty
        BY <1>8 DEF Register, Due, NonEmpty
    <2>2. /\ SetState(msg[qmsg], "REGISTER_HANDSET") \in Message
          /\ Continues(msg[qmsg], SetState(msg[qmsg], "REGISTER_HANDSET"))
        BY <2>1, FrontType, SetStateIsMessage, SetStateContinues DEF sm_state
    <2>. QED  BY <1>8, <2>1, <2>2, RegisterHandsetShape DEF Register
<1>. QED  BY <1>1, <1>2, <1>3, <1>4, <1>5, <1>6, <1>7, <1>8, ShortCodeShape,
             HandleResponseShape, AttemptShape DEF ProcessTimeout

LEMMA StepShape ==
    ASSUME Safe, [Next]_vars
    PROVE  Shape
<1>. USE DEF Safe
<1>1. ASSUME ReceiveRequest PROVE Shape
    <2>1. PICK kind \in RequestKinds, tag \in NewTags :
              Arrive(New(kind, tag, "user", NoTag, "none"))
        BY <1>1 DEF ReceiveRequest
    <2>2. tag \in Tags /\ tag # NoTag
        BY <2>1, NewTagsAreTags DEF Arrive
    <2>3. kind \in {"MESSAGE", "OTHER", "REGISTER", "RESPONSE"}
        BY ManagerAssumption
    <2>. QED  BY <1>1, <2>1, <2>2, <2>3, ArriveShape DEF ReceiveRequest
<1>2. ASSUME ReceiveResponse PROVE Shape
    <2>1. PICK s \in sent, status \in Statuses :
              /\ Arrive(New("RESPONSE", s[1], s[2], NoTag, status))
              /\ depth' = [depth EXCEPT ![created + 1] =
                                            IF s[2] = "user" THEN 0 ELSE 1]
        BY <1>2 DEF ReceiveResponse
    <2>2. s[1] \in Tags /\ s[1] # NoTag /\ s[2] \in {"user", "Bounce.Code"}
        BY DEF TypeOK, ListInv
    <2>. QED  BY <2>1, <2>2, ArriveShape
<1>3. ASSUME Tick PROVE Shape
    <2>1. UNCHANGED <<time_sorted_list, created, sent, sends, depth>>
        BY <1>3 DEF Tick
    <2>2. \A id \in Ids : msg'[id] = [msg[id] EXCEPT !.due = @ - 1] \/ msg'[id] = msg[id]
        BY <1>3 DEF Tick
    <2>3. \A m \in Message : Continues(m, [m EXCEPT !.due = @ - 1]) /\ Continues(m, m)
        BY DEF Continues, Message
    <2>4. ASSUME NEW id \in Ids PROVE Remains(id)
        <3>1. msg[id] \in Message
            BY DEF TypeOK
        <3>. QED  BY <2>1, <2>2, <2>3, <3>1 DEF Remains, Queued
    <2>. QED  BY <2>1, <2>4 DEF Shape, ListInv, ListComplete, Queued
<1>4. ASSUME UNCHANGED vars PROVE Shape
    <2>1. UNCHANGED <<time_sorted_list, msg, created, sent, sends, depth>>
        BY <1>4 DEF vars
    <2>. QED  BY <2>1, RemainsRefl DEF Shape, ListInv, ListComplete, Queued
<1>. QED  BY <1>1, <1>2, <1>3, <1>4, ProcessTimeoutShape DEF Next

LEMMA SafeStep ==
    ASSUME Safe, [Next]_vars
    PROVE  Safe'
BY TypeStep, StepShape, ShapeSafe DEF Safe

LEMMA InitSafe == Init => Safe
<1>. SUFFICES ASSUME Init PROVE Safe
    OBVIOUS
<1>1. TypeOK
    BY InitType
<1>2. Queued = {} /\ Distinct(time_sorted_list)
    BY DEF Init, Queued, ToSet, Distinct
<1>3. ListInv
    BY <1>2 DEF Init, ListInv, ListComplete, Nobody, New
<1>4. SendsInv
    BY RateLimitInNat DEF Init, SendsInv, Nobody, New
<1>5. DepthInv
    BY DEF Init, DepthInv
<1>. QED  BY <1>1, <1>3, <1>4, <1>5 DEF Safe

\* The inductive invariant holds.
THEOREM Safety == Spec => []Safe
<1>1. Safe /\ [Next]_vars => Safe'
    BY SafeStep
<1>. QED  BY <1>1, InitSafe, PTL DEF Spec

\* Whatever the handlers splice in and out of the list, no message is lost from it
\* and none is linked into it twice.
THEOREM NoMessageLost == Spec => []ListComplete
<1>1. Safe => ListComplete
    BY DEF Safe, ListInv
<1>. QED  BY <1>1, Safety, PTL

\* The retry limit bounds the datagrams a message causes, whatever answers,
\* redirections and reruns come in between.
THEOREM SendsBounded == Spec => []SendsWithinLimit
<1>1. Safe => SendsWithinLimit
    <2>1. TypeOK => Queued \subseteq Ids
        BY ElementOfSeq DEF TypeOK, Queued, ToSet
    <2>. QED  BY <2>1 DEF Safe, SendsInv, SendsWithinLimit
<1>. QED  BY <1>1, Safety, PTL

\* There is no endless loop of bounces.
THEOREM NoBounceLoop == Spec => []BouncesNeverBounce
<1>1. Safe => BouncesNeverBounce
    <2>1. TypeOK => Queued \subseteq Ids
        BY ElementOfSeq DEF TypeOK, Queued, ToSet
    <2>. QED  BY <2>1 DEF Safe, DepthInv, BouncesNeverBounce
<1>. QED  BY <1>1, Safety, PTL

--------------------------------------------------------------------------------
(* The order of the list *)

LEMMA HeldUpIsHeld ==
    /\ \A b : b \in HeldUp <=> Held(time_sorted_list, msg, b)
    /\ \A b : b \in HeldUp' <=> Held(time_sorted_list', msg', b)
<1>1. ASSUME NEW b PROVE b \in HeldUp <=> Held(time_sorted_list, msg, b)
    BY DEF HeldUp, Blocks, Later, Queued, ToSet, Held
<1>2. ASSUME NEW b PROVE b \in HeldUp' <=> Held(time_sorted_list', msg', b)
    BY DEF HeldUp, Blocks, Later, Queued, ToSet, Held
<1>. QED  BY <1>1, <1>2

\* No message comes to wait for another.
NoneHeldUp == \A b : Held(time_sorted_list', msg', b) => Held(time_sorted_list, msg, b)

\* A message that enters the list is acted on at once.
LEMMA NewIsDue ==
    /\ Timeout("NO_STATE", "INITIAL_STATE") = 0
    /\ Timeout("NO_STATE", "REQUEST_MSG_DELIVERY") = 0
    /\ \A s \in BounceStates : Timeout("NO_STATE", s) = 0
BY DEF Timeout, Immediate, BounceStates

LEMMA NewDue ==
    ASSUME NEW kind, NEW tag, NEW from, NEW linktag, NEW status, NEW s,
           Timeout("NO_STATE", s) = 0
    PROVE  SetState(New(kind, tag, from, linktag, status), s).due = 0
<1>1. New(kind, tag, from, linktag, status).state = "NO_STATE"
    BY DEF New
<1>. QED  BY <1>1, TicksAssumption DEF SetState, New

LEMMA RequeueInOrder ==
    ASSUME Safe, NonEmpty, NEW m \in Message, Requeue(m)
    PROVE  NoneHeldUp
<1>. USE DEF Safe
<1>. DEFINE after == [msg EXCEPT ![qmsg] = m]
<1>1. after \in [Ids -> Message]
    BY FrontType DEF TypeOK
<1>2. \A x \in Ids : after[x].due \in Int
    BY <1>1 DEF Message
<1>3. msg' = after /\ time_sorted_list' = InsertByTime(Rest, after, qmsg)
    BY DEF Requeue
<1>4. \A id \in Ids : id # qmsg => after[id] = msg[id]
    BY DEF TypeOK
<1>. HIDE DEF after
<1>5. ASSUME NEW b, Held(InsertByTime(Rest, after, qmsg), after, b)
      PROVE  Held(time_sorted_list, msg, b)
    <2>1. Held(Rest, after, b)
        BY <1>2, <1>5, FrontType, HeldInsert
    <2>2. \A x \in ToSet(Rest) : x \in Ids /\ x # qmsg
        BY FrontQueued
    <2>3. \A x \in ToSet(Rest) : after[x].due = msg[x].due
        BY <1>4, <2>2
    <2>4. Held(Rest, msg, b)
        BY <2>1, <2>3, HeldSame
    <2>. QED  BY <2>4, HeldTail DEF TypeOK, NonEmpty, Rest
<1>. QED  BY <1>3, <1>5 DEF NoneHeldUp

LEMMA MoveToInOrder ==
    ASSUME Safe, NonEmpty, NEW s \in sm_state, MoveTo(s)
    PROVE  NoneHeldUp
<1>1. SetState(msg[qmsg], s) \in Message
    BY FrontType, SetStateIsMessage DEF Safe
<1>. QED  BY <1>1, RequeueInOrder DEF MoveTo

LEMMA OriginateInOrder ==
    ASSUME Safe, NonEmpty, NEW m \in Message, NEW first \in sm_state,
           NEW moved \in Message, OriginateAndRequeue(m, first, moved),
           SetState(m, first).due = 0
    PROVE  NoneHeldUp
<1>. USE DEF Safe
<1>. DEFINE id == created + 1
            after == [msg EXCEPT ![id] = SetState(m, first), ![qmsg] = moved]
            q == <<id>> \o Rest
<1>1. id \in Ids /\ id \notin Queued /\ id # qmsg
    <2>1. id \in Ids
        BY ManagerAssumption DEF OriginateAndRequeue, TypeOK, Ids
    <2>2. id \notin Queued
        BY ManagerAssumption DEF TypeOK, ListInv
    <2>. QED  BY <2>1, <2>2, FrontQueued
<1>2. after \in [Ids -> Message]
    BY FrontType, SetStateIsMessage DEF TypeOK
<1>3. \A x \in Ids : after[x].due \in Int
    BY <1>2 DEF Message
<1>4. msg' = after /\ time_sorted_list' = InsertByTime(q, after, qmsg)
    BY DEF OriginateAndRequeue
<1>5. /\ after[id].due = 0
      /\ \A x \in Ids : x # qmsg /\ x # id => after[x] = msg[x]
    BY <1>1, FrontType DEF TypeOK
<1>. HIDE DEF id, after
<1>6. q \in Seq(Ids)
    BY <1>1, FrontType, ConsElements
<1>7. ASSUME NEW b, Held(InsertByTime(q, after, qmsg), after, b)
      PROVE  Held(time_sorted_list, msg, b)
    <2>1. Held(q, after, b)
        <3>. HIDE DEF q
        <3>. QED  BY <1>3, <1>6, <1>7, FrontType, HeldInsert
    <2>2. Held(Rest, after, b)
        BY <1>1, <1>5, <2>1, FrontType, HeldCons
    <2>3. \A x \in ToSet(Rest) : x \in Ids /\ x # qmsg /\ x # id
        BY <1>1, FrontQueued
    <2>4. \A x \in ToSet(Rest) : after[x].due = msg[x].due
        BY <1>5, <2>3
    <2>5. Held(Rest, msg, b)
        BY <2>2, <2>4, HeldSame
    <2>. QED  BY <2>5, HeldTail DEF TypeOK, NonEmpty, Rest
<1>. QED  BY <1>4, <1>7 DEF NoneHeldUp

LEMMA ArriveInOrder ==
    ASSUME Safe, NEW kind, NEW tag, NEW from, NEW status,
           Arrive(New(kind, tag, from, NoTag, status))
    PROVE  NoneHeldUp
<1>. USE DEF Safe
<1>. DEFINE new == created + 1
            m == SetState(New(kind, tag, from, NoTag, status), "INITIAL_STATE")
            after == [msg EXCEPT ![new] = m]
<1>1. new \in Ids /\ new \notin Queued
    <2>1. new \in Ids
        BY ManagerAssumption DEF Arrive, TypeOK, Ids
    <2>2. new \notin Queued
        BY ManagerAssumption DEF TypeOK, ListInv
    <2>. QED  BY <2>1, <2>2
<1>2. m.due = 0
    BY NewIsDue, NewDue
<1>3. msg' = after /\ time_sorted_list' = <<new>> \o time_sorted_list
    BY DEF Arrive
<1>. HIDE DEF m
<1>4. after[new].due = 0 /\ \A x \in Ids : x # new => after[x] = msg[x]
    BY <1>1, <1>2 DEF TypeOK
<1>. HIDE DEF new, after
<1>5. ASSUME NEW b, Held(<<new>> \o time_sorted_list, after, b)
      PROVE  Held(time_sorted_list, msg, b)
    <2>1. Held(time_sorted_list, after, b)
        BY <1>1, <1>4, <1>5, HeldCons DEF TypeOK
    <2>2. \A x \in ToSet(time_sorted_list) : x \in Ids /\ x # new
        BY <1>1 DEF ListInv, ListComplete, Queued
    <2>3. \A x \in ToSet(time_sorted_list) : after[x].due = msg[x].due
        BY <1>4, <2>2
    <2>. QED  BY <2>1, <2>3, HeldSame
<1>. QED  BY <1>3, <1>5 DEF NoneHeldUp

LEMMA RegisterHandsetInOrder ==
    ASSUME Safe, NonEmpty, NEW m \in Message, RegisterHandset(m)
    PROVE  NoneHeldUp
<1>1. SetState(m, "DELETE_ME_STATE") \in Message
      /\ SetState(m, "ASKED_TO_REGISTER_HANDSET") \in Message
    BY SetStateIsMessage DEF sm_state
<1>2. ASSUME NEW tag \in NewTags,
             OriginateAndRequeue(New("REGISTER", tag, "user", m.qtag, "none"),
                                 "REQUEST_MSG_DELIVERY",
                                 SetState(m, "ASKED_TO_REGISTER_HANDSET"))
      PROVE  NoneHeldUp
    <2>1. New("REGISTER", tag, "user", m.qtag, "none") \in Message
        BY <1>2, NewTagsAreTags, NewIsMessage DEF OriginateAndRequeue, Message, Safe
    <2>2. SetState(New("REGISTER", tag, "user", m.qtag, "none"),
                   "REQUEST_MSG_DELIVERY").due = 0
        BY NewIsDue, NewDue
    <2>. QED  BY <1>1, <1>2, <2>1, <2>2, OriginateInOrder DEF sm_state
<1>3. ASSUME Requeue(SetState(m, "DELETE_ME_STATE")) PROVE NoneHeldUp
    BY <1>1, <1>3, RequeueInOrder
<1>. QED  BY <1>2, <1>3 DEF RegisterHandset

\* The times come down together, to no less than -MaxLate.
LEMMA TickInOrder ==
    ASSUME Safe, Tick
    PROVE  NoneHeldUp
<1>. USE DEF Safe
<1>1. \A i \in DOMAIN time_sorted_list :
          /\ time_sorted_list[i] \in Ids /\ time_sorted_list[i] \in Queued
          /\ msg[time_sorted_list[i]] \in Message
    BY DEF ListInv, ListComplete, TypeOK, Queued, ToSet
<1>2. \A i \in DOMAIN time_sorted_list :
          LET id == time_sorted_list[i]
          IN  /\ msg[id].due \in Int /\ msg'[id].due \in Int
              /\ msg'[id].due = IF msg[id].due > -MaxLate THEN msg[id].due - 1
                                ELSE msg[id].due
    BY <1>1 DEF Tick, Message
<1>3. MaxLate \in Nat /\ time_sorted_list' = time_sorted_list
    BY ManagerAssumption DEF Tick
<1>4. ASSUME NEW b, Held(time_sorted_list, msg', b)
      PROVE  Held(time_sorted_list, msg, b)
    <2>1. PICK i \in DOMAIN time_sorted_list, j \in DOMAIN time_sorted_list :
              /\ i < j /\ time_sorted_list[j] = b
              /\ msg'[time_sorted_list[i]].due > 0 /\ msg'[time_sorted_list[i]].due > msg'[b].due
        BY <1>4 DEF Held
    <2>. DEFINE w == msg[time_sorted_list[i]].due
                v == msg[b].due
                c == msg'[time_sorted_list[i]].due
                d == msg'[b].due
    <2>2. /\ w \in Int /\ v \in Int
          /\ c = IF w > -MaxLate THEN w - 1 ELSE w
          /\ d = IF v > -MaxLate THEN v - 1 ELSE v
          /\ c > 0 /\ c > d
        BY <1>2, <2>1
    <2>. HIDE DEF w, v, c, d
    <2>3. w > 0 /\ w > v
        BY <1>3, <2>2
    <2>. QED  BY <2>1, <2>3 DEF Held, w, v
<1>. QED  BY <1>3, <1>4 DEF NoneHeldUp

\* Every other step, in which no time changes in place.
LEMMA OtherOrderKept ==
    ASSUME Safe, [Next]_vars, ~HandleResponse, ~RateLimit
    PROVE  NoneHeldUp
<1>. USE DEF Safe
<1>1. ASSUME ReceiveRequest \/ ReceiveResponse PROVE NoneHeldUp
    BY <1>1, ArriveInOrder DEF ReceiveRequest, ReceiveResponse
<1>2. ASSUME RejectMethod \/ OrdinaryMessage PROVE NoneHeldUp
    BY <1>2, MoveToInOrder DEF RejectMethod, OrdinaryMessage, Due, NonEmpty, sm_state
<1>3. ASSUME HandleShortCode PROVE NoneHeldUp
    <2>1. NonEmpty
        BY <1>3 DEF HandleShortCode, ShortCodeReply, ShortCodeError, ShortCodeDone,
                    ShortCodeAwait, ShortCodeRegister, ShortCodeRestart, ShortCodeRetry,
                    ShortCodeQuit, ShortCode, Due, NonEmpty
    <2>2. ASSUME NEW tag \in NewTags,
                 OriginateAndRequeue(New("MESSAGE", tag, "user", NoTag, "none"),
                                     "REQUEST_DESTINATION_SIPURL",
                                     SetState(msg[qmsg], "DELETE_ME_STATE"))
          PROVE  NoneHeldUp
        <3>1. New("MESSAGE", tag, "user", NoTag, "none") \in Message
            BY <2>2, NewTagsAreTags, NewIsMessage DEF OriginateAndRequeue, Tags
        <3>2. SetState(msg[qmsg], "DELETE_ME_STATE") \in Message
            BY <2>1, FrontType, SetStateIsMessage DEF sm_state
        <3>3. SetState(New("MESSAGE", tag, "user", NoTag, "none"),
                       "REQUEST_DESTINATION_SIPURL").due = 0
            BY NewIsDue, NewDue DEF BounceStates
        <3>. QED  BY <2>1, <2>2, <3>1, <3>2, <3>3, OriginateInOrder DEF sm_state
    <2>3. ASSUME NEW s \in sm_state, MoveTo(s) PROVE NoneHeldUp
        BY <2>1, <2>3, MoveToInOrder
    <2>4. ASSUME ShortCodeReply PROVE NoneHeldUp
        BY <2>2, <2>3, <2>4 DEF ShortCodeReply, sm_state
    <2>5. ASSUME ShortCodeError \/ ShortCodeDone \/ ShortCodeAwait \/ ShortCodeRestart
          PROVE  NoneHeldUp
        BY <2>3, <2>5 DEF ShortCodeError, ShortCodeDone, ShortCodeAwait,
                          ShortCodeRestart, sm_state
    <2>6. ASSUME ShortCodeRegister PROVE NoneHeldUp
        BY <2>1, <2>6, FrontType, RegisterHandsetInOrder DEF ShortCodeRegister
    <2>7. ASSUME ShortCodeRetry PROVE NoneHeldUp
        <3>1. [msg[qmsg] EXCEPT !.retries = @ + 1] \in Message
            BY <2>1, FrontType DEF Message
        <3>2. SetState([msg[qmsg] EXCEPT !.retries = @ + 1],
                       "REQUEST_FROM_ADDRESS_LOOKUP") \in Message
            BY <3>1, SetStateIsMessage DEF sm_state
        <3>. QED  BY <2>1, <2>7, <3>2, RequeueInOrder DEF ShortCodeRetry
    <2>8. ASSUME ShortCodeQuit PROVE NoneHeldUp
        <3>1. SetState(msg[qmsg], "DELETE_ME_STATE") \in Message
            BY <2>1, FrontType, SetStateIsMessage DEF sm_state
        <3>. QED  BY <2>1, <2>8, <3>1, RequeueInOrder DEF ShortCodeQuit
    <2>. QED  BY <1>3, <2>4, <2>5, <2>6, <2>7, <2>8 DEF HandleShortCode
<1>4. ASSUME DeleteMessage PROVE NoneHeldUp
    <2>1. NonEmpty /\ time_sorted_list' = Rest
        BY <1>4 DEF DeleteMessage, Due, NonEmpty
    <2>2. \A x \in ToSet(Rest) : x \in Ids /\ x # qmsg
        BY <2>1, FrontQueued
    <2>3. \A x \in ToSet(Rest) : msg'[x].due = msg[x].due
        BY <1>4, <2>2 DEF DeleteMessage, Delete, Cleared
    <2>4. ASSUME NEW b, Held(Rest, msg', b) PROVE Held(time_sorted_list, msg, b)
        <3>1. Held(Rest, msg, b)
            BY <2>3, <2>4, HeldSame
        <3>. QED  BY <2>1, <3>1, HeldTail DEF TypeOK, NonEmpty, Rest
    <2>. QED  BY <2>1, <2>4 DEF NoneHeldUp
<1>5. ASSUME LookupFromAddress PROVE NoneHeldUp
    <2>. DEFINE m == IF msg[qmsg].state \in Unexpected
                     THEN SetState(msg[qmsg], "INITIAL_STATE") ELSE msg[qmsg]
    <2>1. NonEmpty
        BY <1>5 DEF LookupFromAddress, Due, NonEmpty
    <2>2. m \in Message
        BY <2>1, FrontType, SetStateIsMessage DEF sm_state
    <2>3. PICK newstate \in {"NO_STATE", "REQUEST_DESTINATION_IMSI"} :
              Requeue(SetState(m, newstate))
        BY <1>5 DEF LookupFromAddress
    <2>. HIDE DEF m
    <2>4. SetState(m, newstate) \in Message
        BY <2>2, <2>3, SetStateIsMessage DEF sm_state
    <2>. QED  BY <2>1, <2>3, <2>4, RequeueInOrder
<1>6. ASSUME LookupUriImsi PROVE NoneHeldUp
    <2>1. NonEmpty
        BY <1>6 DEF LookupUriImsi, Due, NonEmpty
    <2>2. ASSUME MoveTo("NO_STATE") \/ MoveTo("REQUEST_DESTINATION_SIPURL") PROVE NoneHeldUp
        BY <2>1, <2>2, MoveToInOrder DEF sm_state
    <2>3. ASSUME NEW tag \in NewTags, NEW first \in BounceStates,
                 OriginateAndRequeue(Bounce(tag), first,
                                     SetState(msg[qmsg], "DELETE_ME_STATE"))
          PROVE  NoneHeldUp
        <3>1. Bounce(tag) \in Message
            BY <2>3, NewTagsAreTags, NewIsMessage DEF OriginateAndRequeue, Bounce, Tags
        <3>2. SetState(msg[qmsg], "DELETE_ME_STATE") \in Message
            BY <2>1, FrontType, SetStateIsMessage DEF sm_state
        <3>3. first \in sm_state
            BY DEF BounceStates, sm_state
        <3>4. SetState(Bounce(tag), first).due = 0
            BY NewIsDue, NewDue DEF Bounce
        <3>. QED  BY <2>1, <2>3, <3>1, <3>2, <3>3, <3>4, OriginateInOrder
    <2>. QED  BY <1>6, <2>2, <2>3 DEF LookupUriImsi
<1>7. ASSUME CrashInLookup \/ UNCHANGED vars PROVE NoneHeldUp
    BY <1>7 DEF CrashInLookup, vars, NoneHeldUp, Held
<1>8. ASSUME LookupUriHostport \/ NoAnswer \/ AwaitRegister \/ NoRegisterAnswer
      PROVE  NoneHeldUp
    BY <1>8, MoveToInOrder DEF LookupUriHostport, NoAnswer, AwaitRegister,
                               NoRegisterAnswer, Due, NonEmpty, sm_state
<1>9. ASSUME PackFails \/ DropAfterRetries \/ Deliver PROVE NoneHeldUp
    <2>1. NonEmpty
        BY <1>9 DEF PackFails, DropAfterRetries, Deliver, Delivering, Due, NonEmpty
    <2>2. /\ SetState(Attempt, "NO_STATE") \in Message
          /\ SetState(Packed, "DELETE_ME_STATE") \in Message
          /\ SetState(Packed, "ASKED_FOR_MSG_DELIVERY") \in Message
        BY <2>1, AttemptType, SetStateIsMessage DEF sm_state
    <2>. QED  BY <1>9, <2>1, <2>2, RequeueInOrder DEF PackFails, DropAfterRetries, Deliver
<1>10. ASSUME Register PROVE NoneHeldUp
    <2>1. NonEmpty
        BY <1>10 DEF Register, Due, NonEmpty
    <2>2. SetState(msg[qmsg], "REGISTER_HANDSET") \in Message
        BY <2>1, FrontType, SetStateIsMessage DEF sm_state
    <2>. QED  BY <1>10, <2>1, <2>2, RegisterHandsetInOrder DEF Register
<1>. QED  BY <1>1, <1>2, <1>3, <1>4, <1>5, <1>6, <1>7, <1>8, <1>9, <1>10, TickInOrder
          DEF Next, ProcessTimeout

\* The exceptions of OrderKept for b.
Excepted(b) ==
    \/ b \in AnsweredNow
    \/ \E a \in AnsweredNow \cup PutOffNow : Blocks(a, b)'

LEMMA ExceptedIs ==
    ASSUME NEW C, C \subseteq AnsweredNow \cup PutOffNow, NEW b,
           \E a \in C : Ahead(time_sorted_list', msg', a, b)
    PROVE  Excepted(b)
BY DEF Excepted, Blocks, Later, Ahead

\* A response leaves, and q is what follows it; but for the message that it answers and the
\* one behind that, the messages in q keep their times.
LEMMA ResponseInOrder ==
    ASSUME Safe, NEW statuses, Response(statuses), Matches # {},
           \A x \in ToSet(time_sorted_list') \ AnsweredNow : msg'[x].due = msg[x].due,
           \A b : Held(time_sorted_list', msg, b) => Held(Rest, msg, b),
           NEW b, Held(time_sorted_list', msg', b)
    PROVE  Excepted(b) \/ Held(time_sorted_list, msg, b)
<1>1. \/ b \in AnsweredNow
      \/ \E a \in AnsweredNow : Ahead(time_sorted_list', msg', a, b)
      \/ Held(time_sorted_list', msg, b)
    BY HeldChanged
<1>2. ASSUME Held(time_sorted_list', msg, b) PROVE Held(time_sorted_list, msg, b)
    <2>1. Held(Rest, msg, b)
        BY <1>2
    <2>2. NonEmpty /\ time_sorted_list \in Seq(Ids)
        BY FrontResponse DEF Safe, TypeOK
    <2>. QED  BY <2>1, <2>2, HeldTail DEF NonEmpty, Rest
<1>. QED  BY <1>1, <1>2, ExceptedIs DEF Excepted

\* The one it answers is among them.
LEMMA ResponseAnswers ==
    ASSUME Safe, NEW statuses, Response(statuses), Matches # {}
    PROVE  /\ NonEmpty /\ SentId \in AnsweredNow /\ (Reruns => LinkedId \in AnsweredNow)
           /\ SentId \in Ids /\ SentId # qmsg /\ qmsg \in Ids /\ Rest \in Seq(Ids)
           /\ msg[SentId] \in Message
           /\ SentPos \in 1..Len(Rest)
           /\ \A x \in ToSet(Rest) : x \in Ids /\ x # qmsg
<1>1. NonEmpty /\ ToSet(Rest) = Queued \ {qmsg}
    BY FrontResponse
<1>2. SentId \in AnsweredNow /\ (Reruns => LinkedId \in AnsweredNow)
    BY DEF Response, Due, AnsweredNow
<1>3. /\ SentId \in Ids /\ SentId \in ToSet(Rest) /\ SentPos \in 1..Len(Rest)
      /\ msg[SentId] \in Message /\ qmsg \in Ids /\ Rest \in Seq(Ids)
    BY <1>1, SentType, FrontType DEF Safe
<1>4. \A x \in ToSet(Rest) : x \in Ids /\ x # qmsg
    BY <1>1, FrontQueued DEF Safe
<1>. QED  BY <1>1, <1>2, <1>3, <1>4

LEMMA AnsweredInOrder ==
    ASSUME Safe, NEW statuses, Response(statuses), Matches # {}, NEW m, Answered(m),
           NEW b, Held(time_sorted_list', msg', b)
    PROVE  Excepted(b) \/ Held(time_sorted_list, msg, b)
<1>1. time_sorted_list' = Rest /\ msg' = [msg EXCEPT ![qmsg] = Nobody, ![SentId] = m]
    BY DEF Answered
<1>2. \A x \in ToSet(Rest) \ AnsweredNow : x \in Ids /\ x # qmsg /\ x # SentId
    BY ResponseAnswers
<1>3. \A x \in ToSet(time_sorted_list') \ AnsweredNow : msg'[x].due = msg[x].due
    BY <1>1, <1>2 DEF Safe, TypeOK
<1>4. \A c : Held(time_sorted_list', msg, c) => Held(Rest, msg, c)
    BY <1>1
<1>. QED  BY <1>3, <1>4, ResponseInOrder

LEMMA DeliveredInOrder ==
    ASSUME Safe, ResponseDelivered, NEW b, Held(time_sorted_list', msg', b)
    PROVE  Excepted(b) \/ Held(time_sorted_list, msg, b)
<1>1. /\ Response({"2xx"}) /\ Matches # {}
      /\ time_sorted_list' = RemoveAt(Rest, SentPos)
      /\ \A x \in Ids : x \notin {qmsg, SentId} /\ ~(Reruns /\ x = LinkedId) => msg'[x] = msg[x]
    BY DEF ResponseDelivered
<1>2. /\ \A x \in ToSet(Rest) \ AnsweredNow :
             x \in Ids /\ x \notin {qmsg, SentId} /\ ~(Reruns /\ x = LinkedId)
      /\ Rest \in Seq(Ids) /\ SentPos \in 1..Len(Rest)
    BY <1>1, ResponseAnswers
<1>3. ToSet(time_sorted_list') \subseteq ToSet(Rest)
    <2>1. Distinct(Rest)
        BY <1>1, FrontResponse
    <2>. QED  BY <1>1, <1>2, <2>1, RemoveAtElements
<1>4. \A x \in ToSet(time_sorted_list') \ AnsweredNow : msg'[x].due = msg[x].due
    BY <1>1, <1>2, <1>3
<1>5. \A c : Held(time_sorted_list', msg, c) => Held(Rest, msg, c)
    BY <1>1, <1>2, HeldRemove
<1>. QED  BY <1>1, <1>4, <1>5, ResponseInOrder

LEMMA BouncesInOrder ==
    ASSUME Safe, ResponseBounces, NEW b, Held(time_sorted_list', msg', b)
    PROVE  Excepted(b) \/ Held(time_sorted_list, msg, b)
<1>. USE DEF Safe
<1>1. Response({"4xx"}) /\ Matches # {}
    BY DEF ResponseBounces
<1>2. CASE Answered(SetState(msg[SentId], "NO_STATE"))
    BY <1>1, <1>2, AnsweredInOrder
<1>3. ASSUME NEW tag \in NewTags, NEW first \in BounceStates, created < MaxMsgs,
             time_sorted_list' = <<created + 1>> \o Rest,
             msg' = [msg EXCEPT ![qmsg] = Nobody,
                                ![created + 1] = SetState(Bounce(tag), first),
                                ![SentId] = SetState(msg[SentId], "DELETE_ME_STATE")]
      PROVE  Excepted(b) \/ Held(time_sorted_list, msg, b)
    <2>. DEFINE new == created + 1
                m == [msg EXCEPT ![new] = SetState(Bounce(tag), first)]
    <2>1. new \in Ids /\ new \notin Queued
        <3>1. new \in Ids
            BY <1>3, ManagerAssumption DEF TypeOK, Ids
        <3>2. new \notin Queued
            BY ManagerAssumption DEF TypeOK, ListInv
        <3>. QED  BY <3>1, <3>2
    <2>2. /\ SentId \in AnsweredNow /\ NonEmpty /\ Rest \in Seq(Ids)
          /\ \A x \in ToSet(Rest) : x \in Ids /\ x # qmsg /\ x # new
        BY <1>1, <2>1, ResponseAnswers, FrontResponse
    <2>3. SetState(Bounce(tag), first).due = 0
        BY NewIsDue, NewDue DEF Bounce
    <2>4. m[new].due = 0 /\ \A x \in ToSet(Rest) : m[x].due = msg[x].due
        BY <2>1, <2>2, <2>3 DEF TypeOK
    <2>5. ToSet(time_sorted_list') \subseteq ToSet(Rest) \cup {new}
        BY <1>3, <2>1, <2>2, ConsElements
    <2>6. new # qmsg
        BY <2>1, <2>2, FrontQueued
    <2>7. \A x \in ToSet(time_sorted_list') \ AnsweredNow : msg'[x].due = m[x].due
        BY <1>3, <2>1, <2>2, <2>5, <2>6 DEF TypeOK
    <2>. HIDE DEF m
    <2>8. \/ b \in AnsweredNow
          \/ \E a \in AnsweredNow : Ahead(time_sorted_list', msg', a, b)
          \/ Held(time_sorted_list', m, b)
        BY <2>7, HeldChanged
    <2>9. ASSUME Held(time_sorted_list', m, b) PROVE Held(time_sorted_list, msg, b)
        <3>1. Held(Rest, m, b)
            BY <1>3, <2>1, <2>2, <2>4, <2>9, HeldCons
        <3>2. Held(Rest, msg, b)
            BY <2>4, <3>1, HeldSame
        <3>. QED  BY <2>2, <3>2, HeldTail DEF TypeOK, NonEmpty, Rest
    <2>. QED  BY <2>8, <2>9, ExceptedIs DEF Excepted
<1>. QED  BY <1>2, <1>3 DEF ResponseBounces

LEMMA HandleResponseInOrder ==
    ASSUME Safe, HandleResponse, NEW b, Held(time_sorted_list', msg', b)
    PROVE  Excepted(b) \/ Held(time_sorted_list, msg, b)
<1>1. CASE IgnoreResponse
    <2>1. NonEmpty /\ time_sorted_list' = Rest /\ \A x \in ToSet(Rest) : x \in Ids /\ x # qmsg
        BY <1>1, FrontResponse, FrontQueued DEF IgnoreResponse, Safe
    <2>2. \A x \in ToSet(Rest) : msg'[x].due = msg[x].due
        BY <1>1, <2>1 DEF IgnoreResponse, Delete, Cleared
    <2>3. Held(Rest, msg, b)
        BY <2>1, <2>2, HeldSame
    <2>. QED  BY <2>1, <2>3, HeldTail DEF Safe, TypeOK, NonEmpty, Rest
<1>2. CASE ResponseDefers
    BY <1>2, AnsweredInOrder DEF ResponseDefers
<1>3. CASE ResponseRedirects
    BY <1>3, AnsweredInOrder DEF ResponseRedirects
<1>. QED  BY <1>1, <1>2, <1>3, DeliveredInOrder, BouncesInOrder DEF HandleResponse

LEMMA RateLimitInOrder ==
    ASSUME Safe, RateLimit, NEW b, Held(time_sorted_list', msg', b)
    PROVE  Excepted(b) \/ Held(time_sorted_list, msg, b)
<1>. USE DEF Safe
<1>. DEFINE m == [msg EXCEPT ![qmsg] = Packed]
<1>1. /\ NonEmpty /\ PutOffNow = {qmsg}
      /\ msg' = [msg EXCEPT ![qmsg] = [Packed EXCEPT !.due = @ + msSMSRateLimit]]
      /\ \/ time_sorted_list' = time_sorted_list
         \/ time_sorted_list' = InsertByTime(Rest, m, qmsg)
    BY DEF RateLimit, PutOffNow, Delivering, Due, NonEmpty
<1>2. /\ qmsg \in Ids /\ Rest \in Seq(Ids) /\ m \in [Ids -> Message]
      /\ \A x \in Ids : m[x].due \in Int
      /\ \A x \in ToSet(Rest) : x \in Ids /\ x # qmsg
    <2>1. m \in [Ids -> Message] /\ qmsg \in Ids /\ Rest \in Seq(Ids)
        BY <1>1, AttemptType, FrontType DEF TypeOK
    <2>2. \A x \in Ids : m[x].due \in Int
        BY <2>1 DEF Message
    <2>. QED  BY <1>1, <2>1, <2>2, FrontQueued
<1>3. \A x \in Ids : x # qmsg => msg'[x] = msg[x] /\ m[x] = msg[x]
    BY <1>1 DEF TypeOK
<1>. HIDE DEF m
<1>4. CASE time_sorted_list' = time_sorted_list
    <2>1. \A x \in ToSet(time_sorted_list') \ {qmsg} : msg'[x].due = msg[x].due
        BY <1>1, <1>3, <1>4, FrontQueued DEF Queued
    <2>2. \/ b \in {qmsg}
          \/ \E a \in {qmsg} : Ahead(time_sorted_list', msg', a, b)
          \/ Held(time_sorted_list', msg, b)
        BY <2>1, HeldChanged
    <2>3. b # qmsg
        <3>1. PICK i \in DOMAIN time_sorted_list, j \in DOMAIN time_sorted_list :
                  i < j /\ time_sorted_list[j] = b
            BY <1>4 DEF Held
        <3>2. 1 \in DOMAIN time_sorted_list /\ time_sorted_list[1] = qmsg /\ j # 1
            <4>1. /\ time_sorted_list \in Seq(Ids)
                  /\ Len(time_sorted_list) \in Nat
                  /\ DOMAIN time_sorted_list = 1..Len(time_sorted_list)
                BY LenProperties DEF TypeOK
            <4>2. Head(time_sorted_list) = time_sorted_list[1]
                BY <1>1, <4>1, HeadTailProperties DEF NonEmpty
            <4>3. 1 \in DOMAIN time_sorted_list /\ j # 1
                BY <3>1, <4>1
            <4>. QED  BY <4>2, <4>3 DEF qmsg
        <3>. QED  BY <3>1, <3>2 DEF ListInv, ListComplete, Distinct
    <2>. QED  BY <1>1, <1>4, <2>2, <2>3, ExceptedIs
<1>5. CASE time_sorted_list' = InsertByTime(Rest, m, qmsg)
    <2>1. ToSet(time_sorted_list') \subseteq ToSet(Rest) \cup {qmsg}
        <3>1. Distinct(Rest) /\ qmsg \notin ToSet(Rest)
            BY <1>1, FrontQueued
        <3>2. ToSet(InsertByTime(Rest, m, qmsg)) = ToSet(Rest) \cup {qmsg}
            <4>1. Rest \in Seq(Ids) /\ qmsg \in Ids /\ \A x \in Ids : m[x].due \in Int
                BY <1>2
            <4>. QED  BY <4>1, InsertByTimeElements
        <3>. QED  BY <1>5, <3>2
    <2>2. \A x \in ToSet(time_sorted_list') \ {qmsg} : msg'[x].due = m[x].due
        BY <1>2, <1>3, <2>1
    <2>3. \/ \E a \in {qmsg} : Ahead(time_sorted_list', msg', a, b)
          \/ Held(time_sorted_list', m, b)
        <3>1. CASE b # qmsg
            <4>1. \/ b \in {qmsg}
                  \/ \E a \in {qmsg} : Ahead(time_sorted_list', msg', a, b)
                  \/ Held(time_sorted_list', m, b)
                BY <2>2, HeldChanged
            <4>. QED  BY <3>1, <4>1
        <3>2. CASE b = qmsg
            <4>1. PICK i \in DOMAIN time_sorted_list', j \in DOMAIN time_sorted_list' :
                      /\ i < j /\ time_sorted_list'[j] = b
                      /\ msg'[time_sorted_list'[i]].due > 0
                      /\ msg'[time_sorted_list'[i]].due > msg'[b].due
                BY DEF Held
            <4>2. CASE time_sorted_list'[i] = qmsg
                BY <4>1, <4>2 DEF Ahead
            <4>3. CASE time_sorted_list'[i] # qmsg
                <5>. DEFINE x == time_sorted_list'[i]
                <5>1. x \in ToSet(Rest)
                    BY <2>1, <4>3 DEF ToSet
                <5>2. msg'[x] = m[x] /\ m[x].due \in Int /\ m[b].due \in Int
                    BY <1>2, <1>3, <3>2, <4>3, <5>1
                <5>3. msg'[b].due = m[b].due + msSMSRateLimit /\ msSMSRateLimit \in Nat
                    <6>1. Packed \in Message
                        BY <1>1, AttemptType
                    <6>2. m[b] = Packed /\ msg'[b] = [Packed EXCEPT !.due = @ + msSMSRateLimit]
                        BY <1>1, <1>2, <3>2 DEF m, TypeOK
                    <6>. QED  BY <6>1, <6>2, RateLimitInNat DEF Message
                <5>4. m[x].due > 0 /\ m[x].due > m[b].due
                    BY <4>1, <5>2, <5>3
                <5>. QED  BY <4>1, <5>4 DEF Held
            <4>. QED  BY <4>2, <4>3
        <3>. QED  BY <3>1, <3>2
    <2>4. ASSUME Held(time_sorted_list', m, b) PROVE Held(time_sorted_list, msg, b)
        <3>1. Held(Rest, m, b)
            BY <1>2, <1>5, <2>4, HeldInsert
        <3>2. Held(Rest, msg, b)
            BY <1>2, <1>3, <3>1, HeldSame
        <3>. QED  BY <1>1, <3>2, HeldTail DEF TypeOK, NonEmpty, Rest
    <2>. QED  BY <1>1, <2>3, <2>4, ExceptedIs
<1>. QED  BY <1>1, <1>4, <1>5

LEMMA OrderKeptStep ==
    ASSUME Safe, [Next]_vars
    PROVE  \A b \in HeldUp' \ HeldUp : Excepted(b)
<1>. SUFFICES ASSUME NEW b, Held(time_sorted_list', msg', b)
              PROVE  Excepted(b) \/ Held(time_sorted_list, msg, b)
    BY HeldUpIsHeld
<1>1. CASE ~HandleResponse /\ ~RateLimit
    BY <1>1, OtherOrderKept DEF NoneHeldUp
<1>. QED  BY <1>1, HandleResponseInOrder, RateLimitInOrder

\* In any list and under every step, a message comes to wait for one due later only where a
\* response or the rate limit moves the time of one of the two: whatever is put in goes to
\* its place, what enters at the front is due, and what leaves lets nothing pass.
THEOREM KeptInOrder == Spec => OrderKept
<1>1. Safe /\ [Next]_vars => [OnlyMovedHoldUp]_vars
    <2>. SUFFICES ASSUME Safe, [Next]_vars PROVE OnlyMovedHoldUp
        OBVIOUS
    <2>1. \A b \in HeldUp' \ HeldUp : Excepted(b)
        BY OrderKeptStep
    <2>. QED  BY <2>1, Zenon DEF Excepted, OnlyMovedHoldUp
<1>. QED  BY <1>1, Safety, PTL DEF Spec, OrderKept

--------------------------------------------------------------------------------
(* The time between two sends *)

\* A message that was sent less than ResendGap ago waits for its answer, for 15 s at
\* least, or to be sent again, 60 s later; or it is finished.
Spaced(n, m) ==
    \/ n >= ResendGap
    \/ m.state \in {"NO_STATE", "DELETE_ME_STATE"}
    \/ /\ m.state = "ASKED_FOR_MSG_DELIVERY"
       /\ n >= Ticks[15000] \/ n + m.due >= Ticks[15000]
    \/ /\ m.state = "AWAITING_TRY_MSG_DELIVERY"
       /\ n >= Ticks[15000]
       /\ n + m.due >= ResendGap

SpacedInv ==
    \A id \in Ids :
        /\ id \notin Queued => waited[id] >= ResendGap
        /\ id \in Queued => Spaced(waited[id], msg[id])

Moving == {"NO_STATE", "DELETE_ME_STATE", "ASKED_FOR_MSG_DELIVERY",
           "AWAITING_TRY_MSG_DELIVERY"}

LEMMA GapInNat ==
    /\ ResendGap \in Nat /\ Ticks[15000] \in Nat /\ Ticks[60000] \in Nat
    /\ ResendGap = Ticks[15000] + Ticks[60000]
    /\ Ticks[15000] <= Ticks[60000]
BY TicksAssumption DEF ResendGap, Delays

LEMMA DeliveryDelays ==
    /\ Timeout("REQUEST_MSG_DELIVERY", "ASKED_FOR_MSG_DELIVERY") = 15000
    /\ Timeout("ASKED_FOR_MSG_DELIVERY", "AWAITING_TRY_MSG_DELIVERY") = 60000
BY DEF Timeout, Immediate

\* The front message was sent long ago, unless it is on its way out.
LEMMA FrontRested ==
    ASSUME Safe, SpacedInv, NonEmpty,
           \/ msg[qmsg].state \notin Moving
           \/ msg[qmsg].state = "AWAITING_TRY_MSG_DELIVERY" /\ msg[qmsg].due <= 0
    PROVE  waited[qmsg] >= ResendGap
<1>1. qmsg \in Ids /\ qmsg \in Queued /\ waited[qmsg] \in Nat /\ msg[qmsg].due \in Int
    BY FrontType, FrontQueued DEF Safe, TypeOK
<1>2. Spaced(waited[qmsg], msg[qmsg])
    BY <1>1 DEF SpacedInv
<1>. QED  BY <1>1, <1>2, GapInNat DEF Spaced, Moving

LEMMA RequeueSpaced ==
    ASSUME Safe, SpacedInv, NonEmpty, NEW m \in Message, Requeue(m), UNCHANGED waited,
           Spaced(waited[qmsg], m)
    PROVE  SpacedInv'
<1>1. /\ Queued' = Queued
      /\ \A id \in Ids : msg'[id] = IF id = qmsg THEN m ELSE msg[id]
    BY RequeueList DEF Safe
<1>2. ASSUME NEW id \in Ids
      PROVE  /\ id \notin Queued' => waited'[id] >= ResendGap
             /\ id \in Queued' => Spaced(waited'[id], msg'[id])
    <2>1. CASE id = qmsg  BY <1>1, <2>1, FrontQueued DEF Safe
    <2>2. CASE id # qmsg  BY <1>1, <2>2 DEF SpacedInv
    <2>. QED  BY <2>1, <2>2
<1>. QED  BY <1>2 DEF SpacedInv, Spaced, ResendGap

LEMMA MoveToSpaced ==
    ASSUME Safe, SpacedInv, NonEmpty, NEW s \in sm_state, MoveTo(s),
           \/ s \in {"NO_STATE", "DELETE_ME_STATE"}
           \/ msg[qmsg].state \notin Moving
    PROVE  SpacedInv'
<1>1. SetState(msg[qmsg], s) \in Message /\ SetState(msg[qmsg], s).state = s
    BY FrontType, SetStateIsMessage DEF Safe, SetState, Message
<1>2. Spaced(waited[qmsg], SetState(msg[qmsg], s))
    BY <1>1, FrontRested DEF Spaced
<1>. QED  BY <1>1, <1>2, RequeueSpaced DEF MoveTo

LEMMA OriginateSpaced ==
    ASSUME Safe, SpacedInv, NonEmpty, NEW m \in Message, NEW first \in sm_state,
           NEW moved \in Message, OriginateAndRequeue(m, first, moved),
           Spaced(waited[qmsg], moved)
    PROVE  SpacedInv'
<1>. DEFINE new == created + 1
<1>1. /\ new \in Ids /\ new \notin Queued /\ new # qmsg
      /\ Queued' = Queued \cup {new}
      /\ \A id \in Ids : msg'[id] = IF id = qmsg THEN moved
                                    ELSE IF id = new THEN SetState(m, first)
                                    ELSE msg[id]
    BY OriginateList DEF Safe
<1>2. waited' = waited
    BY DEF OriginateAndRequeue
<1>. HIDE DEF new
<1>3. ASSUME NEW id \in Ids
      PROVE  /\ id \notin Queued' => waited'[id] >= ResendGap
             /\ id \in Queued' => Spaced(waited'[id], msg'[id])
    <2>1. CASE id = qmsg  BY <1>1, <1>2, <2>1, FrontQueued DEF Safe
    <2>2. CASE id = new  BY <1>1, <1>2, <2>2 DEF SpacedInv, Spaced
    <2>3. CASE id # qmsg /\ id # new  BY <1>1, <1>2, <2>3 DEF SpacedInv
    <2>. QED  BY <2>1, <2>2, <2>3
<1>. QED  BY <1>3 DEF SpacedInv, Spaced, ResendGap

LEMMA RegisterHandsetSpaced ==
    ASSUME Safe, SpacedInv, NonEmpty, NEW m \in Message, RegisterHandset(m),
           msg[qmsg].state \notin Moving
    PROVE  SpacedInv'
<1>1. SetState(m, "DELETE_ME_STATE") \in Message
      /\ SetState(m, "ASKED_TO_REGISTER_HANDSET") \in Message
    BY SetStateIsMessage DEF sm_state
<1>2. \A n : Spaced(waited[qmsg], n)
    BY FrontRested DEF Spaced
<1>3. ASSUME NEW tag \in NewTags,
             OriginateAndRequeue(New("REGISTER", tag, "user", m.qtag, "none"),
                                 "REQUEST_MSG_DELIVERY",
                                 SetState(m, "ASKED_TO_REGISTER_HANDSET"))
      PROVE  SpacedInv'
    <2>1. New("REGISTER", tag, "user", m.qtag, "none") \in Message
        BY <1>3, NewTagsAreTags, NewIsMessage DEF OriginateAndRequeue, Message, Safe
    <2>. QED  BY <1>1, <1>2, <1>3, <2>1, OriginateSpaced DEF sm_state
<1>4. ASSUME Requeue(SetState(m, "DELETE_ME_STATE")), UNCHANGED waited PROVE SpacedInv'
    BY <1>1, <1>2, <1>4, RequeueSpaced
<1>. QED  BY <1>3, <1>4 DEF RegisterHandset

LEMMA ArriveSpaced ==
    ASSUME Safe, SpacedInv, NEW m \in Message, Arrive(m)
    PROVE  SpacedInv'
<1>. DEFINE new == created + 1
<1>1. new \in Ids /\ new \notin Queued
    <2>1. new \in Ids
        BY ManagerAssumption DEF Arrive, TypeOK, Ids, Safe
    <2>2. new \notin Queued
        BY ManagerAssumption DEF TypeOK, ListInv, Safe
    <2>. QED  BY <2>1, <2>2
<1>2. /\ time_sorted_list' = <<new>> \o time_sorted_list /\ waited' = waited
      /\ \A id \in Ids : id # new => msg'[id] = msg[id]
    BY DEF Arrive, Safe, TypeOK
<1>. HIDE DEF new
<1>3. Queued' = Queued \cup {new}
    BY <1>1, <1>2, ConsElements DEF Safe, TypeOK, Queued
<1>4. ASSUME NEW id \in Ids
      PROVE  /\ id \notin Queued' => waited'[id] >= ResendGap
             /\ id \in Queued' => Spaced(waited'[id], msg'[id])
    <2>1. CASE id = new  BY <1>1, <1>2, <2>1 DEF SpacedInv, Spaced
    <2>2. CASE id # new  BY <1>2, <1>3, <2>2 DEF SpacedInv
    <2>. QED  BY <2>1, <2>2
<1>. QED  BY <1>4 DEF SpacedInv, Spaced, ResendGap

LEMMA TickSpaced ==
    ASSUME Safe, SpacedInv, Tick
    PROVE  SpacedInv'
<1>1. Queued' = Queued
    BY DEF Tick, Queued
<1>2. ASSUME NEW id \in Ids, id \in Queued PROVE Spaced(waited'[id], msg'[id])
    <2>1. msg[id] \in Message /\ waited[id] \in Nat /\ Spaced(waited[id], msg[id])
        BY <1>2 DEF Safe, TypeOK, SpacedInv
    <2>2. /\ msg'[id] = IF msg[id].due > -MaxLate THEN [msg[id] EXCEPT !.due = @ - 1]
                        ELSE msg[id]
          /\ waited'[id] = IF waited[id] < ResendGap THEN waited[id] + 1 ELSE waited[id]
        BY <1>2 DEF Tick
    <2>3. /\ msg[id].due \in Int /\ msg'[id].due \in Int
          /\ msg'[id].state = msg[id].state
          /\ msg'[id].due >= msg[id].due - 1
        BY <2>1, <2>2 DEF Message
    <2>. QED  BY <2>1, <2>2, <2>3, GapInNat DEF Spaced
<1>3. ASSUME NEW id \in Ids, id \notin Queued PROVE waited'[id] >= ResendGap
    BY <1>3 DEF Tick, SpacedInv
<1>. QED  BY <1>1, <1>2, <1>3 DEF SpacedInv, Spaced, ResendGap

\* The front message is finished: it leaves the list.
LEMMA DropFrontSpaced ==
    ASSUME Safe, SpacedInv, NonEmpty, time_sorted_list' = Rest, Delete({qmsg})
    PROVE  SpacedInv'
<1>1. Queued' = Queued \ {qmsg}
    BY FrontQueued DEF Safe, Queued
<1>2. ASSUME NEW id \in Ids
      PROVE  /\ id \notin Queued' => waited'[id] >= ResendGap
             /\ id \in Queued' => Spaced(waited'[id], msg'[id])
    <2>1. CASE id = qmsg  BY <1>1, <2>1, GapInNat DEF Delete, Cleared
    <2>2. CASE id # qmsg  BY <1>1, <2>2 DEF Delete, Cleared, SpacedInv
    <2>. QED  BY <2>1, <2>2
<1>. QED  BY <1>2 DEF SpacedInv, Spaced, ResendGap

\* A response leaves the list, the message it answers becomes m.
LEMMA AnsweredSpaced ==
    ASSUME Safe, SpacedInv, NEW statuses, Response(statuses), Matches # {},
           NEW m \in Message, Answered(m), Spaced(waited'[SentId], m),
           \/ UNCHANGED waited
           \/ waited' = [waited EXCEPT ![SentId] = ResendGap]
    PROVE  SpacedInv'
<1>. USE DEF Safe
<1>1. NonEmpty /\ ToSet(Rest) = Queued \ {qmsg} /\ qmsg \in Queued
    BY FrontResponse
<1>2. SentId \in Ids /\ SentId \in Queued /\ SentId # qmsg /\ qmsg \in Ids
    BY <1>1, SentType, FrontType
<1>3. \A id \in Ids : msg'[id] = IF id = SentId THEN m
                                 ELSE IF id = qmsg THEN Nobody ELSE msg[id]
    BY <1>2 DEF Answered, TypeOK
<1>4. Queued' = Queued \ {qmsg}
    BY <1>1 DEF Answered, Queued
<1>5. waited[qmsg] >= ResendGap
    BY <1>1, FrontRested DEF Response, Due, Moving
<1>6. \A id \in Ids : id # SentId => waited'[id] = waited[id]
    BY <1>2 DEF TypeOK
<1>7. ASSUME NEW id \in Ids
      PROVE  /\ id \notin Queued' => waited'[id] >= ResendGap
             /\ id \in Queued' => Spaced(waited'[id], msg'[id])
    <2>1. CASE id = qmsg  BY <1>2, <1>4, <1>5, <1>6, <2>1
    <2>2. CASE id = SentId  BY <1>2, <1>3, <1>4, <2>2
    <2>3. CASE id # qmsg /\ id # SentId  BY <1>3, <1>4, <1>6, <2>3 DEF SpacedInv
    <2>. QED  BY <2>1, <2>2, <2>3
<1>. QED  BY <1>7 DEF SpacedInv, Spaced, ResendGap

LEMMA DefersSpaced ==
    ASSUME Safe, SpacedInv, ResponseDefers
    PROVE  SpacedInv'
<1>. USE DEF Safe
<1>1. /\ Response({"1xx", "480", "5xx"}) /\ Matches # {}
      /\ Answered(IncreaseTimeout(msg[SentId])) /\ UNCHANGED waited
    BY DEF ResponseDefers
<1>2. NonEmpty /\ ToSet(Rest) = Queued \ {qmsg}
    BY <1>1, FrontResponse
<1>3. SentId \in Ids /\ SentId \in Queued /\ msg[SentId] \in Message
    BY <1>1, <1>2, SentType
<1>4. IncreaseTimeout(msg[SentId]) \in Message
    BY <1>3, IncreaseTimeoutIsMessage
<1>5. Spaced(waited[SentId], msg[SentId]) /\ waited[SentId] \in Nat
    BY <1>3 DEF SpacedInv, TypeOK
<1>6. /\ IncreaseTimeout(msg[SentId]).state = msg[SentId].state
      /\ IncreaseTimeout(msg[SentId]).due = Ticks[60000]
    BY <1>3 DEF IncreaseTimeout, Message
<1>7. Spaced(waited[SentId], IncreaseTimeout(msg[SentId]))
    BY <1>5, <1>6, GapInNat DEF Spaced
<1>. QED  BY <1>1, <1>4, <1>7, AnsweredSpaced

LEMMA RedirectsSpaced ==
    ASSUME Safe, SpacedInv, ResponseRedirects
    PROVE  SpacedInv'
<1>. USE DEF Safe
<1>1. /\ Response({"3xx", "6xx"}) /\ Matches # {}
      /\ Answered(SetState(msg[SentId], "REQUEST_DESTINATION_IMSI"))
      /\ waited' = [waited EXCEPT ![SentId] = ResendGap]
    BY DEF ResponseRedirects
<1>2. NonEmpty
    BY <1>1, FrontResponse
<1>3. SentId \in Ids /\ msg[SentId] \in Message
    BY <1>1, <1>2, SentType
<1>4. SetState(msg[SentId], "REQUEST_DESTINATION_IMSI") \in Message
    BY <1>3, SetStateIsMessage DEF sm_state
<1>5. waited'[SentId] >= ResendGap
    BY <1>1, <1>3, GapInNat DEF TypeOK
<1>6. Spaced(waited'[SentId], SetState(msg[SentId], "REQUEST_DESTINATION_IMSI"))
    BY <1>5 DEF Spaced
<1>. QED  BY <1>1, <1>4, <1>6, AnsweredSpaced

LEMMA DeliveredSpaced ==
    ASSUME Safe, SpacedInv, ResponseDelivered
    PROVE  SpacedInv'
<1>. USE DEF Safe
<1>1. /\ NonEmpty /\ Matches # {} /\ Distinct(Rest)
      /\ ToSet(Rest) = Queued \ {qmsg} /\ qmsg \in Queued
    BY FrontResponse DEF ResponseDelivered
<1>2. /\ SentPos \in 1..Len(Rest) /\ Rest \in Seq(Ids) /\ qmsg \in Ids
      /\ SentId = Rest[SentPos] /\ SentId \in Ids /\ SentId \in Queued
    BY <1>1, SentType, FrontType DEF SentId
<1>3. Queued' = Queued \ {qmsg, SentId}
    <2>1. ToSet(RemoveAt(Rest, SentPos)) = ToSet(Rest) \ {SentId}
        BY <1>1, <1>2, RemoveAtElements
    <2>. QED  BY <1>1, <2>1 DEF ResponseDelivered, Queued
<1>4. \A id \in Ids :
          /\ waited'[id] = IF id \in {qmsg, SentId} THEN ResendGap ELSE waited[id]
          /\ id \notin {qmsg, SentId} =>
                 \/ msg'[id] = msg[id]
                 \/ Reruns /\ id = LinkedId /\ msg'[id] = SetState(msg[id], "INITIAL_STATE")
    BY DEF ResponseDelivered, Cleared
<1>5. ASSUME NEW id \in Ids
      PROVE  /\ id \notin Queued' => waited'[id] >= ResendGap
             /\ id \in Queued' => Spaced(waited'[id], msg'[id])
    <2>1. CASE id \in {qmsg, SentId}  BY <1>3, <1>4, <2>1, GapInNat
    <2>2. CASE id \notin {qmsg, SentId} /\ id \notin Queued
        BY <1>3, <1>4, <2>2 DEF SpacedInv
    <2>3. CASE id \notin {qmsg, SentId} /\ id \in Queued
        <3>1. waited'[id] = waited[id] /\ Spaced(waited[id], msg[id]) /\ id \in Queued'
            BY <1>3, <1>4, <2>3 DEF SpacedInv
        <3>2. CASE msg'[id] = msg[id]  BY <3>1, <3>2
        <3>3. CASE Reruns /\ id = LinkedId
            <4>1. msg[id].state \in Registering
                BY <3>3 DEF Reruns
            <4>2. waited[id] >= ResendGap
                BY <3>1, <4>1 DEF Spaced, Registering
            <4>. QED  BY <3>1, <4>2 DEF Spaced
        <3>. QED  BY <1>4, <2>3, <3>2, <3>3
    <2>. QED  BY <2>1, <2>2, <2>3
<1>. QED  BY <1>5 DEF SpacedInv, Spaced, ResendGap

LEMMA BouncesSpaced ==
    ASSUME Safe, SpacedInv, ResponseBounces
    PROVE  SpacedInv'
<1>. USE DEF Safe
<1>1. /\ NonEmpty /\ Response({"4xx"}) /\ Matches # {}
      /\ ToSet(Rest) = Queued \ {qmsg} /\ qmsg \in Queued
    BY FrontResponse DEF ResponseBounces
<1>2. SentId \in Ids /\ SentId \in Queued /\ SentId # qmsg /\ qmsg \in Ids
      /\ msg[SentId] \in Message /\ Rest \in Seq(Ids)
    BY <1>1, SentType, FrontType
<1>3. ASSUME NEW s \in {"NO_STATE", "DELETE_ME_STATE"}
      PROVE  /\ SetState(msg[SentId], s) \in Message
             /\ \A n : Spaced(n, SetState(msg[SentId], s))
    <2>1. SetState(msg[SentId], s) \in Message
        BY <1>2, SetStateIsMessage DEF sm_state
    <2>2. SetState(msg[SentId], s).state = s
        BY <1>2 DEF SetState, Message
    <2>. QED  BY <2>1, <2>2 DEF Spaced
<1>4. CASE Answered(SetState(msg[SentId], "NO_STATE")) /\ UNCHANGED waited
    BY <1>1, <1>3, <1>4, AnsweredSpaced
<1>5. ASSUME NEW tag \in NewTags, NEW first \in BounceStates,
             created < MaxMsgs,
             time_sorted_list' = <<created + 1>> \o Rest,
             msg' = [msg EXCEPT ![qmsg] = Nobody,
                                ![created + 1] = SetState(Bounce(tag), first),
                                ![SentId] = SetState(msg[SentId], "DELETE_ME_STATE")],
             UNCHANGED waited
      PROVE  SpacedInv'
    <2>. DEFINE new == created + 1
    <2>1. new \in Ids /\ new \notin Queued
        <3>1. new \in Ids
            BY <1>5, ManagerAssumption DEF TypeOK, Ids
        <3>2. new \notin Queued
            BY ManagerAssumption DEF TypeOK, ListInv
        <3>. QED  BY <3>1, <3>2
    <2>2. \A id \in Ids :
              /\ id = SentId => msg'[id] = SetState(msg[SentId], "DELETE_ME_STATE")
              /\ id \notin {SentId, qmsg, new} => msg'[id] = msg[id]
        BY <1>2, <1>5, <2>1 DEF TypeOK
    <2>3. Queued' = (Queued \ {qmsg}) \cup {new}
        BY <1>1, <1>2, <1>5, <2>1, ConsElements DEF Queued
    <2>4. waited[qmsg] >= ResendGap /\ waited[new] >= ResendGap
        BY <1>1, <2>1, FrontRested DEF Response, Due, Moving, SpacedInv
    <2>. HIDE DEF new
    <2>5. ASSUME NEW id \in Ids
          PROVE  /\ id \notin Queued' => waited'[id] >= ResendGap
                 /\ id \in Queued' => Spaced(waited'[id], msg'[id])
        <3>1. CASE id = qmsg \/ id = new  BY <1>5, <2>4, <3>1 DEF Spaced
        <3>2. CASE id = SentId  BY <1>2, <1>3, <2>2, <2>3, <3>2
        <3>3. CASE id \notin {qmsg, SentId, new}  BY <1>5, <2>2, <2>3, <3>3 DEF SpacedInv
        <3>. QED  BY <3>1, <3>2, <3>3
    <2>. QED  BY <2>5 DEF SpacedInv, Spaced, ResendGap
<1>. QED  BY <1>4, <1>5 DEF ResponseBounces

LEMMA AttemptState ==
    ASSUME Safe, NonEmpty, Delivering
    PROVE  /\ Attempt.state = "REQUEST_MSG_DELIVERY"
           /\ Packed.state = "REQUEST_MSG_DELIVERY"
<1>. DEFINE m == IF msg[qmsg].state = "AWAITING_TRY_MSG_DELIVERY"
                 THEN SetState(msg[qmsg], "REQUEST_MSG_DELIVERY") ELSE msg[qmsg]
<1>1. SetState(msg[qmsg], "REQUEST_MSG_DELIVERY") \in Message
    BY FrontType, SetStateIsMessage DEF Safe, sm_state
<1>2. m \in Message /\ m.state = "REQUEST_MSG_DELIVERY"
    BY <1>1, FrontType DEF Safe, Delivering, Due, SetState, Message
<1>3. Attempt = [m EXCEPT !.retries = @ + 1]
    BY DEF Attempt
<1>. HIDE DEF m
<1>4. Attempt.state = "REQUEST_MSG_DELIVERY" /\ Attempt \in Message
    BY <1>2, <1>3 DEF Message
<1>. QED  BY <1>4 DEF Packed, Message

\* An attempt is made long after the last send; the next one is far off.
LEMMA AttemptSpaced ==
    ASSUME Safe, SpacedInv, PackFails \/ DropAfterRetries \/ RateLimit \/ Deliver
    PROVE  SpacedInv' /\ waited[qmsg] >= ResendGap
<1>. USE DEF Safe
<1>1. NonEmpty /\ Delivering /\ qmsg \in Ids /\ qmsg \in Queued
    BY FrontType, FrontQueued DEF PackFails, DropAfterRetries, RateLimit, Deliver,
                                  Delivering, Due, NonEmpty
<1>2. waited[qmsg] >= ResendGap
    <2>1. \/ msg[qmsg].state \notin Moving
          \/ msg[qmsg].state = "AWAITING_TRY_MSG_DELIVERY" /\ msg[qmsg].due <= 0
        BY <1>1 DEF Delivering, Due, Moving
    <2>. QED  BY <1>1, <2>1, FrontRested
<1>3. \A m : Spaced(waited[qmsg], m)
    BY <1>2 DEF Spaced
<1>4. Attempt \in Message /\ Packed \in Message
    BY <1>1, AttemptType
<1>5. ASSUME PackFails \/ DropAfterRetries PROVE SpacedInv'
    <2>1. /\ SetState(Attempt, "NO_STATE") \in Message
          /\ SetState(Packed, "DELETE_ME_STATE") \in Message
        BY <1>4, SetStateIsMessage DEF sm_state
    <2>. QED  BY <1>1, <1>3, <1>5, <2>1, RequeueSpaced DEF PackFails, DropAfterRetries
<1>6. ASSUME RateLimit PROVE SpacedInv'
    <2>. DEFINE packed == [msg EXCEPT ![qmsg] = Packed]
    <2>1. \A id \in Ids : id # qmsg => msg'[id] = msg[id]
        BY <1>6 DEF RateLimit, TypeOK
    <2>2. Queued' = Queued
        <3>1. \A x \in Ids : packed[x].due \in Int
            BY <1>1, <1>4, FrontType DEF TypeOK, Message
        <3>2. \/ time_sorted_list' = time_sorted_list
              \/ time_sorted_list' = InsertByTime(Rest, packed, qmsg)
            BY <1>6 DEF RateLimit
        <3>. HIDE DEF packed
        <3>3. ToSet(InsertByTime(Rest, packed, qmsg)) = ToSet(Rest) \cup {qmsg}
            BY <1>1, <3>1, FrontType, FrontQueued, InsertByTimeElements
        <3>. QED  BY <1>1, <3>2, <3>3, FrontQueued DEF Queued
    <2>3. waited' = waited
        BY <1>6 DEF RateLimit
    <2>4. ASSUME NEW id \in Ids
          PROVE  /\ id \notin Queued' => waited'[id] >= ResendGap
                 /\ id \in Queued' => Spaced(waited'[id], msg'[id])
        <3>1. CASE id = qmsg  BY <1>1, <1>3, <2>2, <2>3, <3>1
        <3>2. CASE id # qmsg  BY <2>1, <2>2, <2>3, <3>2 DEF SpacedInv
        <3>. QED  BY <3>1, <3>2
    <2>. QED  BY <2>4 DEF SpacedInv, Spaced, ResendGap
<1>7. ASSUME Deliver PROVE SpacedInv'
    <2>. DEFINE m == SetState(Packed, "ASKED_FOR_MSG_DELIVERY")
    <2>1. m \in Message
        BY <1>4, SetStateIsMessage DEF sm_state
    <2>2. m.state = "ASKED_FOR_MSG_DELIVERY" /\ m.due = Ticks[15000]
        BY <1>1, <1>4, AttemptState, DeliveryDelays DEF SetState, Message
    <2>3. /\ Queued' = Queued
          /\ \A id \in Ids : msg'[id] = IF id = qmsg THEN m ELSE msg[id]
        BY <1>1, <1>7, <2>1, RequeueList DEF Deliver
    <2>. HIDE DEF m
    <2>4. \A id \in Ids : waited'[id] = IF id = qmsg THEN 0 ELSE waited[id]
        BY <1>7 DEF Deliver, TypeOK
    <2>5. ASSUME NEW id \in Ids
          PROVE  /\ id \notin Queued' => waited'[id] >= ResendGap
                 /\ id \in Queued' => Spaced(waited'[id], msg'[id])
        <3>1. CASE id = qmsg
            <4>1. 0 + m.due >= Ticks[15000]
                BY <2>2, GapInNat
            <4>2. Spaced(0, m)
                BY <2>2, <4>1 DEF Spaced
            <4>. QED  BY <1>1, <2>3, <2>4, <3>1, <4>2
        <3>2. CASE id # qmsg  BY <2>3, <2>4, <3>2 DEF SpacedInv
        <3>. QED  BY <3>1, <3>2
    <2>. QED  BY <2>5 DEF SpacedInv, Spaced, ResendGap
<1>. QED  BY <1>2, <1>5, <1>6, <1>7

LEMMA ShortCodeSpaced ==
    ASSUME Safe, SpacedInv, HandleShortCode
    PROVE  SpacedInv'
<1>1. NonEmpty /\ msg[qmsg].state = "INITIAL_STATE"
    BY DEF HandleShortCode, ShortCodeReply, ShortCodeError, ShortCodeDone, ShortCodeAwait,
           ShortCodeRegister, ShortCodeRestart, ShortCodeRetry, ShortCodeQuit,
           ShortCode, Due, NonEmpty
<1>2. /\ msg[qmsg] \in Message
      /\ SetState(msg[qmsg], "DELETE_ME_STATE") \in Message
      /\ \A m : Spaced(waited[qmsg], m)
      /\ msg[qmsg].state \notin Moving
    BY <1>1, FrontType, SetStateIsMessage, FrontRested DEF Safe, sm_state, Moving, Spaced
<1>3. ASSUME NEW s \in sm_state, MoveTo(s) PROVE SpacedInv'
    BY <1>1, <1>2, <1>3, MoveToSpaced
<1>4. ASSUME ShortCodeReply PROVE SpacedInv'
    <2>1. ASSUME NEW tag \in NewTags,
                 OriginateAndRequeue(New("MESSAGE", tag, "user", NoTag, "none"),
                                     "REQUEST_DESTINATION_SIPURL",
                                     SetState(msg[qmsg], "DELETE_ME_STATE"))
          PROVE  SpacedInv'
        <3>1. New("MESSAGE", tag, "user", NoTag, "none") \in Message
            BY <2>1, NewTagsAreTags, NewIsMessage DEF Safe, OriginateAndRequeue, Tags
        <3>. QED  BY <1>1, <1>2, <2>1, <3>1, OriginateSpaced DEF sm_state
    <2>. QED  BY <1>3, <1>4, <2>1 DEF ShortCodeReply, sm_state
<1>5. ASSUME ShortCodeError \/ ShortCodeDone \/ ShortCodeAwait \/ ShortCodeRestart
      PROVE  SpacedInv'
    BY <1>3, <1>5
       DEF ShortCodeError, ShortCodeDone, ShortCodeAwait, ShortCodeRestart, sm_state
<1>6. ASSUME ShortCodeRegister PROVE SpacedInv'
    BY <1>1, <1>2, <1>6, RegisterHandsetSpaced DEF ShortCodeRegister
<1>7. ASSUME ShortCodeRetry PROVE SpacedInv'
    <2>1. [msg[qmsg] EXCEPT !.retries = @ + 1] \in Message
        BY <1>2 DEF Message
    <2>2. SetState([msg[qmsg] EXCEPT !.retries = @ + 1],
                   "REQUEST_FROM_ADDRESS_LOOKUP") \in Message
        BY <2>1, SetStateIsMessage DEF sm_state
    <2>. QED  BY <1>1, <1>2, <1>7, <2>2, RequeueSpaced DEF ShortCodeRetry
<1>8. ASSUME ShortCodeQuit PROVE SpacedInv'
    BY <1>1, <1>2, <1>8, RequeueSpaced DEF ShortCodeQuit
<1>. QED  BY <1>4, <1>5, <1>6, <1>7, <1>8 DEF HandleShortCode

LEMMA SpacedStep ==
    ASSUME Safe, SpacedInv, [Next]_vars
    PROVE  SpacedInv'
<1>. USE DEF Safe
<1>1. ASSUME ReceiveRequest PROVE SpacedInv'
    <2>1. PICK kind \in RequestKinds, tag \in NewTags :
              Arrive(New(kind, tag, "user", NoTag, "none"))
        BY <1>1 DEF ReceiveRequest
    <2>2. tag \in Tags /\ kind \in {"MESSAGE", "OTHER", "REGISTER", "RESPONSE"}
        BY <2>1, NewTagsAreTags, ManagerAssumption DEF Arrive
    <2>3. New(kind, tag, "user", NoTag, "none") \in Message
        BY <2>2, NewIsMessage DEF Tags
    <2>. QED  BY <2>1, <2>3, ArriveSpaced
<1>2. ASSUME ReceiveResponse PROVE SpacedInv'
    <2>1. PICK s \in sent, status \in Statuses :
              Arrive(New("RESPONSE", s[1], s[2], NoTag, status))
        BY <1>2 DEF ReceiveResponse
    <2>2. /\ s[1] \in Tags /\ s[2] \in {"user", "Bounce.Code"}
          /\ status \in AllStatuses \cup {"none"}
        BY ManagerAssumption DEF TypeOK
    <2>3. New("RESPONSE", s[1], s[2], NoTag, status) \in Message
        BY <2>2, NewIsMessage DEF Tags
    <2>. QED  BY <2>1, <2>3, ArriveSpaced
<1>3. ASSUME RejectMethod \/ OrdinaryMessage PROVE SpacedInv'
    BY <1>3, MoveToSpaced DEF RejectMethod, OrdinaryMessage, Due, NonEmpty, sm_state, Moving
<1>4. ASSUME HandleResponse PROVE SpacedInv'
    <2>1. ASSUME IgnoreResponse PROVE SpacedInv'
        BY <2>1, FrontResponse, DropFrontSpaced DEF IgnoreResponse
    <2>. QED  BY <1>4, <2>1, DefersSpaced, RedirectsSpaced, DeliveredSpaced, BouncesSpaced
              DEF HandleResponse
<1>5. ASSUME DeleteMessage PROVE SpacedInv'
    BY <1>5, DropFrontSpaced DEF DeleteMessage, Due, NonEmpty
<1>6. ASSUME LookupFromAddress PROVE SpacedInv'
    <2>. DEFINE m == IF msg[qmsg].state \in Unexpected
                     THEN SetState(msg[qmsg], "INITIAL_STATE") ELSE msg[qmsg]
    <2>1. NonEmpty
        BY <1>6 DEF LookupFromAddress, Due, NonEmpty
    <2>2. m \in Message
        BY <2>1, FrontType, SetStateIsMessage DEF sm_state
    <2>3. PICK newstate \in {"NO_STATE", "REQUEST_DESTINATION_IMSI"} :
              Requeue(SetState(m, newstate))
        BY <1>6 DEF LookupFromAddress
    <2>. HIDE DEF m
    <2>4. SetState(m, newstate) \in Message
        BY <2>2, <2>3, SetStateIsMessage DEF sm_state
    <2>5. Spaced(waited[qmsg], SetState(m, newstate))
        BY <1>6, <2>1, FrontRested DEF LookupFromAddress, Due, Unexpected, Moving, Spaced
    <2>6. UNCHANGED waited
        BY <1>6 DEF LookupFromAddress
    <2>. QED  BY <2>1, <2>3, <2>4, <2>5, <2>6, RequeueSpaced
<1>7. ASSUME LookupUriImsi PROVE SpacedInv'
    <2>1. NonEmpty /\ msg[qmsg].state \notin Moving
        BY <1>7 DEF LookupUriImsi, Due, NonEmpty, Moving
    <2>2. ASSUME MoveTo("NO_STATE") \/ MoveTo("REQUEST_DESTINATION_SIPURL")
          PROVE  SpacedInv'
        BY <2>1, <2>2, MoveToSpaced DEF sm_state
    <2>3. ASSUME NEW tag \in NewTags, NEW first \in BounceStates,
                 OriginateAndRequeue(Bounce(tag), first,
                                     SetState(msg[qmsg], "DELETE_ME_STATE"))
          PROVE  SpacedInv'
        <3>1. Bounce(tag) \in Message
            BY <2>3, NewTagsAreTags, NewIsMessage DEF OriginateAndRequeue, Bounce, Tags
        <3>2. SetState(msg[qmsg], "DELETE_ME_STATE") \in Message
            BY <2>1, FrontType, SetStateIsMessage DEF sm_state
        <3>3. first \in sm_state
            BY DEF BounceStates, sm_state
        <3>4. Spaced(waited[qmsg], SetState(msg[qmsg], "DELETE_ME_STATE"))
            BY <2>1, FrontRested DEF Spaced
        <3>. QED  BY <2>1, <2>3, <3>1, <3>2, <3>3, <3>4, OriginateSpaced
    <2>. QED  BY <1>7, <2>2, <2>3 DEF LookupUriImsi
<1>8. ASSUME CrashInLookup \/ UNCHANGED vars PROVE SpacedInv'
    BY <1>8 DEF CrashInLookup, vars, SpacedInv, Spaced, ResendGap, Queued
<1>9. ASSUME LookupUriHostport \/ AwaitRegister \/ NoRegisterAnswer PROVE SpacedInv'
    BY <1>9, MoveToSpaced DEF LookupUriHostport, AwaitRegister, NoRegisterAnswer, Due,
                              NonEmpty, sm_state, Moving
<1>10. ASSUME NoAnswer PROVE SpacedInv'
    <2>. DEFINE m == SetState(msg[qmsg], "AWAITING_TRY_MSG_DELIVERY")
    <2>1. /\ NonEmpty /\ msg[qmsg].state = "ASKED_FOR_MSG_DELIVERY" /\ msg[qmsg].due <= 0
          /\ Requeue(m) /\ UNCHANGED waited
        BY <1>10 DEF NoAnswer, MoveTo, Due, NonEmpty
    <2>2. /\ qmsg \in Ids /\ qmsg \in Queued /\ msg[qmsg] \in Message
          /\ msg[qmsg].due \in Int /\ waited[qmsg] \in Nat
        BY <2>1, FrontType, FrontQueued DEF TypeOK
    <2>3. m \in Message
        BY <2>2, SetStateIsMessage DEF sm_state
    <2>4. m.state = "AWAITING_TRY_MSG_DELIVERY" /\ m.due = Ticks[60000]
        BY <2>1, <2>2, DeliveryDelays DEF SetState, Message
    <2>5. Spaced(waited[qmsg], msg[qmsg])
        BY <2>2 DEF SpacedInv
    <2>6. waited[qmsg] >= Ticks[15000]
        BY <2>1, <2>2, <2>5, GapInNat DEF Spaced
    <2>7. waited[qmsg] + m.due >= ResendGap
        BY <2>2, <2>4, <2>6, GapInNat
    <2>. HIDE DEF m
    <2>8. Spaced(waited[qmsg], m)
        BY <2>4, <2>6, <2>7 DEF Spaced
    <2>. QED  BY <2>1, <2>3, <2>8, RequeueSpaced
<1>11. ASSUME Register PROVE SpacedInv'
    <2>1. NonEmpty /\ msg[qmsg].state \notin Moving
        BY <1>11 DEF Register, Due, NonEmpty, Moving
    <2>2. SetState(msg[qmsg], "REGISTER_HANDSET") \in Message
        BY <2>1, FrontType, SetStateIsMessage DEF sm_state
    <2>. QED  BY <1>11, <2>1, <2>2, RegisterHandsetSpaced DEF Register
<1>. QED  BY <1>1, <1>2, <1>3, <1>4, <1>5, <1>6, <1>7, <1>8, <1>9, <1>10, <1>11,
             ShortCodeSpaced, AttemptSpaced, TickSpaced DEF Next, ProcessTimeout

\* Only Deliver counts a send.
LEMMA SendsOnlyIn ==
    ASSUME Safe, [Next]_vars, ~Deliver, NEW id \in Ids
    PROVE  ~ (sends'[id] > sends[id])
<1>1. sends[id] \in Nat
    BY DEF Safe, TypeOK
<1>2. \/ sends' = sends
      \/ \E gone : sends' = Cleared(sends, gone, 0)
    <2>1. ASSUME HandleShortCode PROVE sends' = sends
        BY <2>1 DEF HandleShortCode, ShortCodeReply, ShortCodeError, ShortCodeDone,
                    ShortCodeAwait, ShortCodeRegister, ShortCodeRestart, ShortCodeRetry,
                    ShortCodeQuit, MoveTo, OriginateAndRequeue, RegisterHandset
    <2>2. ASSUME IgnoreResponse \/ ResponseDelivered \/ DeleteMessage
          PROVE  \E gone : sends' = Cleared(sends, gone, 0)
        BY <2>2 DEF IgnoreResponse, ResponseDelivered, DeleteMessage, Delete
    <2>3. ASSUME ResponseDefers \/ ResponseRedirects \/ ResponseBounces
          PROVE  sends' = sends
        BY <2>3 DEF ResponseDefers, ResponseRedirects, ResponseBounces, Answered
    <2>4. ASSUME \/ ReceiveRequest \/ ReceiveResponse \/ Tick \/ UNCHANGED vars
                 \/ RejectMethod \/ OrdinaryMessage
          PROVE  sends' = sends
        BY <2>4 DEF ReceiveRequest, ReceiveResponse, Arrive, Tick, vars, RejectMethod,
                    OrdinaryMessage, MoveTo
    <2>5. ASSUME \/ LookupFromAddress \/ LookupUriImsi \/ CrashInLookup
                 \/ LookupUriHostport \/ PackFails \/ DropAfterRetries \/ RateLimit
                 \/ NoAnswer \/ AwaitRegister \/ Register \/ NoRegisterAnswer
          PROVE  sends' = sends
        BY <2>5 DEF LookupFromAddress, LookupUriImsi, CrashInLookup, LookupUriHostport,
                    PackFails, DropAfterRetries, RateLimit, NoAnswer, AwaitRegister,
                    Register, NoRegisterAnswer, MoveTo, OriginateAndRequeue,
                    RegisterHandset
    <2>. QED  BY <2>1, <2>2, <2>3, <2>4, <2>5 DEF Next, ProcessTimeout, HandleResponse
<1>. QED  BY <1>1, <1>2 DEF Cleared

\* Between two sends of a message to one destination lie 15 s and 60 s, whatever answers
\* come in between and however late the handlers run.
THEOREM SendsAreSpaced == Spec => ResendSpaced
<1>1. Init => SpacedInv
    BY GapInNat DEF Init, SpacedInv, Queued, ToSet
<1>2. Safe /\ SpacedInv /\ [Next]_vars => SpacedInv'
    BY SpacedStep
<1>3. Safe /\ SpacedInv /\ [Next]_vars
          => [\A id \in Ids : sends'[id] > sends[id] => waited[id] >= ResendGap]_vars
    <2>. SUFFICES ASSUME Safe, SpacedInv, [Next]_vars, NEW id \in Ids,
                         sends'[id] > sends[id]
                  PROVE  waited[id] >= ResendGap
        OBVIOUS
    <2>1. Deliver
        BY SendsOnlyIn
    <2>2. id = qmsg
        BY <2>1 DEF Deliver, Safe, TypeOK
    <2>. QED  BY <2>1, <2>2, AttemptSpaced
<1>. QED  BY <1>1, <1>2, <1>3, Safety, PTL DEF Spec, ResendSpaced

--------------------------------------------------------------------------------
(* What the attempts count *)

Finished == {"NO_STATE", "DELETE_ME_STATE"}

\* Every attempt of a request was a send, until it used up its sends; or it could not be
\* packed: then it was never sent, no peer can answer it, and it is deleted.
Counted(id) ==
    /\ msg[id].qtag = id
    /\ msg[id].need_repack => \A s \in sent : s[1] # id
    /\ \/ msg[id].retries = sends[id]
       \/ max_retries > 0 /\ sends[id] = max_retries
       \/ msg[id].state \in Finished /\ msg[id].need_repack

Answers(id) == \E s \in sent : s[1] = msg[id].qtag

CountInv ==
    /\ \A s \in sent : s[1] \in 1..created
    /\ \A id \in Queued : IF msg[id].kind = "RESPONSE" THEN Answers(id) ELSE Counted(id)

\* Messages are told apart by their tags, no short code counts an attempt, and the
\* configuration has no "max_retires", so that the rate is not limited.
EveryAttemptSends ==
    /\ FreshTags
    /\ "RETRY_AFTER_DELAY" \notin ShortCodeActions
    /\ Retires = Unset

\* The message n is the message m, with the same count.
SameCount(m, n) ==
    /\ n.kind = m.kind
    /\ n.qtag = m.qtag
    /\ n.retries = m.retries
    /\ n.need_repack = m.need_repack
    /\ m.kind # "RESPONSE" /\ m.state \in Finished /\ m.need_repack
           => n.state \in Finished

Steady(id) == id \in Queued /\ SameCount(msg[id], msg'[id]) /\ sends'[id] = sends[id]

Fresh(id) ==
    /\ id \in Ids /\ id \notin Queued /\ id = created + 1
    /\ sends'[id] = 0 /\ msg'[id].retries = 0
    /\ IF msg'[id].kind = "RESPONSE" THEN \E s \in sent : s[1] = msg'[id].qtag
       ELSE msg'[id].qtag = id

LEMMA SteadyCount ==
    ASSUME Safe, CountInv, sent' = sent, created' \in Nat, created' >= created,
           \A id \in Queued' : Steady(id) \/ Fresh(id)
    PROVE  CountInv'
<1>1. created \in Nat /\ \A s \in sent : s[1] \in 1..created
    BY ManagerAssumption DEF Safe, TypeOK, CountInv
<1>2. \A s \in sent' : s[1] \in 1..created'
    BY <1>1
<1>3. ASSUME NEW id \in Queued'
      PROVE  IF msg'[id].kind = "RESPONSE" THEN Answers(id)' ELSE Counted(id)'
    <2>1. CASE Steady(id)
        <3>1. IF msg[id].kind = "RESPONSE" THEN Answers(id) ELSE Counted(id)
            BY <2>1 DEF Steady, CountInv
        <3>. QED  BY <2>1, <3>1 DEF Steady, SameCount, Answers, Counted, max_retries
    <2>2. CASE Fresh(id)
        <3>1. \A s \in sent : s[1] # id
            BY <1>1, <2>2 DEF Fresh
        <3>. QED  BY <2>2, <3>1 DEF Fresh, Answers, Counted
    <2>. QED  BY <1>3, <2>1, <2>2
<1>. QED  BY <1>2, <1>3 DEF CountInv

LEMMA SameCountRefl == \A m : SameCount(m, m)
BY DEF SameCount

LEMMA SetStateCount ==
    ASSUME NEW m \in Message, NEW s, m.state \notin Finished
    PROVE  SameCount(m, SetState(m, s))
BY DEF SameCount, SetState, Message

LEMMA SetStateCountTwice ==
    ASSUME NEW m \in Message, NEW n \in Message, NEW s, m.state \notin Finished,
           SameCount(m, n)
    PROVE  SameCount(m, SetState(n, s))
BY DEF SameCount, SetState, Message

LEMMA RequeueCount ==
    ASSUME Safe, CountInv, NonEmpty, NEW m \in Message, Requeue(m),
           UNCHANGED <<created, sent, sends>>, SameCount(msg[qmsg], m)
    PROVE  CountInv'
<1>1. /\ Queued' = Queued /\ Queued \subseteq Ids
      /\ \A id \in Ids : msg'[id] = IF id = qmsg THEN m ELSE msg[id]
    BY RequeueList, FrontQueued DEF Safe
<1>2. \A id \in Queued' : Steady(id)
    BY <1>1, SameCountRefl DEF Steady
<1>3. created \in Nat
    BY ManagerAssumption DEF Safe, TypeOK
<1>. QED  BY <1>2, <1>3, SteadyCount

LEMMA MoveToCount ==
    ASSUME Safe, CountInv, NonEmpty, NEW s \in sm_state, MoveTo(s),
           msg[qmsg].state \notin Finished
    PROVE  CountInv'
<1>1. SetState(msg[qmsg], s) \in Message /\ SameCount(msg[qmsg], SetState(msg[qmsg], s))
    BY FrontType, SetStateIsMessage, SetStateCount DEF Safe
<1>. QED  BY <1>1, RequeueCount DEF MoveTo

LEMMA OriginateCount ==
    ASSUME Safe, CountInv, EveryAttemptSends, NonEmpty,
           NEW kind \in {"MESSAGE", "OTHER", "REGISTER"}, NEW tag \in NewTags,
           NEW from \in {"user", "Bounce.Code"}, NEW linktag \in Tags,
           NEW first \in sm_state, NEW moved \in Message, SameCount(msg[qmsg], moved),
           OriginateAndRequeue(New(kind, tag, from, linktag, "none"), first, moved)
    PROVE  CountInv'
<1>. USE DEF Safe
<1>. DEFINE new == created + 1
            m == New(kind, tag, from, linktag, "none")
<1>1. tag \in Tags /\ tag = created + 1
    BY NewTagsAreTags DEF OriginateAndRequeue, EveryAttemptSends, NewTags
<1>2. m \in Message
    BY <1>1, NewIsMessage
<1>3. SetState(m, first).qtag = tag /\ SetState(m, first).kind = kind
      /\ SetState(m, first).retries = 0
    BY NewFields
<1>4. /\ new \in Ids /\ new \notin Queued /\ new # qmsg /\ created' = new
      /\ Queued' = Queued \cup {new}
      /\ \A id \in Ids : msg'[id] = IF id = qmsg THEN moved
                                    ELSE IF id = new THEN SetState(m, first)
                                    ELSE msg[id]
    BY <1>2, OriginateList
<1>5. UNCHANGED <<sent, sends>>
    BY DEF OriginateAndRequeue
<1>. HIDE DEF m
<1>6. Queued \subseteq Ids
    BY FrontQueued
<1>7. \A id \in Queued : Steady(id)
    BY <1>4, <1>5, <1>6, SameCountRefl DEF Steady
<1>8. Fresh(new)
    BY <1>1, <1>3, <1>4, <1>5 DEF Fresh, SendsInv
<1>9. created \in Nat
    BY ManagerAssumption DEF TypeOK
<1>. QED  BY <1>4, <1>5, <1>7, <1>8, <1>9, SteadyCount

LEMMA RegisterHandsetCount ==
    ASSUME Safe, CountInv, EveryAttemptSends, NonEmpty, NEW m \in Message,
           SameCount(msg[qmsg], m), RegisterHandset(m), msg[qmsg].state \notin Finished
    PROVE  CountInv'
<1>1. \A s \in {"DELETE_ME_STATE", "ASKED_TO_REGISTER_HANDSET"} :
          SetState(m, s) \in Message /\ SameCount(msg[qmsg], SetState(m, s))
    BY FrontType, SetStateIsMessage, SetStateCountTwice DEF Safe, sm_state
<1>2. ASSUME NEW tag \in NewTags,
             OriginateAndRequeue(New("REGISTER", tag, "user", m.qtag, "none"),
                                 "REQUEST_MSG_DELIVERY",
                                 SetState(m, "ASKED_TO_REGISTER_HANDSET"))
      PROVE  CountInv'
    <2>1. m.qtag \in Tags
        BY DEF Message
    <2>. QED  BY <1>1, <1>2, <2>1, OriginateCount DEF sm_state
<1>3. ASSUME Requeue(SetState(m, "DELETE_ME_STATE")),
             UNCHANGED <<created, sent, elapsed, mode, sends, waited, acked>>
      PROVE  CountInv'
    BY <1>1, <1>3, RequeueCount
<1>. QED  BY <1>2, <1>3 DEF RegisterHandset

LEMMA ArriveCount ==
    ASSUME Safe, CountInv, NEW kind \in {"MESSAGE", "OTHER", "REGISTER", "RESPONSE"},
           NEW tag, NEW from, NEW status,
           Arrive(New(kind, tag, from, NoTag, status)),
           IF kind = "RESPONSE" THEN \E s \in sent : s[1] = tag ELSE tag = created + 1
    PROVE  CountInv'
<1>. USE DEF Safe
<1>. DEFINE new == created + 1
            m == SetState(New(kind, tag, from, NoTag, status), "INITIAL_STATE")
<1>1. new \in Ids /\ new \notin Queued
    <2>1. new \in Ids
        BY ManagerAssumption DEF Arrive, TypeOK, Ids
    <2>2. new \notin Queued
        BY ManagerAssumption DEF TypeOK, ListInv
    <2>. QED  BY <2>1, <2>2
<1>2. m.qtag = tag /\ m.kind = kind /\ m.retries = 0
    BY NewFields
<1>3. /\ created' = new /\ time_sorted_list' = <<new>> \o time_sorted_list
      /\ UNCHANGED <<sent, sends>>
      /\ \A id \in Ids : msg'[id] = IF id = new THEN m ELSE msg[id]
    BY DEF Arrive, TypeOK
<1>. HIDE DEF m
<1>4. Queued' = Queued \cup {new} /\ Queued \subseteq Ids
    BY <1>1, <1>3, ConsElements DEF TypeOK, ListInv, ListComplete, Queued
<1>5. \A id \in Queued : Steady(id)
    BY <1>1, <1>3, <1>4, SameCountRefl DEF Steady
<1>6. Fresh(new)
    BY <1>1, <1>2, <1>3 DEF Fresh, SendsInv
<1>7. created \in Nat
    BY ManagerAssumption DEF TypeOK
<1>. QED  BY <1>3, <1>4, <1>5, <1>6, <1>7, SteadyCount

LEMMA DropFrontCount ==
    ASSUME Safe, CountInv, NonEmpty, time_sorted_list' = Rest, Delete({qmsg}),
           UNCHANGED <<created, sent>>
    PROVE  CountInv'
<1>1. Queued' = Queued \ {qmsg} /\ Queued \subseteq Ids
    BY FrontQueued DEF Safe, Queued
<1>2. \A id \in Queued' : Steady(id)
    BY <1>1, SameCountRefl DEF Steady, Delete, Cleared
<1>3. created \in Nat
    BY ManagerAssumption DEF Safe, TypeOK
<1>. QED  BY <1>2, <1>3, SteadyCount

\* Whatever a response finds was sent, so it was packed.
LEMMA SentIsPacked ==
    ASSUME Safe, CountInv, NEW statuses, Response(statuses), Matches # {}
    PROVE  /\ SentId \in Ids /\ SentId \in Queued /\ SentId # qmsg /\ qmsg \in Ids
           /\ msg[SentId] \in Message
           /\ msg[SentId].kind = "RESPONSE" \/ ~msg[SentId].need_repack
           /\ NonEmpty /\ ToSet(Rest) = Queued \ {qmsg} /\ qmsg \in Queued
           /\ Distinct(Rest) /\ Rest \in Seq(Ids) /\ Queued \subseteq Ids
<1>. USE DEF Safe
<1>1. NonEmpty /\ ToSet(Rest) = Queued \ {qmsg} /\ qmsg \in Queued /\ Distinct(Rest)
    BY FrontResponse
<1>2. /\ SentId \in Ids /\ SentId \in Queued /\ SentId # qmsg /\ qmsg \in Ids
      /\ msg[SentId] \in Message /\ msg[SentId].qtag = msg[qmsg].qtag
      /\ Rest \in Seq(Ids) /\ Queued \subseteq Ids
    BY <1>1, SentType, FrontType, FrontQueued
<1>3. \E s \in sent : s[1] = msg[qmsg].qtag
    BY <1>1 DEF CountInv, Answers, Response, Due
<1>4. msg[SentId].kind # "RESPONSE" => ~msg[SentId].need_repack
    BY <1>2, <1>3 DEF CountInv, Counted
<1>. QED  BY <1>1, <1>2, <1>4

LEMMA PackedCount ==
    ASSUME NEW m \in Message, NEW s
    PROVE  /\ m.kind = "RESPONSE" \/ ~m.need_repack \/ s \in Finished
                  => SameCount(m, SetState(m, s))
           /\ SameCount(m, IncreaseTimeout(m))
BY DEF SameCount, SetState, IncreaseTimeout, Message

LEMMA AnsweredCount ==
    ASSUME Safe, CountInv, NEW statuses, Response(statuses), Matches # {},
           NEW m \in Message, SameCount(msg[SentId], m), Answered(m)
    PROVE  CountInv'
<1>. USE DEF Safe
<1>1. /\ SentId \in Ids /\ SentId \in Queued /\ SentId # qmsg /\ qmsg \in Ids
      /\ ToSet(Rest) = Queued \ {qmsg} /\ Queued \subseteq Ids
    BY SentIsPacked
<1>2. /\ \A id \in Ids : msg'[id] = IF id = SentId THEN m
                                    ELSE IF id = qmsg THEN Nobody ELSE msg[id]
      /\ Queued' = Queued \ {qmsg}
      /\ UNCHANGED <<created, sent, sends>>
    BY <1>1 DEF Answered, TypeOK, Queued
<1>3. \A id \in Queued' : Steady(id)
    BY <1>1, <1>2, SameCountRefl DEF Steady
<1>4. created \in Nat
    BY ManagerAssumption DEF TypeOK
<1>. QED  BY <1>2, <1>3, <1>4, SteadyCount

LEMMA HandleResponseCount ==
    ASSUME Safe, CountInv, EveryAttemptSends, HandleResponse
    PROVE  CountInv'
<1>. USE DEF Safe
<1>1. ASSUME IgnoreResponse PROVE CountInv'
    BY <1>1, FrontResponse, DropFrontCount DEF IgnoreResponse
<1>2. ASSUME ResponseDefers PROVE CountInv'
    <2>1. /\ Response({"1xx", "480", "5xx"}) /\ Matches # {}
          /\ Answered(IncreaseTimeout(msg[SentId]))
        BY <1>2 DEF ResponseDefers
    <2>2. msg[SentId] \in Message
        BY <2>1, SentIsPacked
    <2>. QED  BY <2>1, <2>2, IncreaseTimeoutIsMessage, PackedCount, AnsweredCount
<1>3. ASSUME ResponseRedirects PROVE CountInv'
    <2>1. /\ Response({"3xx", "6xx"}) /\ Matches # {}
          /\ Answered(SetState(msg[SentId], "REQUEST_DESTINATION_IMSI"))
        BY <1>3 DEF ResponseRedirects
    <2>2. msg[SentId] \in Message
          /\ (msg[SentId].kind = "RESPONSE" \/ ~msg[SentId].need_repack)
        BY <2>1, SentIsPacked
    <2>3. SetState(msg[SentId], "REQUEST_DESTINATION_IMSI") \in Message
          /\ SameCount(msg[SentId], SetState(msg[SentId], "REQUEST_DESTINATION_IMSI"))
        BY <2>2, SetStateIsMessage, PackedCount DEF sm_state
    <2>. QED  BY <2>1, <2>3, AnsweredCount
<1>4. ASSUME ResponseDelivered PROVE CountInv'
    <2>1. Response({"2xx"}) /\ Matches # {}
        BY <1>4 DEF ResponseDelivered
    <2>2. /\ SentId \in Ids /\ SentId \in Queued /\ SentId # qmsg /\ qmsg \in Ids
          /\ NonEmpty /\ ToSet(Rest) = Queued \ {qmsg} /\ Distinct(Rest)
          /\ Rest \in Seq(Ids) /\ Queued \subseteq Ids
        BY <2>1, SentIsPacked
    <2>3. SentPos \in 1..Len(Rest) /\ SentId = Rest[SentPos]
        BY <2>1, <2>2, SentType DEF SentId
    <2>4. Queued' = Queued \ {qmsg, SentId}
        <3>1. ToSet(RemoveAt(Rest, SentPos)) = ToSet(Rest) \ {SentId}
            BY <2>2, <2>3, RemoveAtElements
        <3>. QED  BY <1>4, <2>2, <3>1 DEF ResponseDelivered, Queued
    <2>5. ASSUME NEW id \in Queued' PROVE Steady(id)
        <3>1. id \in Queued /\ id \in Ids /\ id \notin {qmsg, SentId} /\ msg[id] \in Message
            BY <2>2, <2>4, <2>5 DEF TypeOK
        <3>2. /\ sends'[id] = sends[id]
              /\ \/ msg'[id] = msg[id]
                 \/ Reruns /\ id = LinkedId /\ msg'[id] = SetState(msg[id], "INITIAL_STATE")
            BY <1>4, <3>1 DEF ResponseDelivered, Cleared
        <3>3. CASE msg'[id] = msg[id]  BY <3>1, <3>2, <3>3, SameCountRefl DEF Steady
        <3>4. CASE Reruns /\ id = LinkedId /\ msg'[id] = SetState(msg[id], "INITIAL_STATE")
            <4>1. msg[id].state \notin Finished
                BY <3>4 DEF Reruns, Registering, Finished
            <4>. QED  BY <3>1, <3>2, <3>4, <4>1, SetStateCount DEF Steady
        <3>. QED  BY <3>2, <3>3, <3>4
    <2>6. UNCHANGED <<created, sent>> /\ created \in Nat
        BY <1>4, ManagerAssumption DEF ResponseDelivered, TypeOK
    <2>. QED  BY <2>5, <2>6, SteadyCount
<1>5. ASSUME ResponseBounces PROVE CountInv'
    <2>1. Response({"4xx"}) /\ Matches # {}
        BY <1>5 DEF ResponseBounces
    <2>2. /\ SentId \in Ids /\ SentId \in Queued /\ SentId # qmsg /\ qmsg \in Ids
          /\ msg[SentId] \in Message /\ qmsg \in Queued
          /\ ToSet(Rest) = Queued \ {qmsg} /\ Rest \in Seq(Ids) /\ Queued \subseteq Ids
        BY <2>1, SentIsPacked
    <2>3. ASSUME NEW s \in Finished
          PROVE  /\ SetState(msg[SentId], s) \in Message
                 /\ SameCount(msg[SentId], SetState(msg[SentId], s))
        BY <2>2, <2>3, SetStateIsMessage, PackedCount DEF Finished, sm_state
    <2>4. CASE Answered(SetState(msg[SentId], "NO_STATE"))
        BY <2>1, <2>3, <2>4, AnsweredCount DEF Finished
    <2>5. ASSUME NEW tag \in NewTags, NEW first \in BounceStates,
                 created < MaxMsgs, created' = created + 1,
                 time_sorted_list' = <<created + 1>> \o Rest,
                 msg' = [msg EXCEPT ![qmsg] = Nobody,
                                    ![created + 1] = SetState(Bounce(tag), first),
                                    ![SentId] = SetState(msg[SentId], "DELETE_ME_STATE")],
                 UNCHANGED <<sent, elapsed, mode, sends, waited, acked>>
          PROVE  CountInv'
        <3>. DEFINE new == created + 1
                    b == SetState(Bounce(tag), first)
                    m == SetState(msg[SentId], "DELETE_ME_STATE")
        <3>1. new \in Ids /\ new \notin Queued
            <4>1. new \in Ids
                BY <2>5, ManagerAssumption DEF TypeOK, Ids
            <4>2. new \notin Queued
                BY ManagerAssumption DEF TypeOK, ListInv
            <4>. QED  BY <4>1, <4>2
        <3>2. b.qtag = created + 1 /\ b.kind = "MESSAGE" /\ b.retries = 0
            <4>1. tag = created + 1
                BY DEF EveryAttemptSends, NewTags
            <4>. QED  BY <4>1, NewFields DEF Bounce
        <3>3. \A id \in Ids : msg'[id] = IF id = SentId THEN m ELSE IF id = new THEN b
                                         ELSE IF id = qmsg THEN Nobody ELSE msg[id]
            BY <2>2, <2>5, <3>1 DEF TypeOK
        <3>4. Queued' = (Queued \ {qmsg}) \cup {new}
            BY <2>2, <2>5, <3>1, ConsElements DEF Queued
        <3>5. SameCount(msg[SentId], m)
            BY <2>3 DEF Finished
        <3>6. sends'[new] = 0 /\ sends' = sends
            BY <2>5, <3>1 DEF SendsInv
        <3>. HIDE DEF b, m
        <3>7. \A id \in Queued' \ {new} : Steady(id)
            BY <2>2, <3>3, <3>4, <3>5, <3>6, SameCountRefl DEF Steady
        <3>8. Fresh(new)
            <4>1. new # SentId
                BY <2>2, <3>1
            <4>2. msg'[new] = b
                BY <3>1, <3>3, <4>1
            <4>. QED  BY <3>1, <3>2, <3>6, <4>2 DEF Fresh
        <3>9. created \in Nat
            BY ManagerAssumption DEF TypeOK
        <3>. QED  BY <2>5, <3>7, <3>8, <3>9, SteadyCount
    <2>. QED  BY <1>5, <2>4, <2>5 DEF ResponseBounces
<1>. QED  BY <1>1, <1>2, <1>3, <1>4, <1>5 DEF HandleResponse

LEMMA AttemptCount ==
    ASSUME Safe, NonEmpty
    PROVE  /\ Attempt.kind = msg[qmsg].kind /\ Attempt.qtag = msg[qmsg].qtag
           /\ Attempt.need_repack = msg[qmsg].need_repack
           /\ Attempt.retries = msg[qmsg].retries + 1
           /\ Packed.kind = msg[qmsg].kind /\ Packed.qtag = msg[qmsg].qtag
           /\ ~Packed.need_repack
           /\ Packed.retries = msg[qmsg].retries + 1
<1>. DEFINE m == IF msg[qmsg].state = "AWAITING_TRY_MSG_DELIVERY"
                 THEN SetState(msg[qmsg], "REQUEST_MSG_DELIVERY") ELSE msg[qmsg]
<1>1. SetState(msg[qmsg], "REQUEST_MSG_DELIVERY") \in Message /\ msg[qmsg] \in Message
    BY FrontType, SetStateIsMessage DEF Safe, sm_state
<1>2. m \in Message /\ m.need_repack = msg[qmsg].need_repack
    BY <1>1 DEF SetState, Message
<1>3. Attempt = [m EXCEPT !.retries = @ + 1]
    BY DEF Attempt
<1>. HIDE DEF m
<1>4. Attempt.need_repack = msg[qmsg].need_repack /\ Attempt \in Message
    BY <1>2, <1>3 DEF Message
<1>5. ~Packed.need_repack
    BY <1>4 DEF Packed, Message
<1>. QED  BY <1>4, <1>5, AttemptContinues DEF Safe, Continues

LEMMA SetStateFields ==
    ASSUME NEW m \in Message, NEW s
    PROVE  LET n == SetState(m, s)
           IN  /\ n.kind = m.kind /\ n.qtag = m.qtag /\ n.retries = m.retries
               /\ n.need_repack = m.need_repack /\ n.state = s
BY DEF SetState, Message

\* An attempt at the front message: it becomes m, and is counted as it should.
LEMMA FrontCount ==
    ASSUME Safe, CountInv, NonEmpty, NEW m \in Message, Requeue(m), created' = created,
           msg[qmsg].kind # "RESPONSE", m.kind = msg[qmsg].kind,
           sent \subseteq sent', \A s \in sent' \ sent : s[1] = msg[qmsg].qtag,
           \A id \in Ids : id # qmsg => sends'[id] = sends[id],
           NEW front, front = qmsg,
           msg'[front] = m /\ msg[front].qtag = front => Counted(front)'
    PROVE  CountInv'
<1>. USE DEF Safe
<1>1. /\ Queued' = Queued /\ Queued \subseteq Ids /\ qmsg \in Queued
      /\ Queued \subseteq 1..created
      /\ \A id \in Ids : msg'[id] = IF id = qmsg THEN m ELSE msg[id]
    BY RequeueList, FrontQueued DEF ListInv
<1>2. msg[qmsg].qtag = qmsg
    BY <1>1 DEF CountInv, Counted
<1>3. \A s \in sent' : s[1] \in 1..created'
    BY <1>1, <1>2 DEF CountInv
<1>4. ASSUME NEW id \in Queued'
      PROVE  IF msg'[id].kind = "RESPONSE" THEN Answers(id)' ELSE Counted(id)'
    <2>1. CASE id = qmsg
        <3>1. msg'[front] = m /\ msg[front].qtag = front /\ id = front
            BY <1>1, <1>2, <2>1
        <3>2. Counted(front)'
            BY <3>1
        <3>. QED  BY <3>1, <3>2
    <2>2. CASE id # qmsg
        <3>1. IF msg[id].kind = "RESPONSE" THEN Answers(id) ELSE Counted(id)
            BY <1>1, <1>4 DEF CountInv
        <3>2. msg'[id] = msg[id] /\ sends'[id] = sends[id]
            BY <1>1, <1>4, <2>2
        <3>3. (\A s \in sent : s[1] # id) => \A s \in sent' : s[1] # id
            BY <1>2, <2>2
        <3>. QED  BY <3>1, <3>2, <3>3 DEF Answers, Counted, max_retries
    <2>. QED  BY <2>1, <2>2
<1>. QED  BY <1>3, <1>4 DEF CountInv

LEMMA AttemptsCount ==
    ASSUME Safe, CountInv, EveryAttemptSends,
           PackFails \/ DropAfterRetries \/ RateLimit \/ Deliver
    PROVE  CountInv'
<1>. USE DEF Safe
<1>1. /\ NonEmpty /\ Delivering /\ qmsg \in Ids /\ qmsg \in Queued
      /\ msg[qmsg] \in Message /\ msg[qmsg].kind # "RESPONSE"
      /\ msg[qmsg].state \notin Finished
    BY FrontType, FrontQueued DEF PackFails, DropAfterRetries, RateLimit, Deliver,
                                  Delivering, Due, NonEmpty, Requests, Finished
<1>2. /\ Attempt \in Message /\ Packed \in Message
    BY <1>1, AttemptType
<1>3. /\ max_retries = 3 /\ sends[qmsg] \in Nat /\ msg[qmsg].retries \in Nat
      /\ sends[qmsg] <= msg[qmsg].retries /\ sends[qmsg] <= 3
    BY <1>1, ManagerAssumption DEF EveryAttemptSends, max_retries, SendsInv, TypeOK, Message
<1>4. /\ msg[qmsg].qtag = qmsg
      /\ msg[qmsg].need_repack => \A s \in sent : s[1] # qmsg
      /\ msg[qmsg].retries = sends[qmsg] \/ sends[qmsg] = 3
    BY <1>1, <1>3 DEF CountInv, Counted
<1>. PICK front \in Ids : front = qmsg
    BY <1>1
<1>5. ASSUME PackFails PROVE CountInv'
    <2>1. SetState(Attempt, "NO_STATE") \in Message
        BY <1>2, SetStateIsMessage DEF sm_state
    <2>2. LET n == SetState(Attempt, "NO_STATE")
          IN  /\ n.kind = msg[qmsg].kind /\ n.qtag = qmsg /\ n.need_repack
              /\ n.state = "NO_STATE"
        BY <1>1, <1>2, <1>4, <1>5, AttemptCount, SetStateFields DEF PackFails
    <2>3. /\ Requeue(SetState(Attempt, "NO_STATE"))
          /\ UNCHANGED <<created, sent, sends>>
        BY <1>5 DEF PackFails
    <2>4. msg[qmsg].need_repack
        BY <1>1, <1>5, AttemptCount DEF PackFails
    <2>5. msg'[front] = SetState(Attempt, "NO_STATE") => Counted(front)'
        BY <1>4, <2>2, <2>3, <2>4 DEF Counted, Finished
    <2>. QED  BY <1>1, <2>1, <2>2, <2>3, <2>5, FrontCount
<1>6. ASSUME DropAfterRetries PROVE CountInv'
    <2>1. SetState(Packed, "DELETE_ME_STATE") \in Message
        BY <1>2, SetStateIsMessage DEF sm_state
    <2>2. LET n == SetState(Packed, "DELETE_ME_STATE")
          IN  /\ n.kind = msg[qmsg].kind /\ n.qtag = qmsg /\ ~n.need_repack
        BY <1>1, <1>2, <1>4, AttemptCount, SetStateFields
    <2>3. /\ Requeue(SetState(Packed, "DELETE_ME_STATE"))
          /\ UNCHANGED <<created, sent, sends>>
        BY <1>6 DEF DropAfterRetries
    <2>4. sends[qmsg] = 3
        BY <1>1, <1>3, <1>4, <1>6, AttemptCount DEF DropAfterRetries, RetriesExceeded
    <2>5. msg'[front] = SetState(Packed, "DELETE_ME_STATE") => Counted(front)'
        BY <1>3, <2>2, <2>3, <2>4 DEF Counted, max_retries
    <2>. QED  BY <1>1, <2>1, <2>2, <2>3, <2>5, FrontCount
<1>7. ~RateLimit
    BY ManagerAssumption DEF RateLimit, TooSoon, msSMSRateLimit, EveryAttemptSends
<1>8. ASSUME Deliver PROVE CountInv'
    <2>1. SetState(Packed, "ASKED_FOR_MSG_DELIVERY") \in Message
        BY <1>2, SetStateIsMessage DEF sm_state
    <2>2. LET n == SetState(Packed, "ASKED_FOR_MSG_DELIVERY")
          IN  /\ n.kind = msg[qmsg].kind /\ n.qtag = qmsg /\ ~n.need_repack
              /\ n.retries = msg[qmsg].retries + 1
        BY <1>1, <1>2, <1>4, AttemptCount, SetStateFields
    <2>3. /\ Requeue(SetState(Packed, "ASKED_FOR_MSG_DELIVERY")) /\ created' = created
          /\ sent' = sent \cup {<<msg[qmsg].qtag, msg[qmsg].from>>}
          /\ sends' = [sends EXCEPT ![qmsg] = @ + 1]
        BY <1>8 DEF Deliver
    <2>4. msg[qmsg].retries = sends[qmsg]
        BY <1>1, <1>3, <1>4, <1>8, AttemptCount DEF Deliver, RetriesExceeded
    <2>5. /\ \A id \in Ids : id # qmsg => sends'[id] = sends[id]
          /\ sends'[qmsg] = sends[qmsg] + 1
        BY <1>1, <2>3 DEF TypeOK
    <2>6. msg'[front] = SetState(Packed, "ASKED_FOR_MSG_DELIVERY") => Counted(front)'
        BY <2>2, <2>4, <2>5 DEF Counted
    <2>7. sent \subseteq sent' /\ \A s \in sent' \ sent : s[1] = msg[qmsg].qtag
        BY <2>3
    <2>. QED  BY <1>1, <2>1, <2>2, <2>3, <2>5, <2>6, <2>7, FrontCount
<1>. QED  BY <1>5, <1>6, <1>7, <1>8

LEMMA ShortCodeCount ==
    ASSUME Safe, CountInv, EveryAttemptSends, HandleShortCode
    PROVE  CountInv'
<1>1. NonEmpty /\ msg[qmsg].state = "INITIAL_STATE"
    BY DEF HandleShortCode, ShortCodeReply, ShortCodeError, ShortCodeDone, ShortCodeAwait,
           ShortCodeRegister, ShortCodeRestart, ShortCodeRetry, ShortCodeQuit,
           ShortCode, Due, NonEmpty
<1>2. /\ msg[qmsg] \in Message /\ msg[qmsg].state \notin Finished
      /\ SetState(msg[qmsg], "DELETE_ME_STATE") \in Message
      /\ SameCount(msg[qmsg], SetState(msg[qmsg], "DELETE_ME_STATE"))
    <2>1. msg[qmsg] \in Message /\ msg[qmsg].state \notin Finished
        BY <1>1, FrontType DEF Safe, Finished
    <2>. QED  BY <2>1, SetStateIsMessage, SetStateCount DEF sm_state
<1>3. ASSUME NEW s \in sm_state, MoveTo(s) PROVE CountInv'
    BY <1>1, <1>2, <1>3, MoveToCount
<1>4. ASSUME ShortCodeReply PROVE CountInv'
    <2>1. ASSUME NEW tag \in NewTags,
                 OriginateAndRequeue(New("MESSAGE", tag, "user", NoTag, "none"),
                                     "REQUEST_DESTINATION_SIPURL",
                                     SetState(msg[qmsg], "DELETE_ME_STATE"))
          PROVE  CountInv'
        BY <1>1, <1>2, <2>1, OriginateCount DEF sm_state, Tags
    <2>. QED  BY <1>3, <1>4, <2>1 DEF ShortCodeReply, sm_state
<1>5. ASSUME ShortCodeError \/ ShortCodeDone \/ ShortCodeAwait \/ ShortCodeRestart
      PROVE  CountInv'
    BY <1>3, <1>5
       DEF ShortCodeError, ShortCodeDone, ShortCodeAwait, ShortCodeRestart, sm_state
<1>6. ASSUME ShortCodeRegister PROVE CountInv'
    BY <1>1, <1>2, <1>6, SameCountRefl, RegisterHandsetCount DEF ShortCodeRegister
<1>7. ~ShortCodeRetry
    BY DEF ShortCodeRetry, ShortCode, EveryAttemptSends
<1>8. ASSUME ShortCodeQuit PROVE CountInv'
    BY <1>1, <1>2, <1>8, RequeueCount DEF ShortCodeQuit
<1>. QED  BY <1>4, <1>5, <1>6, <1>7, <1>8 DEF HandleShortCode

LEMMA TickCount ==
    ASSUME Safe, CountInv, Tick
    PROVE  CountInv'
<1>1. UNCHANGED <<time_sorted_list, created, sent, sends>> /\ Queued' = Queued
    BY DEF Tick, Queued
<1>2. \A m \in Message : SameCount(m, [m EXCEPT !.due = @ - 1])
    BY DEF SameCount, Message
<1>3. ASSUME NEW id \in Queued' PROVE Steady(id)
    <2>1. id \in Ids /\ id \in Queued /\ msg[id] \in Message
        BY <1>1, <1>3 DEF Safe, TypeOK, ListInv, ListComplete
    <2>2. msg'[id] = [msg[id] EXCEPT !.due = @ - 1] \/ msg'[id] = msg[id]
        BY <2>1 DEF Tick
    <2>. QED  BY <1>1, <1>2, <2>1, <2>2, SameCountRefl DEF Steady
<1>4. created \in Nat
    BY ManagerAssumption DEF Safe, TypeOK
<1>. QED  BY <1>1, <1>3, <1>4, SteadyCount

LEMMA CountStep ==
    ASSUME Safe, CountInv, EveryAttemptSends, [Next]_vars
    PROVE  CountInv'
<1>. USE DEF Safe
<1>1. ASSUME ReceiveRequest PROVE CountInv'
    <2>1. PICK kind \in RequestKinds, tag \in NewTags :
              Arrive(New(kind, tag, "user", NoTag, "none"))
        BY <1>1 DEF ReceiveRequest
    <2>2. tag = created + 1 /\ kind \in {"MESSAGE", "OTHER"}
        BY ManagerAssumption DEF EveryAttemptSends, NewTags
    <2>3. IF kind = "RESPONSE" THEN \E s \in sent : s[1] = tag ELSE tag = created + 1
        BY <2>2
    <2>. QED  BY <2>1, <2>2, <2>3, ArriveCount
<1>2. ASSUME ReceiveResponse PROVE CountInv'
    <2>1. PICK s \in sent, status \in Statuses :
              Arrive(New("RESPONSE", s[1], s[2], NoTag, status))
        BY <1>2 DEF ReceiveResponse
    <2>. QED  BY <2>1, ArriveCount
<1>3. ASSUME RejectMethod \/ OrdinaryMessage PROVE CountInv'
    BY <1>3, MoveToCount DEF RejectMethod, OrdinaryMessage, Due, NonEmpty, sm_state, Finished
<1>4. ASSUME DeleteMessage PROVE CountInv'
    BY <1>4, DropFrontCount DEF DeleteMessage, Due, NonEmpty
<1>5. ASSUME LookupFromAddress PROVE CountInv'
    <2>. DEFINE m == IF msg[qmsg].state \in Unexpected
                     THEN SetState(msg[qmsg], "INITIAL_STATE") ELSE msg[qmsg]
    <2>1. NonEmpty /\ msg[qmsg].state \notin Finished /\ UNCHANGED <<created, sent, sends>>
        BY <1>5 DEF LookupFromAddress, Due, NonEmpty, Unexpected, Finished
    <2>2. m \in Message /\ SameCount(msg[qmsg], m) /\ msg[qmsg] \in Message
        BY <2>1, FrontType, SetStateIsMessage, SetStateCount, SameCountRefl DEF sm_state
    <2>3. PICK newstate \in {"NO_STATE", "REQUEST_DESTINATION_IMSI"} :
              Requeue(SetState(m, newstate))
        BY <1>5 DEF LookupFromAddress
    <2>. HIDE DEF m
    <2>4. SetState(m, newstate) \in Message
        BY <2>2, <2>3, SetStateIsMessage DEF sm_state
    <2>5. SameCount(msg[qmsg], SetState(m, newstate))
        BY <2>1, <2>2, SetStateCountTwice
    <2>. QED  BY <2>1, <2>3, <2>4, <2>5, RequeueCount
<1>6. ASSUME LookupUriImsi PROVE CountInv'
    <2>1. NonEmpty /\ msg[qmsg].state \notin Finished
        BY <1>6 DEF LookupUriImsi, Due, NonEmpty, Finished
    <2>2. ASSUME MoveTo("NO_STATE") \/ MoveTo("REQUEST_DESTINATION_SIPURL")
          PROVE  CountInv'
        BY <2>1, <2>2, MoveToCount DEF sm_state
    <2>3. ASSUME NEW tag \in NewTags, NEW first \in BounceStates,
                 OriginateAndRequeue(Bounce(tag), first,
                                     SetState(msg[qmsg], "DELETE_ME_STATE"))
          PROVE  CountInv'
        <3>1. SetState(msg[qmsg], "DELETE_ME_STATE") \in Message
              /\ SameCount(msg[qmsg], SetState(msg[qmsg], "DELETE_ME_STATE"))
            BY <2>1, FrontType, SetStateIsMessage, SetStateCount DEF sm_state
        <3>2. first \in sm_state /\ NoTag \in Tags
            BY DEF BounceStates, sm_state, Tags
        <3>. QED  BY <2>1, <2>3, <3>1, <3>2, OriginateCount DEF Bounce
    <2>. QED  BY <1>6, <2>2, <2>3 DEF LookupUriImsi
<1>7. ASSUME CrashInLookup \/ UNCHANGED vars PROVE CountInv'
    <2>1. UNCHANGED <<time_sorted_list, msg, created, sent, sends>>
        BY <1>7 DEF CrashInLookup, vars
    <2>2. \A id \in Queued' : Steady(id)
        BY <2>1, SameCountRefl DEF Steady, Queued
    <2>3. created \in Nat
        BY ManagerAssumption DEF TypeOK
    <2>. QED  BY <2>1, <2>2, <2>3, SteadyCount
<1>8. ASSUME LookupUriHostport \/ NoAnswer \/ AwaitRegister \/ NoRegisterAnswer
      PROVE  CountInv'
    BY <1>8, MoveToCount DEF LookupUriHostport, NoAnswer, AwaitRegister,
                             NoRegisterAnswer, Due, NonEmpty, sm_state, Finished
<1>9. ASSUME Register PROVE CountInv'
    <2>1. NonEmpty /\ msg[qmsg].state \notin Finished
        BY <1>9 DEF Register, Due, NonEmpty, Finished
    <2>2. SetState(msg[qmsg], "REGISTER_HANDSET") \in Message
          /\ SameCount(msg[qmsg], SetState(msg[qmsg], "REGISTER_HANDSET"))
        BY <2>1, FrontType, SetStateIsMessage, SetStateCount DEF sm_state
    <2>. QED  BY <1>9, <2>1, <2>2, RegisterHandsetCount DEF Register
<1>. QED  BY <1>1, <1>2, <1>3, <1>4, <1>5, <1>6, <1>7, <1>8, <1>9, ShortCodeCount,
             HandleResponseCount, AttemptsCount, TickCount DEF Next, ProcessTimeout

\* A message that is dropped for its retries was sent as often as they allow: no attempt
\* that did not send is counted.
THEOREM AllSendsUsed ==
    ASSUME EveryAttemptSends
    PROVE  Spec => []DroppedAfterAllSends
<1>1. Init => CountInv
    BY DEF Init, CountInv, Queued, ToSet
<1>2. Safe /\ CountInv /\ [Next]_vars => CountInv'
    BY CountStep
<1>3. Safe /\ CountInv => DroppedAfterAllSends
    <2>. SUFFICES ASSUME Safe, CountInv, Delivering, RetriesExceeded
                  PROVE  sends[qmsg] = max_retries
        BY DEF DroppedAfterAllSends
    <2>1. /\ NonEmpty /\ qmsg \in Ids /\ qmsg \in Queued /\ msg[qmsg] \in Message
          /\ msg[qmsg].kind # "RESPONSE" /\ msg[qmsg].state \notin Finished
        BY FrontType, FrontQueued DEF Safe, Delivering, Due, NonEmpty, Requests, Finished
    <2>2. msg[qmsg].retries = sends[qmsg] \/ sends[qmsg] = max_retries
        BY <2>1 DEF CountInv, Counted
    <2>3. /\ sends[qmsg] \in Nat /\ max_retries \in Nat
          /\ max_retries > 0 /\ sends[qmsg] <= max_retries
          /\ msg[qmsg].retries + 1 > max_retries
        BY <2>1, RateLimitInNat, AttemptCount DEF Safe, TypeOK, SendsInv, RetriesExceeded
    <2>. QED  BY <2>2, <2>3
<1>. QED  BY <1>1, <1>2, <1>3, Safety, PTL DEF Spec

================================================================================
