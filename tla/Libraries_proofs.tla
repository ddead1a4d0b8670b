---------------------------- MODULE Libraries_proofs ----------------------------
(***************************************************************************)
(* Theorems about the common libraries: every block of memory has one      *)
(* owner, for any number of vectors, blocks and sizes; and the cache of    *)
(* the configuration and the keys that are reported dirty are right, for   *)
(* any keys, values and period; and what is accepted as the value of a key *)
(* is what the descriptions tell, for values of any length.                *)
(***************************************************************************)
EXTENDS Configuration, Vectors, ConfigurationKeys, WellFoundedInduction, TLAPS

--------------------------------------------------------------------------------
(* The memory of vectors *)

VecInv == VecTypeOK /\ OneOwner

LEMMA OneMore ==
    ASSUME NEW n \in Nat, NEW S, NEW T, NEW m, S \subseteq 1..n, m = n + 1,
           \A c \in T : c \in S \/ c = n + 1
    PROVE  T \subseteq 1..m
<1> SUFFICES ASSUME NEW c \in T PROVE c \in 1..m
  OBVIOUS
<1>1. CASE c = n + 1
  BY <1>1
<1>2. CASE c \in S
  <2>1. c \in 1..n
    BY <1>2
  <2> QED BY <2>1
<1> QED BY <1>1, <1>2

\* A block that is freed was owned by nobody else.
LEMMA AllocateKeeps ==
    ASSUME VecInv, NEW v \in Vecs, NEW n, NEW x, Allocate(v, x, n),
           \/ x = Nothing /\ vec[v] = Gone
           \/ x = vec[v] /\ vec[v] # Gone
    PROVE  VecInv'
<1> USE VectorsAssumption DEF Vector, Nothing, Owns, Freed
<1>1. n \in 0..MaxSize
  BY DEF Allocate
<1>2. CASE n = 0
  <2>1. /\ vec' = [vec EXCEPT ![v] = Nothing]
        /\ live' = live \ {x.data}
        /\ length' = length
    BY <1>2 DEF Allocate
  <2>2. VecTypeOK'
    BY <2>1 DEF VecInv, VecTypeOK
  <2>3. OneOwner'
    BY <2>1 DEF VecInv, VecTypeOK, OneOwner
  <2> QED BY <2>2, <2>3 DEF VecInv
<1>3. CASE n # 0
  <2> DEFINE b == Len(length) + 1
             new == [data |-> b, into |-> b, first |-> 0, end |-> n]
  <2>1. /\ vec' = [vec EXCEPT ![v] = new]
        /\ live' = (live \ {x.data}) \cup {b}
        /\ length' = Append(length, n)
    BY <1>3 DEF Allocate, NewBlock
  <2>2. b \in Nat /\ b \notin live /\ n \in 1..MaxSize
    BY <1>1, <1>3 DEF VecInv, VecTypeOK
  <2>3. VecTypeOK'
    <3>1. length' \in Seq(1..MaxSize) /\ Len(length') = Len(length) + 1
      BY <2>1, <2>2 DEF VecInv, VecTypeOK
    <3>2. live' \subseteq 1..Len(length')
      <4>1. Len(length) \in Nat /\ live \subseteq 1..Len(length)
        BY DEF VecInv, VecTypeOK
      <4>2. Len(length') = Len(length) + 1 /\ \A c \in live' : c \in live \/ c = Len(length) + 1
        BY <2>1, <3>1
      <4> QED BY <4>1, <4>2, OneMore
    <3>3. new \in Vector
      BY <2>2
    <3>4. vec' \in [Vecs -> Vector \cup {Gone}]
      BY <2>1, <3>3 DEF VecInv, VecTypeOK
    <3> QED BY <3>1, <3>2, <3>4 DEF VecTypeOK
  <2>4. OneOwner'
    <3>1. \A w \in Vecs : vec'[w] = IF w = v THEN new ELSE vec[w]
      BY <2>1 DEF VecInv, VecTypeOK
    <3>2. new # Gone /\ new.data = b /\ b # Null
      BY <2>2
    <3>3. \A w \in Vecs : vec[w] # Gone /\ vec[w].data # Null => vec[w].data # b
      BY <2>2 DEF VecInv, VecTypeOK, OneOwner
    <3>4. \A w \in Vecs : w # v /\ vec[w] # Gone /\ vec[w].data # Null => vec[w].data # x.data
      BY DEF VecInv, OneOwner
    <3> HIDE DEF new, b
    <3>5. \A w \in Vecs : vec'[w] # Gone /\ vec'[w].data # Null => vec'[w].data \in live'
      BY <2>1, <3>1, <3>2, <3>4 DEF VecInv, OneOwner
    <3>6. \A w, u \in Vecs : vec'[w] # Gone /\ vec'[u] # Gone /\ vec'[w].data # Null
                                /\ vec'[w].data = vec'[u].data => w = u
      BY <3>1, <3>2, <3>3 DEF VecInv, OneOwner
    <3>7. \A c \in live' : \E w \in Vecs : vec'[w] # Gone /\ vec'[w].data = c
      <4> TAKE c \in live'
      <4>1. CASE c = b
        BY <3>1, <3>2, <4>1
      <4>2. CASE c # b
        <5>1. c \in live /\ c # x.data
          BY <2>1, <4>2
        <5>2. PICK w \in Vecs : vec[w] # Gone /\ vec[w].data = c
          BY <5>1 DEF VecInv, OneOwner
        <5>3. w # v
          BY <5>1, <5>2
        <5> QED BY <3>1, <5>2, <5>3
      <4> QED BY <4>1, <4>2
    <3> QED BY <3>5, <3>6, <3>7 DEF OneOwner
  <2> QED BY <2>3, <2>4 DEF VecInv
<1> QED BY <1>2, <1>3

LEMMA MakeAliasKeeps ==
    ASSUME VecInv, NEW v \in Vecs, NEW x, NEW s \in Vector, MakeAlias(v, x, s),
           \/ x = Nothing /\ vec[v] = Gone
           \/ x = vec[v] /\ vec[v] # Gone
    PROVE  VecInv'
<1> USE VectorsAssumption DEF Vector, Nothing, Owns, Freed, Alias
<1>1. /\ vec' = [vec EXCEPT ![v] = [s EXCEPT !.data = Null]]
      /\ live' = live \ {x.data}
      /\ length' = length
  BY DEF MakeAlias
<1>2. VecTypeOK'
  BY <1>1 DEF VecInv, VecTypeOK
<1>3. OneOwner'
  BY <1>1 DEF VecInv, VecTypeOK, OneOwner
<1> QED BY <1>2, <1>3 DEF VecInv

LEMMA DestroyKeeps == ASSUME VecInv, NEW v \in Vecs, Destroy(v) PROVE VecInv'
<1> USE VectorsAssumption DEF Vector, Owns, Freed, Destroy
<1>1. VecTypeOK'
  BY DEF VecInv, VecTypeOK
<1>2. OneOwner'
  BY DEF VecInv, VecTypeOK, OneOwner
<1> QED BY <1>1, <1>2 DEF VecInv

LEMMA TakeSegmentKeeps ==
    ASSUME VecInv, NEW v \in Vecs, NEW a \in Vecs, NEW start \in 0..MaxSize, NEW span \in 0..MaxSize,
           TakeSegment(v, a, start, span)
    PROVE  VecInv'
<1> DEFINE new == Segment(vec[a], start, span)
<1>1. new \in Vector /\ new.data = Null
  <2>1. vec[a] \in Vector /\ start \in Nat /\ span \in Nat
    BY VectorsAssumption DEF VecInv, VecTypeOK, TakeSegment
  <2>2. PICK d \in Nat \cup {Null}, i \in Nat \cup {Null}, f \in Nat, e \in Nat :
             vec[a] = [data |-> d, into |-> i, first |-> f, end |-> e]
    BY <2>1 DEF Vector
  <2>3. new = [data |-> Null, into |-> i, first |-> f + start, end |-> f + start + span]
    BY <2>2 DEF Segment, Alias
  <2> QED BY <2>1, <2>2, <2>3 DEF Vector
<1>2. vec[v] = Gone /\ vec' = [vec EXCEPT ![v] = new] /\ live' = live /\ length' = length
  BY DEF TakeSegment
<1> HIDE DEF new
<1>3. VecTypeOK'
  BY <1>1, <1>2 DEF VecInv, VecTypeOK
<1>4. \A w \in Vecs : vec'[w] = IF w = v THEN new ELSE vec[w]
  BY <1>2 DEF VecInv, VecTypeOK
<1>5. OneOwner'
  BY <1>1, <1>2, <1>4 DEF VecInv, OneOwner, Owns
<1> QED BY <1>3, <1>5 DEF VecInv

\* The memory goes from a to v; what v had is freed.
LEMMA ShiftedKeeps ==
    ASSUME VecInv, NEW v \in Vecs, NEW a \in Vecs, v # a, vec[a] # Gone,
           vec' = Shifted(v, a, vec[a]), length' = length,
           \/ vec[v] = Gone /\ live' = live
           \/ vec[v] # Gone /\ live' = live \ {vec[v].data}
    PROVE  VecInv'
<1>1. vec[a] \in Vector /\ Alias(vec[a]) \in Vector /\ Alias(vec[a]).data = Null
  BY VectorsAssumption DEF VecInv, VecTypeOK, Alias, Vector
<1> DEFINE x == vec[a]
           y == Alias(vec[a])
<1>2. /\ vec' \in [Vecs -> Vector \cup {Gone}]
      /\ \A w \in Vecs : vec'[w] = IF w = v THEN x ELSE IF w = a THEN y ELSE vec[w]
  BY <1>1 DEF VecInv, VecTypeOK, Shifted
<1>3. VecTypeOK'
  BY <1>2 DEF VecInv, VecTypeOK
<1>4. x # Gone /\ y # Gone /\ x \in Vector /\ y.data = Null
  BY <1>1, VectorsAssumption DEF Vector
<1>5. OneOwner'
  <2> HIDE DEF x, y
  <2>1. \A w \in Vecs : vec'[w] # Gone /\ vec'[w].data # Null => vec'[w].data \in live'
    BY <1>2, <1>4 DEF VecInv, OneOwner, Owns, x
  <2>2. \A w, u \in Vecs : vec'[w] # Gone /\ vec'[u] # Gone /\ vec'[w].data # Null
                              /\ vec'[w].data = vec'[u].data => w = u
    BY <1>2, <1>4 DEF VecInv, OneOwner, Owns, x
  <2>3. \A b \in live' : \E w \in Vecs : vec'[w] # Gone /\ vec'[w].data = b
    <3> TAKE b \in live'
    <3>1. PICK w \in Vecs : vec[w] # Gone /\ vec[w].data = b
      BY DEF VecInv, OneOwner
    <3>2. w # v
      BY <3>1
    <3>3. CASE w = a
      BY <1>2, <1>4, <3>1, <3>3 DEF x
    <3>4. CASE w # a
      BY <1>2, <3>1, <3>2, <3>4
    <3> QED BY <3>3, <3>4
  <2> QED BY <2>1, <2>2, <2>3 DEF OneOwner, Owns
<1> QED BY <1>3, <1>5 DEF VecInv

LEMMA ShiftConstructKeeps ==
    ASSUME VecInv, NEW v \in Vecs, NEW a \in Vecs, ShiftConstruct(v, a) PROVE VecInv'
BY ShiftedKeeps DEF ShiftConstruct

LEMMA ShiftAssignKeeps ==
    ASSUME VecInv, NEW v \in Vecs, NEW a \in Vecs, ShiftAssign(v, a) PROVE VecInv'
<1>1. CASE v = a
  <2>1. Nothing \in Vector /\ Nothing.data = Null
    BY DEF Nothing, Vector
  <2>2. vec[v] # Gone /\ vec' = [vec EXCEPT ![v] = Nothing] /\ live' = live \ {vec[v].data} /\ length' = length
    BY <1>1 DEF ShiftAssign, Freed
  <2>3. VecTypeOK'
    BY <2>1, <2>2 DEF VecInv, VecTypeOK
  <2>4. \A w \in Vecs : vec'[w] = IF w = v THEN Nothing ELSE vec[w]
    BY <2>2 DEF VecInv, VecTypeOK
  <2>5. OneOwner'
    BY <2>1, <2>2, <2>4 DEF VecInv, OneOwner, Owns
  <2> QED BY <2>3, <2>5 DEF VecInv
<1>2. CASE v # a
  BY <1>2, ShiftedKeeps DEF ShiftAssign, Freed
<1> QED BY <1>1, <1>2

LEMMA VecNextKeeps == VecInv /\ [VecNext]_vecVars => VecInv'
<1> SUFFICES ASSUME VecInv, [VecNext]_vecVars PROVE VecInv'
  OBVIOUS
<1>1. CASE UNCHANGED vecVars
  BY <1>1 DEF VecInv, VecTypeOK, OneOwner, vecVars, Owns, Vector
<1>2. ASSUME NEW v \in Vecs, Destroy(v) PROVE VecInv'
  BY <1>2, DestroyKeeps
<1>3. ASSUME NEW v \in Vecs, NEW n \in 0..MaxSize, Construct(v, n) \/ Resize(v, n) PROVE VecInv'
  BY <1>3, AllocateKeeps DEF Construct, Resize
<1>4. ASSUME NEW v \in Vecs, NEW a \in Vecs, Clone(v, a) PROVE VecInv'
  BY <1>4, AllocateKeeps DEF Clone
<1>5. ASSUME NEW v \in Vecs, NEW a \in Vecs, vec[a] # Gone PROVE vec[a] \in Vector
  BY <1>5 DEF VecInv, VecTypeOK
<1>6. ASSUME NEW v \in Vecs, NEW a \in Vecs, CopyConstruct(v, a) \/ Assign(v, a) \/ Dup(v, a) PROVE VecInv'
  BY <1>5, <1>6, AllocateKeeps, MakeAliasKeeps DEF CopyConstruct, Assign, Dup
<1>7. ASSUME NEW v \in Vecs, NEW a \in Vecs, ShiftConstruct(v, a) \/ ShiftAssign(v, a) PROVE VecInv'
  BY <1>7, ShiftConstructKeeps, ShiftAssignKeeps
<1>8. ASSUME NEW v \in Vecs, NEW a \in Vecs, NEW start \in 0..MaxSize, NEW span \in 0..MaxSize,
             TakeSegment(v, a, start, span) \/ CloneSegment(v, a, start, span)
      PROVE  VecInv'
  BY <1>8, TakeSegmentKeeps, AllocateKeeps DEF CloneSegment
<1>9. ASSUME NEW v \in Vecs, NEW a \in Vecs, NEW b \in Vecs, Concatenate(v, a, b) PROVE VecInv'
  BY <1>9, AllocateKeeps DEF Concatenate
<1> QED BY <1>1, <1>2, <1>3, <1>4, <1>6, <1>7, <1>8, <1>9 DEF VecNext

\* Every block that is not freed has one owner, whatever is copied, assigned, taken over and
\* destroyed.
THEOREM OwnersAreUnique == VecSpec => []OneOwner
<1>1. VecInit => VecInv
  BY DEF VecInit, VecInv, VecTypeOK, OneOwner
<1>2. VecInv => OneOwner
  BY DEF VecInv
<1> QED BY <1>1, <1>2, VecNextKeeps, PTL DEF VecSpec

--------------------------------------------------------------------------------
(* The configuration *)

Known == Values \cup {NoRecord, Undefined}

ConfTypeOK ==
    /\ table \in [Keys -> Values \cup {NoRecord}]
    /\ cache \in [Keys -> Known]
    /\ age \in Nat
    /\ late \in [Keys -> Nat]
    /\ \/ update = NoUpdate
       \/ update \in [at : {"read"}, key : Schema, new : Valid]
       \/ update \in [at : {"set"}, key : Schema, new : Valid, old : Known]
       \/ update \in [at : {"changed"}, key : Static, new : Valid, old : Known]

\* What is reported of k is right if its value is v.
Told(k, v) ==
    /\ k \in DOMAIN dirty <=> v # atStart[k]
    /\ k \in DOMAIN dirty => dirty[k] = atStart[k]

\* What is reported of k is judged.
Judged(k) == k \notin others \cup misled

\* An update of a key that is not dirty knows the value in effect, which it replaces; between
\* its last two steps the report is still the one for that.
UpdateInv ==
    /\ \A k \in Static :
           Judged(k) /\ ~(update.at = "changed" /\ update.key = k) => Told(k, Effective(k))
    /\ update.at = "set" /\ Judged(update.key) /\ update.key \notin DOMAIN dirty =>
           update.old = Effective(update.key) /\ update.new # update.old
    /\ update.at = "changed" /\ Judged(update.key) =>
           /\ update.new = Effective(update.key)
           /\ IF update.key \in DOMAIN dirty THEN dirty[update.key] = atStart[update.key]
              ELSE update.old = atStart[update.key] /\ update.new # update.old

ConfInv == ConfTypeOK /\ StaleIsYoung /\ CacheAgrees /\ UpdateInv

--------------------------------------------------------------------------------

LEMMA EffectiveIs ==
    ASSUME ConfTypeOK, NEW k \in Keys
    PROVE  /\ Effective(k) \in Values \cup {Undefined}
           /\ Effective(k) # NoRecord
           /\ table[k] # NoRecord => Effective(k) = table[k]
           /\ Fallback(k) \in Values \cup {Undefined}
           /\ Fallback(k) # NoRecord
BY ConfigurationAssumption DEF ConfTypeOK, Effective, Fallback

\* A lookup keeps the cache right, and tells what is effective unless the record was overtaken.
LEMMA LookupKeeps ==
    ASSUME ConfInv, NEW k \in Keys, NEW found \in {Effective(k), Fallback(k)}, Lookup(k, found)
    PROVE  /\ cache' \in [Keys -> Known] /\ age' \in Nat /\ late' \in [Keys -> Nat]
           /\ StaleIsYoung' /\ CacheAgrees'
           /\ others' = others /\ table' = table
<1> DEFINE record == IF Purged[k] = NoRecord THEN found ELSE Purged[k]
<1>1. /\ found \in Values \cup {Undefined} /\ found # NoRecord
      /\ \A l \in Keys : Effective(l) \in Values \cup {Undefined} /\ Effective(l) # NoRecord
  BY EffectiveIs DEF ConfInv
<1>2. Purged \in [Keys -> Known] /\ \A l \in Keys : Purged[l] \in {cache[l], NoRecord}
  BY DEF Purged, ConfInv, ConfTypeOK, Known
<1>3. record \in Known /\ record # NoRecord
  BY <1>1, <1>2 DEF Known
<1>4. /\ cache' = [Purged EXCEPT ![k] = record] /\ table' = table
      /\ age' = IF age >= Period THEN 0 ELSE age
      /\ late' = [l \in Keys |-> IF cache'[l] = NoRecord \/ Purged[l] = NoRecord
                                 THEN 0 ELSE late[l]]
      /\ others' = others
  BY DEF Lookup
<1> HIDE DEF record
<1>5. cache' \in [Keys -> Known] /\ age' \in Nat /\ late' \in [Keys -> Nat]
  BY <1>2, <1>3, <1>4 DEF ConfInv, ConfTypeOK
<1>6. StaleIsYoung'
  <2>1. CASE age >= Period
    <3>1. \A l \in Keys : Purged[l] = NoRecord
      BY <2>1 DEF Purged
    <3> QED BY <1>4, <1>5, <2>1, <3>1 DEF StaleIsYoung
  <2>2. CASE ~(age >= Period)
    BY <1>4, <2>2 DEF StaleIsYoung, ConfInv, ConfTypeOK
  <2> QED BY <2>1, <2>2
<1>7. \A l \in Keys : Effective(l)' = Effective(l)
  BY <1>4 DEF Effective, Fallback
<1>8. ASSUME k \notin overtaken' PROVE record = Effective(k)
  <2>1. CASE Purged[k] = NoRecord
    <3>1. found = Effective(k)
      BY <1>8, <2>1 DEF Lookup
    <3> QED BY <2>1, <3>1 DEF record
  <2>2. CASE Purged[k] # NoRecord
    <3>1. ~(age >= Period) /\ overtaken' = overtaken
      BY <2>2 DEF Purged, Lookup
    <3> QED BY <1>2, <1>8, <2>2, <3>1 DEF record, CacheAgrees, ConfInv
  <2> QED BY <2>1, <2>2
<1>9. CacheAgrees'
  <2> SUFFICES ASSUME NEW l \in Keys, l \notin overtaken'
               PROVE  cache'[l] \in {NoRecord, Effective(l)}
    BY <1>7 DEF CacheAgrees
  <2>1. CASE l = k
    BY <1>2, <1>4, <1>8, <2>1
  <2>2. CASE l # k /\ age >= Period
    BY <1>2, <1>4, <2>2 DEF Purged
  <2>3. CASE l # k /\ ~(age >= Period)
    <3>1. l \notin overtaken
      BY <1>1, <2>3 DEF Lookup
    <3> QED BY <1>2, <1>4, <2>3, <3>1 DEF CacheAgrees, ConfInv
  <2> QED BY <2>1, <2>2, <2>3
<1> QED BY <1>4, <1>5, <1>6, <1>9

LEMMA StoreKeeps ==
    ASSUME ConfInv, NEW k \in Keys, NEW v \in Values, Store(k, v)
    PROVE  /\ table' \in [Keys -> Values \cup {NoRecord}] /\ cache' \in [Keys -> Known]
           /\ age' \in Nat /\ late' \in [Keys -> Nat]
           /\ StaleIsYoung' /\ CacheAgrees'
           /\ Effective(k)' = v
           /\ \A l \in Keys : l # k => Effective(l)' = Effective(l)
<1>1. /\ table' = [table EXCEPT ![k] = v] /\ cache' = [cache EXCEPT ![k] = v]
      /\ late' = [late EXCEPT ![k] = 0] /\ age' = age /\ overtaken' = overtaken \ {k}
  BY DEF Store
<1>2. /\ table' \in [Keys -> Values \cup {NoRecord}] /\ cache' \in [Keys -> Known]
      /\ age' \in Nat /\ late' \in [Keys -> Nat]
  BY <1>1 DEF ConfInv, ConfTypeOK, Known
<1>3. v # NoRecord
  BY ConfigurationAssumption
<1>4. Effective(k)' = v
  BY <1>1, <1>3 DEF Effective, Fallback, ConfInv, ConfTypeOK
<1>5. \A l \in Keys : l # k => Effective(l)' = Effective(l)
  BY <1>1 DEF Effective, Fallback, ConfInv, ConfTypeOK
<1>6. StaleIsYoung'
  BY <1>1 DEF StaleIsYoung, ConfInv, ConfTypeOK
<1>7. CacheAgrees'
  <2> SUFFICES ASSUME NEW l \in Keys, l \notin overtaken'
               PROVE  cache'[l] \in {NoRecord, Effective(l)'}
    BY DEF CacheAgrees
  <2>1. CASE l = k
    BY <1>1, <1>4, <2>1 DEF ConfInv, ConfTypeOK
  <2>2. CASE l # k
    BY <1>1, <1>5, <2>2 DEF CacheAgrees, ConfInv, ConfTypeOK
  <2> QED BY <2>1, <2>2
<1> QED BY <1>2, <1>4, <1>5, <1>6, <1>7

--------------------------------------------------------------------------------
\* What changes no update and no report, and what is effective only where it says so.
LEMMA QuietKeeps ==
    ASSUME UpdateInv, ConfTypeOK, UNCHANGED manager, others \subseteq others',
           \A l \in Keys \ others' : Effective(l)' = Effective(l)
    PROVE  UpdateInv'
<1>0. UNCHANGED <<update, dirty, atStart, misled>>
  BY DEF manager
<1>1. \A k, v : Told(k, v)' = Told(k, v)
  BY <1>0 DEF Told
<1>2. Static \subseteq Keys /\ Schema \subseteq Keys
  BY ConfigurationAssumption
<1>3. \A k : Judged(k)' => Judged(k) /\ k \notin others'
  BY <1>0 DEF Judged
<1>4. update.at \in {"set", "changed"} => update.key \in Keys
  BY <1>2 DEF ConfTypeOK, NoUpdate
<1>5. \A k \in Static :
          Judged(k)' /\ ~(update.at = "changed" /\ update.key = k) => Told(k, Effective(k)')
  BY <1>2, <1>3 DEF UpdateInv
<1>6. \A k \in Static :
          Judged(k)' /\ ~(update'.at = "changed" /\ update'.key = k) => Told(k, Effective(k))'
  BY <1>0, <1>5 DEF Told
<1> QED BY <1>0, <1>3, <1>4, <1>6 DEF UpdateInv

LEMMA GetKeeps == ASSUME ConfInv, NEW k \in Keys, Get(k) PROVE ConfInv'
<1>1. PICK found \in {Effective(k), Fallback(k)} : Lookup(k, found)
  BY DEF Get
<1>2. UNCHANGED manager
  BY DEF Get
<1>3. /\ cache' \in [Keys -> Known] /\ age' \in Nat /\ late' \in [Keys -> Nat]
      /\ StaleIsYoung' /\ CacheAgrees' /\ others' = others /\ table' = table
  BY <1>1, LookupKeeps
<1>4. ConfTypeOK'
  BY <1>2, <1>3 DEF ConfInv, ConfTypeOK, manager
<1>5. \A l \in Keys : Effective(l)' = Effective(l)
  BY <1>3 DEF Effective, Fallback
<1>6. UpdateInv'
  BY <1>2, <1>3, <1>5, QuietKeeps DEF ConfInv
<1> QED BY <1>3, <1>4, <1>6 DEF ConfInv

LEMMA SetKeeps ==
    ASSUME ConfInv, NEW k \in Keys, NEW v \in Values, Set(k, v) PROVE ConfInv'
<1>1. Store(k, v) /\ others' = others \cup {k} /\ UNCHANGED manager
  BY DEF Set
<1>2. /\ table' \in [Keys -> Values \cup {NoRecord}] /\ cache' \in [Keys -> Known]
      /\ age' \in Nat /\ late' \in [Keys -> Nat]
      /\ StaleIsYoung' /\ CacheAgrees'
      /\ \A l \in Keys : l # k => Effective(l)' = Effective(l)
  BY <1>1, StoreKeeps
<1>3. ConfTypeOK'
  BY <1>1, <1>2 DEF ConfInv, ConfTypeOK, manager
<1>4. UpdateInv'
  BY <1>1, <1>2, QuietKeeps DEF ConfInv
<1> QED BY <1>2, <1>3, <1>4 DEF ConfInv

LEMMA RemoveKeeps == ASSUME ConfInv, NEW k \in Keys, Remove(k) PROVE ConfInv'
<1>1. /\ cache' = [cache EXCEPT ![k] = NoRecord] /\ late' = [late EXCEPT ![k] = 0] /\ age' = age
      /\ others' = others \cup {k} /\ overtaken' = overtaken \ {k} /\ UNCHANGED manager
      /\ table' = [table EXCEPT ![k] = NoRecord] \/ table' = table
  BY DEF Remove
<1>2. ConfTypeOK'
  BY <1>1 DEF ConfInv, ConfTypeOK, manager, Known
<1>3. \A l \in Keys : l # k => Effective(l)' = Effective(l)
  BY <1>1 DEF Effective, Fallback, ConfInv, ConfTypeOK
<1>4. StaleIsYoung'
  BY <1>1 DEF StaleIsYoung, ConfInv, ConfTypeOK
<1>5. CacheAgrees'
  BY <1>1, <1>3 DEF CacheAgrees, ConfInv, ConfTypeOK
<1>6. UpdateInv'
  BY <1>1, <1>3, QuietKeeps DEF ConfInv
<1> QED BY <1>2, <1>4, <1>5, <1>6 DEF ConfInv

LEMMA PurgeKeeps == ASSUME ConfInv, Purge PROVE ConfInv'
<1>1. /\ cache' = [k \in Keys |-> NoRecord] /\ late' = [k \in Keys |-> 0]
      /\ overtaken' = {} /\ UNCHANGED <<table, age, others, manager>>
  BY DEF Purge
<1>2. ConfTypeOK'
  BY <1>1 DEF ConfInv, ConfTypeOK, manager, Known
<1>3. \A l \in Keys : Effective(l)' = Effective(l)
  BY <1>1 DEF Effective, Fallback
<1>4. StaleIsYoung' /\ CacheAgrees'
  BY <1>1 DEF StaleIsYoung, CacheAgrees, ConfInv, ConfTypeOK
<1>5. UpdateInv'
  BY <1>1, <1>3, QuietKeeps DEF ConfInv
<1> QED BY <1>2, <1>4, <1>5 DEF ConfInv

LEMMA ForeignKeeps ==
    ASSUME ConfInv, NEW k \in Keys, NEW v \in Values \cup {NoRecord}, Foreign(k, v)
    PROVE  ConfInv'
<1>1. /\ table' = [table EXCEPT ![k] = v] /\ others' = others \cup {k}
      /\ overtaken' = overtaken \cup {k} /\ UNCHANGED <<cache, age, late, manager>>
  BY DEF Foreign
<1>2. ConfTypeOK'
  BY <1>1 DEF ConfInv, ConfTypeOK, manager
<1>3. \A l \in Keys : l # k => Effective(l)' = Effective(l)
  BY <1>1 DEF Effective, Fallback, ConfInv, ConfTypeOK
<1>4. StaleIsYoung' /\ CacheAgrees'
  BY <1>1, <1>3 DEF StaleIsYoung, CacheAgrees, ConfInv
<1>5. UpdateInv'
  BY <1>1, <1>3, QuietKeeps DEF ConfInv
<1> QED BY <1>2, <1>4, <1>5 DEF ConfInv

LEMMA TickKeeps == ASSUME ConfInv, Tick PROVE ConfInv'
<1>1. /\ age' = Up(age) /\ UNCHANGED <<table, cache, overtaken, others, manager>>
      /\ late' = [k \in Keys |-> IF cache[k] \notin {NoRecord, Effective(k)} THEN Up(late[k]) ELSE 0]
  BY DEF Tick
<1>2. \A n \in Nat : Up(n) \in Nat /\ \A m \in Nat : m <= n => Up(m) <= Up(n)
  BY ConfigurationAssumption DEF Up
<1>3. age' \in Nat /\ late' \in [Keys -> Nat]
  BY <1>1, <1>2 DEF ConfInv, ConfTypeOK
<1>4. ConfTypeOK'
  BY <1>1, <1>3 DEF ConfInv, ConfTypeOK, manager
<1>5. \A l \in Keys : Effective(l)' = Effective(l)
  BY <1>1 DEF Effective, Fallback
<1>6. StaleIsYoung'
  <2> SUFFICES ASSUME NEW k \in Keys PROVE late'[k] <= age'
    BY DEF StaleIsYoung
  <2>1. late[k] \in Nat /\ age \in Nat /\ late[k] <= age
    BY DEF ConfInv, ConfTypeOK, StaleIsYoung
  <2>2. late'[k] \in {Up(late[k]), 0}
    BY <1>1
  <2> QED BY <1>1, <1>2, <2>1, <2>2
<1>7. CacheAgrees'
  BY <1>1, <1>5 DEF CacheAgrees, ConfInv
<1>8. UpdateInv'
  BY <1>1, <1>5, QuietKeeps DEF ConfInv
<1> QED BY <1>4, <1>6, <1>7, <1>8 DEF ConfInv

--------------------------------------------------------------------------------
(* The update of the node manager, step by step *)

LEMMA UpdateKeeps ==
    ASSUME ConfInv, NEW k \in Keys, NEW v \in Values, Update(k, v) PROVE ConfInv'
<1>1. /\ update = NoUpdate /\ update' = [at |-> "read", key |-> k, new |-> v]
      /\ k \in Schema /\ v \in Valid
      /\ UNCHANGED <<table, cache, age, late, dirty, atStart, overtaken, others, misled>>
  BY DEF Update
<1>2. update.at = "idle" /\ update'.at = "read"
  BY <1>1 DEF NoUpdate
<1>3. ConfTypeOK'
  BY <1>1 DEF ConfInv, ConfTypeOK
<1>4. StaleIsYoung' /\ CacheAgrees'
  BY <1>1 DEF StaleIsYoung, CacheAgrees, ConfInv, Effective, Fallback
<1>5. UpdateInv'
  BY <1>1, <1>2 DEF UpdateInv, ConfInv, Judged, Told, Effective, Fallback
<1> QED BY <1>3, <1>4, <1>5 DEF ConfInv

LEMMA ReadOldKeeps == ASSUME ConfInv, ReadOld PROVE ConfInv'
<1> DEFINE k == update.key
<1>1. /\ update.at = "read" /\ k \in Schema /\ update.new \in Valid /\ k \in Keys
  BY ConfigurationAssumption DEF ReadOld, ConfInv, ConfTypeOK, NoUpdate
<1>2. PICK found \in {Effective(k), Fallback(k)} : Lookup(k, found)
  BY DEF ReadOld
<1>3. /\ update' = IF cache'[k] = update.new THEN NoUpdate
                    ELSE [at |-> "set", key |-> k, new |-> update.new, old |-> cache'[k]]
      /\ UNCHANGED <<dirty, atStart>>
      /\ misled' = IF k \in DOMAIN dirty \/ cache'[k] \in {update.new, Effective(k)}
                   THEN misled ELSE misled \cup {k}
  BY DEF ReadOld
<1>4. /\ cache' \in [Keys -> Known] /\ age' \in Nat /\ late' \in [Keys -> Nat]
      /\ StaleIsYoung' /\ CacheAgrees' /\ others' = others /\ table' = table
  BY <1>1, <1>2, LookupKeeps
<1>5. ConfTypeOK'
  BY <1>1, <1>3, <1>4 DEF ConfInv, ConfTypeOK
<1>6. \A l : Effective(l)' = Effective(l)
  BY <1>4 DEF Effective, Fallback
<1>7. UpdateInv'
  <2>1. update'.at \in {"idle", "set"}
    BY <1>3 DEF NoUpdate
  <2>2. update'.at = "set" =>
            /\ update'.key = k /\ update'.old = cache'[k] /\ update'.new # cache'[k]
            /\ cache'[k] # update.new
    BY <1>3 DEF NoUpdate
  <2>3. \A l : Judged(l)' => Judged(l)
    BY <1>3, <1>4 DEF Judged
  <2>4. \A l \in Static : Judged(l)' => Told(l, Effective(l))
    BY <1>1, <2>3 DEF UpdateInv, ConfInv
  <2>5. \A l \in Static : Judged(l)' => Told(l, Effective(l))'
    BY <1>3, <1>6, <2>4 DEF Told
  <2>6. Judged(k)' /\ k \notin DOMAIN dirty /\ cache'[k] # update.new => cache'[k] = Effective(k)
    BY <1>3 DEF Judged
  <2> QED BY <1>3, <1>6, <2>1, <2>2, <2>5, <2>6 DEF UpdateInv
<1> QED BY <1>4, <1>5, <1>7 DEF ConfInv

LEMMA SetNewKeeps == ASSUME ConfInv, SetNew PROVE ConfInv'
<1>0. PICK k \in Schema : k = update.key /\ k \in Keys
  BY ConfigurationAssumption DEF SetNew, ConfInv, ConfTypeOK, NoUpdate
<1>1. /\ update.at = "set" /\ update.key = k /\ update.new \in Valid /\ update.new \in Values
      /\ update \in [at : {"set"}, key : Schema, new : Valid, old : Known]
  BY <1>0, ConfigurationAssumption DEF SetNew, ConfInv, ConfTypeOK, NoUpdate
<1>2. UNCHANGED <<dirty, atStart, others, misled>> /\ \A l : Judged(l)' = Judged(l)
  BY DEF SetNew, Judged
<1>3. \A l \in Static : Judged(l) => Told(l, Effective(l))
  BY <1>1 DEF UpdateInv, ConfInv
<1>4. CASE Store(k, update.new) /\ update' = IF k \in Static THEN [update EXCEPT !.at = "changed"] ELSE NoUpdate
  <2>1. /\ table' \in [Keys -> Values \cup {NoRecord}] /\ cache' \in [Keys -> Known]
        /\ age' \in Nat /\ late' \in [Keys -> Nat]
        /\ StaleIsYoung' /\ CacheAgrees'
        /\ Effective(k)' = update.new
        /\ \A l \in Keys : l # k => Effective(l)' = Effective(l)
    BY <1>0, <1>1, <1>2, <1>4, StoreKeeps
  <2>2. \/ k \notin Static /\ update' = NoUpdate /\ update'.at = "idle"
        \/ /\ k \in Static /\ update'.at = "changed" /\ update'.key = k
           /\ update'.new = update.new /\ update'.old = update.old
           /\ update' \in [at : {"changed"}, key : Static, new : Valid, old : Known]
    BY <1>1, <1>4 DEF NoUpdate
  <2>3. ConfTypeOK'
    BY <2>1, <2>2 DEF ConfTypeOK
  <2>4. \A l \in Static : Judged(l) /\ l # k => Told(l, Effective(l))'
    BY <1>2, <1>3, <2>1, ConfigurationAssumption DEF Told
  <2>5. k \in Static /\ Judged(k) =>
            IF k \in DOMAIN dirty THEN dirty[k] = atStart[k]
            ELSE update.old = atStart[k] /\ update.new # update.old
    BY <1>1, <1>3 DEF UpdateInv, ConfInv, Told
  <2>6. UpdateInv'
    BY <1>2, <2>1, <2>2, <2>4, <2>5 DEF UpdateInv
  <2> QED BY <2>1, <2>3, <2>6 DEF ConfInv
<1>5. CASE update' = NoUpdate /\ UNCHANGED <<table, cache, age, late, overtaken>>
  <2>1. update'.at = "idle"
    BY <1>5 DEF NoUpdate
  <2>2. ConfTypeOK'
    BY <1>5 DEF ConfInv, ConfTypeOK
  <2>3. StaleIsYoung' /\ CacheAgrees'
    BY <1>2, <1>5 DEF StaleIsYoung, CacheAgrees, ConfInv, Effective, Fallback
  <2>4. UpdateInv'
    BY <1>2, <1>3, <1>5, <2>1 DEF UpdateInv, Told, Effective, Fallback
  <2> QED BY <2>2, <2>3, <2>4 DEF ConfInv
<1> QED BY <1>1, <1>4, <1>5 DEF SetNew

LEMMA AddDirtyKeeps == ASSUME ConfInv, AddDirty PROVE ConfInv'
<1> DEFINE k == update.key
<1>1. /\ update.at = "changed" /\ k \in Static /\ update' = NoUpdate
      /\ dirty' = WithKey(k, update.old, update.new)
      /\ UNCHANGED <<table, cache, age, late, atStart, overtaken, others, misled>>
  BY DEF AddDirty, ConfInv, ConfTypeOK, NoUpdate
<1>2. update'.at = "idle"
  BY <1>1 DEF NoUpdate
<1>3. ConfTypeOK'
  BY <1>1 DEF ConfInv, ConfTypeOK
<1>4. StaleIsYoung' /\ CacheAgrees'
  BY <1>1 DEF StaleIsYoung, CacheAgrees, ConfInv, Effective, Fallback
<1>5. \A l : l # k => /\ l \in DOMAIN dirty' <=> l \in DOMAIN dirty
                      /\ l \in DOMAIN dirty => dirty'[l] = dirty[l]
  BY <1>1 DEF WithKey
<1>6. /\ k \notin DOMAIN dirty => k \in DOMAIN dirty' /\ dirty'[k] = update.old
      /\ k \in DOMAIN dirty => /\ k \in DOMAIN dirty' <=> dirty[k] # update.new
                               /\ k \in DOMAIN dirty' => dirty'[k] = dirty[k]
  BY <1>1 DEF WithKey
<1>7. ASSUME NEW l \in Static, Judged(l) PROVE Told(l, Effective(l))'
  <2>1. Effective(l)' = Effective(l) /\ atStart' = atStart
    BY <1>1 DEF Effective, Fallback
  <2>2. CASE l # k
    <3>1. Told(l, Effective(l))
      BY <1>7, <2>2 DEF UpdateInv, ConfInv
    <3> QED BY <1>5, <2>1, <2>2, <3>1 DEF Told
  <2>3. CASE l = k
    <3>1. /\ update.new = Effective(k)
          /\ IF k \in DOMAIN dirty THEN dirty[k] = atStart[k]
             ELSE update.old = atStart[k] /\ update.new # update.old
      BY <1>1, <1>7, <2>3 DEF UpdateInv, ConfInv
    <3> QED BY <1>6, <2>1, <2>3, <3>1 DEF Told
  <2> QED BY <2>2, <2>3
<1>8. UpdateInv'
  <2>1. \A l : Judged(l)' = Judged(l)
    BY <1>1 DEF Judged
  <2> QED BY <1>2, <1>7, <2>1 DEF UpdateInv
<1> QED BY <1>3, <1>4, <1>8 DEF ConfInv

--------------------------------------------------------------------------------

LEMMA ConfInitInv == ConfInit => ConfInv
<1> SUFFICES ASSUME ConfInit PROVE ConfInv
  OBVIOUS
<1>1. ConfTypeOK
  BY ConfigurationAssumption DEF ConfInit, ConfTypeOK, Known
<1>2. StaleIsYoung /\ CacheAgrees
  BY ConfigurationAssumption DEF ConfInit, StaleIsYoung, CacheAgrees
<1>3. update.at = "idle"
  BY DEF ConfInit, NoUpdate
<1>4. UpdateInv
  BY <1>3, ConfigurationAssumption DEF ConfInit, UpdateInv, Told
<1> QED BY <1>1, <1>2, <1>4 DEF ConfInv

LEMMA ConfNextKeeps == ConfInv /\ [ConfNext]_confVars => ConfInv'
<1> SUFFICES ASSUME ConfInv, [ConfNext]_confVars PROVE ConfInv'
  OBVIOUS
<1>1. CASE UNCHANGED confVars
  BY <1>1 DEF confVars, ConfInv, ConfTypeOK, StaleIsYoung, CacheAgrees, UpdateInv,
    Judged, Told, Effective, Fallback
<1>2. ASSUME NEW k \in Keys, Get(k) \/ Remove(k) \/ Foreign(k, NoRecord) PROVE ConfInv'
  BY <1>2, GetKeeps, RemoveKeeps, ForeignKeeps
<1>3. ASSUME NEW k \in Keys, NEW v \in Values, Set(k, v) \/ Foreign(k, v) \/ Update(k, v)
      PROVE  ConfInv'
  BY <1>3, SetKeeps, ForeignKeeps, UpdateKeeps
<1> QED BY <1>1, <1>2, <1>3, TickKeeps, PurgeKeeps, ReadOldKeeps, SetNewKeeps, AddDirtyKeeps DEF ConfNext

\* No value that was wrong for the whole period of the cache is ever returned, for any keys,
\* values and period.
THEOREM CacheIsYoung == ConfSpec => []StaleIsYoung
<1>1. ConfInv => StaleIsYoung
  BY DEF ConfInv
<1> QED BY <1>1, ConfInitInv, ConfNextKeeps, PTL DEF ConfSpec

\* The cache is right about every key, but while another process has overtaken its record, or
\* the record was made when the row could not be read.
THEOREM CacheIsRight == ConfSpec => []CacheAgrees
<1>1. ConfInv => CacheAgrees
  BY DEF ConfInv
<1> QED BY <1>1, ConfInitInv, ConfNextKeeps, PTL DEF ConfSpec

\* Whatever updates follow each other and whatever set of them fails, those keys are reported
\* dirty that do not have the value in effect, with the value in effect; but for keys that
\* anybody else wrote, and for those that became dirty when the old value could not be read.
THEOREM DirtyIsTold == ConfSpec => []DirtyTells
<1>1. ConfInv => DirtyTells
  <2>1. NoUpdate.at = "idle"
    BY DEF NoUpdate
  <2> QED BY <2>1 DEF ConfInv, UpdateInv, Judged, DirtyTells, Told
<1> QED BY <1>1, ConfInitInv, ConfNextKeeps, PTL DEF ConfSpec

--------------------------------------------------------------------------------
(* What a value of a key may be *)

\* A non-empty set of natural numbers has a smallest element.
LEMMA LeastOf ==
    ASSUME NEW T, T \subseteq Nat, T # {}
    PROVE  \E n \in T : \A m \in T : n <= m
<1>1. PICK x \in T : \A m \in T : <<m, x>> \notin OpToRel(<, Nat)
  BY WFMin, NatLessThanWellFounded, Zenon
<1>2. \A m \in T : m \in Nat /\ x \in Nat /\ ~(m < x)
  BY <1>1, Zenon DEF OpToRel
<1>3. \A m \in T : x <= m
  BY <1>2
<1> QED BY <1>3

\* A token is of one kind, and what it carries is of that kind.
LEMMA TokenKinds ==
    ASSUME NEW t \in Token
    PROVE  /\ Is("number", t) => /\ t.number \in Nat
                                 /\ t = Num(t.number)
                                 /\ ~Is("address", t) /\ ~Is("delimiter", t)
           /\ Is("address", t) => t.address \in Nat /\ ~Is("delimiter", t)
           /\ \A c : t = Delimiter(c) => /\ Is("delimiter", t)
                                         /\ ~Is("number", t) /\ ~Is("address", t)
<1> USE DEF Is, Num, Delimiter
<1>1. CASE t \in [address : Nat]
  BY <1>1
<1>2. CASE t \in [word : Words]
  BY <1>2
<1>3. CASE t \in [number : Nat]
  BY <1>3
<1>4. CASE t \in [delimiter : {"colon", "slash", "blank", "dash", "comma", "bar"}]
  BY <1>4
<1> QED BY <1>1, <1>2, <1>3, <1>4 DEF Token

\* find: the first position from the given one on, or none.
LEMMA FindIsFirst ==
    ASSUME NEW s \in Strings, NEW c, NEW from \in Nat
    PROVE  LET f == Find(s, c, from) IN
           /\ \/ f = Npos /\ \A i \in from..(Len(s) - 1) : s[i + 1] # Delimiter(c)
              \/ f \in from..(Len(s) - 1) /\ s[f + 1] = Delimiter(c)
           /\ \A i \in from..(Len(s) - 1) : s[i + 1] = Delimiter(c) => f <= i
           /\ f \in Nat
<1> DEFINE at == {i \in from..(Len(s) - 1) : s[i + 1] = Delimiter(c)}
<1>1. Len(s) \in Nat
  BY DEF Strings
<1>2. CASE at = {}
  <2>1. Find(s, c, from) = Npos
    BY <1>2 DEF Find
  <2>2. \A i \in from..(Len(s) - 1) : s[i + 1] # Delimiter(c)
    BY <1>2
  <2>3. Npos \in Nat
    BY DEF Npos
  <2> QED BY <2>1, <2>2, <2>3
<1>3. CASE at # {}
  <2>1. at \subseteq Nat
    BY <1>1
  <2>2. \E i \in at : \A j \in at : i <= j
    BY <2>1, <1>3, LeastOf
  <2>3. Find(s, c, from) = CHOOSE i \in at : \A j \in at : i <= j
    BY <1>3 DEF Find
  <2> HIDE DEF at
  <2>4. Find(s, c, from) \in at /\ \A j \in at : Find(s, c, from) <= j
    BY <2>2, <2>3
  <2> QED BY <2>4, <1>1 DEF at
<1> QED BY <1>2, <1>3

\* substr: what is left of a string is one, and has the tokens that it had there.
LEMMA SubstrIsPart ==
    ASSUME NEW s \in Strings, NEW from \in Nat, NEW n \in Int
    PROVE  LET part == Substr(s, from, n)
               end == IF from + n < Len(s) THEN from + n ELSE Len(s)
           IN  /\ part \in Strings
               /\ Len(part) = IF from < end THEN end - from ELSE 0
               /\ \A i \in 1..Len(part) : part[i] = s[from + i]
               /\ Len(part) = 0 => part = << >>
BY DEF Strings, Substr, Npos

LEMMA SubstrWithin ==
    ASSUME NEW s \in Strings, NEW from \in Nat, NEW n \in Nat, from + n <= Len(s)
    PROVE  /\ Substr(s, from, n) \in Strings
           /\ Len(Substr(s, from, n)) = n
           /\ \A i \in 1..n : Substr(s, from, n)[i] = s[from + i]
           /\ n = 0 => Substr(s, from, n) = << >>
<1>1. (IF from + n < Len(s) THEN from + n ELSE Len(s)) = from + n
  BY DEF Strings
<1>2. Substr(s, from, n) = SubSeq(s, from + 1, from + n)
  BY <1>1 DEF Substr
<1> QED BY <1>2 DEF Strings, Npos

LEMMA RestIsPart ==
    ASSUME NEW s \in Strings, NEW from \in Nat
    PROVE  /\ Rest(s, from) \in Strings
           /\ Len(Rest(s, from)) = IF from < Len(s) THEN Len(s) - from ELSE 0
           /\ \A i \in 1..Len(Rest(s, from)) : Rest(s, from)[i] = s[from + i]
           /\ Len(Rest(s, from)) = 0 => Rest(s, from) = << >>
<1>1. Len(s) \in Nat /\ Len(s) < Npos /\ Npos \in Int
  BY DEF Strings, Npos
<1>2. ~(from + Npos < Len(s))
  BY <1>1
<1> QED BY SubstrIsPart, <1>1, <1>2 DEF Rest

\* stringstream >> int: nothing, a number, an address, or some whole number.
LEMMA ExtractReads ==
    ASSUME NEW s \in Strings, NEW old \in Int
    PROVE  /\ s = << >> => Extract(s, old) = old
           /\ Len(s) > 0 /\ Is("number", s[1]) => Extract(s, old) = s[1].number
           /\ Extract(s, old) \in Int
<1>1. s \in Seq(Token) /\ Len(s) \in Nat /\ DOMAIN s = 1..Len(s) /\ \A i \in 1..Len(s) : s[i] \in Token
  BY DEF Strings
<1>2. CASE s = << >>
  BY <1>2 DEF Extract
<1>3. CASE s # << >>
  <2>1. Len(s) > 0 /\ s[1] \in Token
    BY <1>1, <1>3
  <2>2. CASE Is("number", s[1])
    <3>1. s[1].number \in Nat /\ ~Is("address", s[1]) /\ s[1] # Delimiter("dash")
      BY <2>1, <2>2, TokenKinds
    <3>2. Extract(s, old) = s[1].number
      BY <3>1, <2>2, <1>3 DEF Extract
    <3> QED BY <3>1, <3>2, <1>3
  <2>3. CASE ~Is("number", s[1]) /\ Is("address", s[1])
    <3>1. s[1].address \in Nat /\ s[1] # Delimiter("dash")
      BY <2>1, <2>3, TokenKinds
    <3>2. Extract(s, old) = s[1].address
      BY <3>1, <2>3, <1>3 DEF Extract
    <3> QED BY <3>1, <3>2, <1>3, <2>3
  <2>4. CASE ~Is("number", s[1]) /\ ~Is("address", s[1])
    <3>1. CASE Len(s) > 1 /\ s[1] = Delimiter("dash") /\ Is("number", s[2])
      <4>1. s[2] \in Token
        BY <3>1, <1>1
      <4>2. s[2].number \in Nat
        BY <3>1, <4>1, TokenKinds
      <4>3. Extract(s, old) = -s[2].number
        BY <3>1, <2>4, <1>3 DEF Extract
      <4> QED BY <4>2, <4>3, <2>4, <1>3
    <3>2. CASE ~(Len(s) > 1 /\ s[1] = Delimiter("dash") /\ Is("number", s[2]))
      <4>1. Extract(s, old) = 0
        BY <3>2, <2>4, <1>3 DEF Extract
      <4> QED BY <4>1, <2>4, <1>3
    <3> QED BY <3>1, <3>2
  <2> QED BY <2>2, <2>3, <2>4
<1> QED BY <1>2, <1>3

LEMMA StringTokens ==
    ASSUME NEW s \in Strings
    PROVE  /\ s \in Seq(Token) /\ Len(s) \in Nat /\ DOMAIN s = 1..Len(s)
           /\ \A i \in 1..Len(s) : s[i] \in Token
BY DEF Strings

LEMMA NumberToken ==
    ASSUME NEW t \in Token, NEW low \in Int, NEW high \in Int
    PROVE  IsNumber(<<t>>, low, high) <=> Is("number", t) /\ low <= t.number /\ t.number <= high
<1>1. Is("number", t) => t.number \in Nat
  BY TokenKinds
<1> QED BY <1>1 DEF IsNumber

\* Of a value of at most three tokens, the third a number: what is in front of the first
\* delimiter and behind it, as the code and as the descriptions see it.
LEMMA PairIsRead ==
    ASSUME NEW val \in Strings, NEW c, ~EndsOtherwise(val, 3), Wide => Find(val, c, 0) # Npos
    PROVE  LET Split == /\ Len(val) = 3 /\ val[2] = Delimiter(c) /\ val[1] # Delimiter(c)
                        /\ Found(Find(val, c, 0))
                        /\ Before(val, c) = <<val[1]>>
                        /\ Is("number", val[3]) /\ Behind(val, c) = val[3].number
           IN  /\ Len(val) = 3 /\ val[2] = Delimiter(c) /\ val[1] # Delimiter(c) => Split
               /\ Found(Find(val, c, 0)) => Split \/ Before(val, c) = << >> \/ Behind(val, c) = -1
<1> DEFINE pos == Find(val, c, 0)
<1>1. /\ val \in Seq(Token) /\ Len(val) \in Nat /\ \A i \in 1..Len(val) : val[i] \in Token
      /\ Len(val) <= 3 /\ (Len(val) = 3 => Is("number", val[3]))
  BY StringTokens DEF EndsOtherwise
<1>2. Len(val) = 3 => val[3] # Delimiter(c)
  BY <1>1, TokenKinds
<1>3. /\ \/ pos = Npos /\ \A i \in 0..(Len(val) - 1) : val[i + 1] # Delimiter(c)
         \/ pos \in 0..(Len(val) - 1) /\ val[pos + 1] = Delimiter(c)
      /\ \A i \in 0..(Len(val) - 1) : val[i + 1] = Delimiter(c) => pos <= i
      /\ pos \in Nat /\ Npos \in Nat
  BY FindIsFirst DEF Npos
<1>4. Found(pos) <=> pos # Npos
  BY DEF Found
<1> HIDE DEF pos
<1>5. CASE pos = Npos
  <2>1. ~(Len(val) = 3 /\ val[2] = Delimiter(c))
    <3> SUFFICES ASSUME Len(val) = 3, val[2] = Delimiter(c) PROVE FALSE
      OBVIOUS
    <3>1. 1 \in 0..(Len(val) - 1) /\ val[1 + 1] = Delimiter(c)
      OBVIOUS
    <3>2. pos <= 1
      BY <3>1, <1>3
    <3> QED BY <3>2, <1>5 DEF Npos
  <2> QED BY <2>1, <1>4, <1>5 DEF pos
<1>6. CASE pos # Npos
  <2>1. pos \in 0..(Len(val) - 1) /\ val[pos + 1] = Delimiter(c)
    BY <1>3, <1>6
  <2>2. /\ Before(val, c) \in Strings
        /\ Len(Before(val, c)) = pos
        /\ \A i \in 1..pos : Before(val, c)[i] = val[i]
        /\ pos = 0 => Before(val, c) = << >>
    <3>1. Before(val, c) = Substr(val, 0, pos)
      BY DEF Before, pos
    <3>2. pos \in Nat /\ 0 + pos <= Len(val) /\ \A i \in 1..pos : 0 + i = i
      BY <2>1, <1>1
    <3> QED BY <3>1, <3>2, SubstrWithin
  <2>3. /\ Rest(val, pos + 1) \in Strings
        /\ Len(Rest(val, pos + 1)) = Len(val) - (pos + 1)
        /\ \A i \in 1..(Len(val) - (pos + 1)) : Rest(val, pos + 1)[i] = val[pos + 1 + i]
        /\ Len(val) = pos + 1 => Rest(val, pos + 1) = << >>
    BY <2>1, <1>1, RestIsPart
  <2>4. Behind(val, c) = Extract(Rest(val, pos + 1), -1)
    BY <1>6 DEF Behind, After, pos
  <2>5. CASE pos = 0
    <3>1. val[1] = Delimiter(c)
      BY <2>1, <2>5
    <3> QED BY <3>1, <2>2, <2>5
  <2>6. CASE pos = 1 /\ Len(val) = 2
    <3>1. Behind(val, c) = -1
      BY <2>3, <2>4, <2>6, ExtractReads
    <3> QED BY <3>1, <2>6
  <2>7. CASE pos = 1 /\ Len(val) = 3
    <3>1. val[2] = Delimiter(c) /\ val[1] # Delimiter(c)
      <4>1. 0 \in 0..(Len(val) - 1) /\ ~(pos <= 0)
        BY <2>7
      <4>2. val[0 + 1] # Delimiter(c)
        BY <4>1, <1>3
      <4> QED BY <4>2, <2>1, <2>7
    <3>2. Before(val, c) = <<val[1]>>
      BY <2>2, <2>7 DEF Strings
    <3>3. Len(Rest(val, pos + 1)) = 1 /\ Rest(val, pos + 1)[1] = val[3]
      BY <2>3, <2>7
    <3>4. Behind(val, c) = val[3].number
      <4>1. Extract(Rest(val, pos + 1), -1) = Rest(val, pos + 1)[1].number
        <5>1. /\ Rest(val, pos + 1) \in Strings /\ -1 \in Int
              /\ Len(Rest(val, pos + 1)) > 0 /\ Is("number", Rest(val, pos + 1)[1])
          BY <3>3, <2>3, <2>7, <1>1
        <5> QED BY <5>1, ExtractReads
      <4> QED BY <4>1, <3>3, <2>4
    <3> QED BY <3>1, <3>2, <3>4, <2>7, <1>1, <1>4, <1>6 DEF pos
  <2>8. pos = 0 \/ (pos = 1 /\ Len(val) = 2) \/ (pos = 1 /\ Len(val) = 3)
    <3>1. ~(pos = 2 /\ Len(val) = 3)
      BY <2>1, <1>2
    <3>2. pos \in Nat /\ Len(val) \in Nat /\ Len(val) <= 3 /\ pos < Len(val)
      BY <2>1, <1>1
    <3>3. \A p, n \in Nat : n <= 3 /\ p < n /\ ~(p = 2 /\ n = 3) =>
              p = 0 \/ (p = 1 /\ n = 2) \/ (p = 1 /\ n = 3)
      OBVIOUS
    <3> QED BY <3>1, <3>2, <3>3
  <2> QED BY <2>5, <2>6, <2>7, <2>8
<1> QED BY <1>5, <1>6

LEMMA FirstTokens ==
    ASSUME NEW t \in Token
    PROVE  /\ IsValidIP(<<t>>) => \A c : t # Delimiter(c)
           /\ IsHost(<<t>>) => t # Delimiter("colon")
           /\ ~IsValidIP(<< >>) /\ ~IsHost(<< >>)
<1>1. IsValidIP(<<t>>) <=> Is("address", t)
  BY DEF IsValidIP
<1>2. IsValidIP(<<t>>) => \A c : t # Delimiter(c)
  BY <1>1, TokenKinds
<1>3. Delimiter("dash") # Delimiter("colon")
  BY DEF Delimiter
<1>4. ASSUME t = Delimiter("colon") PROVE ~IsHost(<<t>>)
  <2>1. Is("delimiter", t) /\ ~IsValidIP(<<t>>)
    BY <1>2, <1>4, TokenKinds
  <2>2. ~Text(<<t>>)
    <3>1. 1 \in DOMAIN <<t>> /\ <<t>>[1] = t
      OBVIOUS
    <3> QED BY <3>1, <2>1, <1>3, <1>4 DEF Text
  <2> QED BY <2>1, <2>2 DEF IsHost
<1>5. ~IsValidIP(<< >>) /\ ~IsHost(<< >>)
  BY DEF IsValidIP, IsHost
<1> QED BY <1>2, <1>4, <1>5

LEMMA CIDRAgrees ==
    ASSUME NEW val \in Strings, ~EndsOtherwise(val, 3), Wide => Find(val, "slash", 0) # Npos
    PROVE  IsCIDR(val) <=> IsPair(val, "slash", IsValidIP, 0, 32)
<1>1. Len(val) = 3 => val[1] \in Token /\ val[3] \in Token
  <2>1. Len(val) = 3 => 1 \in 1..Len(val) /\ 3 \in 1..Len(val)
    OBVIOUS
  <2> QED BY <2>1, StringTokens
<1>2. ASSUME IsCIDR(val) PROVE IsPair(val, "slash", IsValidIP, 0, 32)
  <2>1. Before(val, "slash") # << >> /\ Behind(val, "slash") # -1
    BY <1>2, FirstTokens DEF IsCIDR, InCIDR, IsValidIP
  <2>2. /\ Len(val) = 3 /\ val[2] = Delimiter("slash")
        /\ Before(val, "slash") = <<val[1]>>
        /\ Is("number", val[3]) /\ Behind(val, "slash") = val[3].number
    BY <1>2, <2>1, PairIsRead DEF IsCIDR
  <2> QED BY <1>1, <1>2, <2>2, NumberToken DEF IsCIDR, InCIDR, IsPair
<1>3. ASSUME IsPair(val, "slash", IsValidIP, 0, 32) PROVE IsCIDR(val)
  <2>1. Len(val) = 3 /\ val[2] = Delimiter("slash") /\ IsValidIP(<<val[1]>>) /\ IsNumber(<<val[3]>>, 0, 32)
    BY <1>3 DEF IsPair
  <2>2. val[1] # Delimiter("slash")
    BY <2>1, <1>1, FirstTokens
  <2>3. /\ Found(Find(val, "slash", 0)) /\ Before(val, "slash") = <<val[1]>>
        /\ Behind(val, "slash") = val[3].number
    BY <2>1, <2>2, PairIsRead
  <2> QED BY <2>1, <2>3, <1>1, NumberToken DEF IsCIDR, InCIDR
<1> QED BY <1>2, <1>3

LEMMA IPAndPortAgrees ==
    ASSUME NEW val \in Strings, ~EndsOtherwise(val, 3), Wide => Find(val, "colon", 0) # Npos
    PROVE  IsIPAndPort(val) <=> IsPair(val, "colon", IsValidIP, 1, 65535)
<1>1. Len(val) = 3 => val[1] \in Token /\ val[3] \in Token
  <2>1. Len(val) = 3 => 1 \in 1..Len(val) /\ 3 \in 1..Len(val)
    OBVIOUS
  <2> QED BY <2>1, StringTokens
<1>2. ASSUME IsIPAndPort(val) PROVE IsPair(val, "colon", IsValidIP, 1, 65535)
  <2>1. Before(val, "colon") # << >> /\ Behind(val, "colon") # -1
    BY <1>2 DEF IsIPAndPort, InPortRange, IsValidIP
  <2>2. /\ Len(val) = 3 /\ val[2] = Delimiter("colon")
        /\ Before(val, "colon") = <<val[1]>>
        /\ Is("number", val[3]) /\ Behind(val, "colon") = val[3].number
    BY <1>2, <2>1, PairIsRead DEF IsIPAndPort
  <2> QED BY <1>1, <1>2, <2>2, NumberToken DEF IsIPAndPort, InPortRange, IsPair
<1>3. ASSUME IsPair(val, "colon", IsValidIP, 1, 65535) PROVE IsIPAndPort(val)
  <2>1. /\ Len(val) = 3 /\ val[2] = Delimiter("colon")
        /\ IsValidIP(<<val[1]>>) /\ IsNumber(<<val[3]>>, 1, 65535)
    BY <1>3 DEF IsPair
  <2>2. val[1] # Delimiter("colon")
    BY <2>1, <1>1, FirstTokens
  <2>3. /\ Found(Find(val, "colon", 0)) /\ Before(val, "colon") = <<val[1]>>
        /\ Behind(val, "colon") = val[3].number
    BY <2>1, <2>2, PairIsRead
  <2> QED BY <2>1, <2>3, <1>1, NumberToken DEF IsIPAndPort, InPortRange
<1> QED BY <1>2, <1>3

LEMMA HostAndPortAgrees ==
    ASSUME NEW val \in Strings, ~EndsOtherwise(val, 3), Wide => Find(val, "colon", 0) # Npos
    PROVE  IsHostAndPort(val) <=> IsPair(val, "colon", IsHost, 1, 65535)
<1>1. Len(val) = 3 => val[1] \in Token /\ val[3] \in Token
  <2>1. Len(val) = 3 => 1 \in 1..Len(val) /\ 3 \in 1..Len(val)
    OBVIOUS
  <2> QED BY <2>1, StringTokens
<1>2. ASSUME IsHostAndPort(val) PROVE IsPair(val, "colon", IsHost, 1, 65535)
  <2>1. Before(val, "colon") # << >> /\ Behind(val, "colon") # -1
    BY <1>2 DEF IsHostAndPort, InPortRange, IsHost, IsValidIP
  <2>2. /\ Len(val) = 3 /\ val[2] = Delimiter("colon")
        /\ Before(val, "colon") = <<val[1]>>
        /\ Is("number", val[3]) /\ Behind(val, "colon") = val[3].number
    BY <1>2, <2>1, PairIsRead DEF IsHostAndPort
  <2> QED BY <1>1, <1>2, <2>2, NumberToken DEF IsHostAndPort, InPortRange, IsPair
<1>3. ASSUME IsPair(val, "colon", IsHost, 1, 65535) PROVE IsHostAndPort(val)
  <2>1. /\ Len(val) = 3 /\ val[2] = Delimiter("colon")
        /\ IsHost(<<val[1]>>) /\ IsNumber(<<val[3]>>, 1, 65535)
    BY <1>3 DEF IsPair
  <2>2. val[1] # Delimiter("colon")
    BY <2>1, <1>1, FirstTokens
  <2>3. /\ Found(Find(val, "colon", 0)) /\ Before(val, "colon") = <<val[1]>>
        /\ Behind(val, "colon") = val[3].number
    BY <2>1, <2>2, PairIsRead
  <2> QED BY <2>1, <2>3, <1>1, NumberToken DEF IsHostAndPort, InPortRange
<1> QED BY <1>2, <1>3

\* One of a list: an address, and then the end of the list or a blank.
LEMMA ListedAgrees ==
    ASSUME NEW val \in Strings, Find(val, "colon", 0) = Npos,
           NEW start \in Nat, start = 0 \/ (start <= Len(val) /\ val[start] = Delimiter("blank"))
    PROVE  IsListed(val, start, Find(val, "blank", start)) <=>
               /\ start < Len(val) /\ Is("address", val[start + 1])
               /\ start + 1 < Len(val) => val[start + 2] = Delimiter("blank")
<1> DEFINE end == Find(val, "blank", start)
           part == Substr(val, start, end - start)
<1>1. /\ Len(val) \in Nat /\ Len(val) < Npos /\ Npos \in Nat
      /\ start < Len(val) => val[start + 1] \in Token
      /\ start > 0 => val[start] \in Token /\ start <= Len(val) /\ val[start] = Delimiter("blank")
  BY StringTokens DEF Strings, Npos
<1>2. /\ \/ end = Npos /\ \A i \in start..(Len(val) - 1) : val[i + 1] # Delimiter("blank")
         \/ end \in start..(Len(val) - 1) /\ val[end + 1] = Delimiter("blank")
      /\ \A i \in start..(Len(val) - 1) : val[i + 1] = Delimiter("blank") => end <= i
      /\ end \in Nat
  BY FindIsFirst
<1> HIDE DEF end
<1>3. DEFINE stop == IF end < Len(val) THEN end ELSE Len(val)
<1>4. /\ Len(part) = IF start < stop THEN stop - start ELSE 0
      /\ \A i \in 1..Len(part) : part[i] = val[start + i]
  <2>1. end - start \in Int /\ start + (end - start) = end
    BY <1>2
  <2>2. LET last == IF start + (end - start) < Len(val) THEN start + (end - start) ELSE Len(val)
        IN  /\ Len(part) = IF start < last THEN last - start ELSE 0
            /\ \A i \in 1..Len(part) : part[i] = val[start + i]
    BY <2>1, SubstrIsPart
  <2> QED BY <2>1, <2>2
<1> HIDE DEF part
<1>5. IsValidIP(part) <=> start < Len(val) /\ stop = start + 1 /\ Is("address", val[start + 1])
  <2>1. Len(part) = 1 <=> start < Len(val) /\ stop = start + 1
    BY <1>4, <1>2, <1>1
  <2>2. Len(part) = 1 => part[1] = val[start + 1]
    <3>1. Len(part) = 1 => 1 \in 1..Len(part)
      OBVIOUS
    <3> QED BY <3>1, <1>4
  <2> QED BY <2>1, <2>2 DEF IsValidIP
<1>6. ASSUME start < Len(val), Is("address", val[start + 1])
      PROVE  stop = start + 1 <=> (start + 1 < Len(val) => val[start + 2] = Delimiter("blank"))
  <2>1. val[start + 1] # Delimiter("blank")
    BY <1>6, <1>1, TokenKinds
  <2>2. end # start
    BY <2>1, <1>1, <1>2, <1>6
  <2>3. CASE start + 1 < Len(val) /\ val[start + 2] = Delimiter("blank")
    <3>1. start + 1 \in start..(Len(val) - 1) /\ val[(start + 1) + 1] = Delimiter("blank")
      BY <2>3, <1>1
    <3>2. end <= start + 1
      BY <3>1, <1>2
    <3> QED BY <3>2, <2>2, <2>3, <1>1, <1>2
  <2>4. CASE start + 1 < Len(val) /\ val[start + 2] # Delimiter("blank")
    <3>1. end # start + 1
      <4>1. end = start + 1 => end \in start..(Len(val) - 1) /\ val[(start + 1) + 1] = Delimiter("blank")
        BY <1>1, <1>2, <2>4
      <4> QED BY <4>1, <2>4
    <3> QED BY <3>1, <2>4, <1>1, <1>2
  <2>5. CASE start + 1 >= Len(val)
    <3>1. ~(end < Len(val))
      BY <2>2, <2>5, <1>1, <1>2, <1>6
    <3> QED BY <3>1, <2>5, <1>1, <1>6
  <2> QED BY <2>3, <2>4, <2>5, <1>1
<1>7. ASSUME IsValidIP(Rest(val, start))
      PROVE  start < Len(val) /\ Is("address", val[start + 1]) /\ ~(start + 1 < Len(val))
  <2>1. /\ Len(Rest(val, start)) = IF start < Len(val) THEN Len(val) - start ELSE 0
        /\ \A i \in 1..Len(Rest(val, start)) : Rest(val, start)[i] = val[start + i]
    BY RestIsPart
  <2>2. Len(Rest(val, start)) = 1 /\ Is("address", Rest(val, start)[1])
    BY <1>7 DEF IsValidIP
  <2>3. 1 \in 1..Len(Rest(val, start))
    BY <2>2
  <2>4. \A n, m \in Nat : (IF m < n THEN n - m ELSE 0) = 1 => m < n /\ ~(m + 1 < n)
    OBVIOUS
  <2>5. start < Len(val) /\ ~(start + 1 < Len(val))
    BY <2>1, <2>2, <2>4, <1>1
  <2>6. Rest(val, start)[1] = val[start + 1]
    BY <2>1, <2>3
  <2> QED BY <2>2, <2>5, <2>6
<1>8. IsListed(val, start, end) => IsValidIP(part) \/ IsValidIP(Rest(val, start))
  BY DEF IsListed, part, Rest
<1>9. IsValidIP(part) => IsListed(val, start, end)
  BY DEF IsListed, part
<1> HIDE DEF stop
<1>10. IsListed(val, start, end) <=>
          /\ start < Len(val) /\ Is("address", val[start + 1])
          /\ start + 1 < Len(val) => val[start + 2] = Delimiter("blank")
  BY <1>5, <1>6, <1>7, <1>8, <1>9
<1> QED BY <1>10 DEF end

LEMMA Parity ==
    ASSUME NEW n \in Nat
    PROVE  /\ n % 2 \in {0, 1}
           /\ n % 2 = 1 => (n + 1) % 2 = 0
           /\ n % 2 = 0 => (n + 1) % 2 = 1
           /\ n % 2 = 1 => n # 0
OBVIOUS

LEMMA ListAgrees ==
    ASSUME NEW val \in Strings, Find(val, "colon", 0) = Npos
    PROVE  IsList(val) <=> IsAddressList(val)
<1> DEFINE Good(i) == IF i % 2 = 1 THEN Is("address", val[i]) ELSE val[i] = Delimiter("blank")
           Begins == {0} \cup {i \in 1..Len(val) : val[i] = Delimiter("blank")}
           Stands(start) == /\ start < Len(val) /\ Is("address", val[start + 1])
                            /\ start + 1 < Len(val) => val[start + 2] = Delimiter("blank")
<1>1. /\ Len(val) \in Nat /\ DOMAIN val = 1..Len(val)
      /\ \A i \in 1..Len(val) : Is("address", val[i]) => val[i] # Delimiter("blank")
  BY StringTokens, TokenKinds
<1>2. IsList(val) <=> \A start \in Begins : Stands(start)
  <2>1. ASSUME NEW start \in Begins
        PROVE  IsListed(val, start, Find(val, "blank", start)) <=> Stands(start)
    BY <1>1, ListedAgrees
  <2> QED BY <2>1 DEF IsList
<1>3. ASSUME IsAddressList(val), NEW start \in Begins PROVE Stands(start)
  <2>1. Len(val) % 2 = 1 /\ \A i \in 1..Len(val) : Good(i)
    BY <1>3, <1>1 DEF IsAddressList
  <2>2. start \in Nat /\ start <= Len(val) /\ start % 2 = 0
    <3>1. CASE start = 0
      BY <3>1, <1>1
    <3>2. CASE start \in 1..Len(val) /\ val[start] = Delimiter("blank")
      <4>1. start % 2 # 1
        BY <3>2, <2>1, <1>1
      <4> QED BY <4>1, <3>2, Parity
    <3> QED BY <3>1, <3>2
  <2>3. start < Len(val) /\ (start + 1) % 2 = 1 /\ (start + 2) % 2 = 0
    <3>1. (start + 1) % 2 = 1 /\ (start + 1) + 1 = start + 2 /\ start + 1 \in Nat
      BY <2>2, Parity
    <3>2. (start + 2) % 2 = 0
      BY <3>1, Parity
    <3>3. start # Len(val)
      BY <2>1, <2>2
    <3>4. start < Len(val)
      <4>1. \A p, n \in Nat : p <= n /\ p # n => p < n
        OBVIOUS
      <4> QED BY <4>1, <3>3, <2>2, <1>1
    <3> QED BY <3>1, <3>2, <3>4
  <2>4. Is("address", val[start + 1])
    <3>1. start + 1 \in 1..Len(val)
      BY <2>2, <2>3, <1>1
    <3> QED BY <3>1, <2>1, <2>3
  <2>5. ASSUME start + 1 < Len(val) PROVE val[start + 2] = Delimiter("blank")
    <3>1. start + 2 \in 1..Len(val) /\ (start + 2) % 2 # 1
      BY <2>2, <2>3, <2>5, <1>1
    <3> QED BY <3>1, <2>1
  <2> QED BY <2>3, <2>4, <2>5
<1>4. ASSUME \A start \in Begins : Stands(start) PROVE IsAddressList(val)
  <2> DEFINE Bad == {i \in 1..Len(val) : ~Good(i)}
  <2>1. Bad = {}
    <3> SUFFICES ASSUME Bad # {} PROVE FALSE
      OBVIOUS
    <3>1. Bad \subseteq Nat
      BY <1>1
    <3>2. PICK j \in Bad : \A i \in Bad : j <= i
      BY <3>1, LeastOf
    <3>3. j \in 1..Len(val) /\ ~Good(j) /\ \A i \in 1..Len(val) : i < j => Good(i)
      BY <3>2, <1>1
    <3>4. CASE j % 2 = 1
      <4>1. j - 1 \in Begins
        <5>1. CASE j = 1
          BY <5>1
        <5>2. CASE j # 1
          <6>1. j - 1 \in 1..Len(val) /\ j - 1 < j /\ j - 1 \in Nat /\ (j - 1) + 1 = j
            BY <3>3, <5>2, <1>1
          <6>2. (j - 1) % 2 # 1
            BY <6>1, <3>4, Parity
          <6>3. val[j - 1] = Delimiter("blank")
            BY <6>1, <6>2, <3>3
          <6> QED BY <6>1, <6>3
        <5> QED BY <5>1, <5>2
      <4>2. (j - 1) + 1 = j
        BY <3>3
      <4>3. Is("address", val[(j - 1) + 1])
        BY <4>1, <1>4
      <4> QED BY <4>2, <4>3, <3>3, <3>4
    <3>5. CASE j % 2 # 1
      <4>1. j - 1 \in 1..Len(val) /\ j - 1 < j /\ j - 1 \in Nat /\ (j - 1) + 1 = j
        <5>1. j # 1
          BY <3>5
        <5> QED BY <5>1, <3>3, <1>1
      <4>2. (j - 1) % 2 = 1
        BY <4>1, <3>5, Parity
      <4>3. j - 2 \in Begins
        <5>1. CASE j = 2
          BY <5>1
        <5>2. CASE j # 2
          <6>1. /\ j - 2 \in 1..Len(val) /\ j - 2 < j /\ j - 2 \in Nat
                /\ (j - 2) + 1 = j - 1
            BY <3>3, <5>2, <4>1, <1>1
          <6>2. (j - 2) % 2 # 1
            BY <6>1, <4>2, Parity
          <6>3. val[j - 2] = Delimiter("blank")
            BY <6>1, <6>2, <3>3
          <6> QED BY <6>1, <6>3
        <5> QED BY <5>1, <5>2
      <4>4. (j - 2) + 1 < Len(val) /\ (j - 2) + 2 = j
        BY <3>3, <1>1
      <4>5. Stands(j - 2)
        BY <4>3, <1>4
      <4>6. val[j] = Delimiter("blank")
        BY <4>4, <4>5
      <4> QED BY <4>6, <3>3, <3>5
    <3> QED BY <3>4, <3>5
  <2>2. \A i \in 1..Len(val) : Good(i)
    BY <2>1
  <2>3. Len(val) % 2 = 1
    <3> SUFFICES ASSUME Len(val) % 2 # 1 PROVE FALSE
      OBVIOUS
    <3>1. Len(val) \in Begins
      <4>1. CASE Len(val) = 0
        BY <4>1
      <4>2. CASE Len(val) # 0
        <5>1. Len(val) \in 1..Len(val)
          BY <4>2, <1>1
        <5>2. val[Len(val)] = Delimiter("blank")
          BY <5>1, <2>2
        <5> QED BY <5>1, <5>2
      <4> QED BY <4>1, <4>2
    <3>2. Len(val) < Len(val)
      BY <3>1, <1>4
    <3> QED BY <3>2, <1>1
  <2> QED BY <2>2, <2>3, <1>1 DEF IsAddressList
<1> QED BY <1>2, <1>3, <1>4

LEMMA ChoiceAgrees ==
    ASSUME NEW valid \in Strings, NEW val,
           Labelled(valid) \/ (~Wide /\ Find(valid, "bar", 0) = Npos)
    PROVE  IsChoice(valid, val) <=> val \in Options(valid)
<1> DEFINE Named(start) ==
        LET end == Ends(valid, start)
            bar == Find(valid, "bar", start)
        IN  Substr(valid, start, (IF bar < end THEN bar ELSE end) - start)
<1>1. Len(valid) \in Nat /\ Len(valid) < Npos /\ Npos \in Nat
  BY DEF Strings, Npos
<1>2. ASSUME NEW start \in Starts(valid) PROVE OptionAt(valid, start) = Named(start)
  <2> DEFINE end == Find(valid, "comma", start)
             bar == Find(valid, "bar", start)
  <2>1. start \in Nat
    BY <1>1 DEF Starts
  <2>2. end \in Nat /\ end <= Npos
    BY <2>1, <1>1, FindIsFirst
  <2>3. bar \in Nat /\ (bar = Npos \/ (bar \in start..(Len(valid) - 1) /\ valid[bar + 1] = Delimiter("bar")))
    BY <2>1, FindIsFirst
  <2>4. CASE Labelled(valid)
    <3>1. bar < end
      BY <2>4 DEF Labelled, Ends
    <3>2. bar # Npos
      BY <3>1, <2>2, <2>3, <1>1
    <3> QED BY <3>1, <3>2 DEF OptionAt, Found, Ends
  <2>5. CASE ~Wide /\ Find(valid, "bar", 0) = Npos
    <3>1. \A i \in 0..(Len(valid) - 1) : valid[i + 1] # Delimiter("bar")
      BY <2>5, <1>1, FindIsFirst
    <3>2. bar = Npos
      BY <3>1, <2>1, <2>3, <1>1
    <3>3. ~(bar < end)
      BY <3>2, <2>2, <1>1
    <3> QED BY <3>2, <3>3, <2>5 DEF OptionAt, Found, Ends
  <2> QED BY <2>4, <2>5
<1>3. Options(valid) = {Named(start) : start \in Starts(valid)}
  BY DEF Options
<1> QED BY <1>2, <1>3 DEF IsChoice

LEMMA ValRangeAgrees ==
    ASSUME NEW val \in Strings, NEW valid \in Strings, Find(valid, "colon", 0) # Npos,
           \A r, s \in Ranges(valid) : r = s, ~EndsOtherwise(val, 1)
    PROVE  IsInValRange(valid, val) <=> \E r \in Ranges(valid) : IsNumber(val, r[1], r[2])
<1> DEFINE colon == Find(valid, "colon", 0)
           min == MinOf(valid)
           max == MaxOf(valid)
           Range(start) ==
               LET at == Find(valid, "colon", start)
               IN  <<Extract(Substr(valid, start, at - start), 0), Extract(Rest(valid, at + 1), 0)>>
<1>1. colon \in Nat /\ colon - 0 = colon /\ 0 \in Starts(valid)
  BY FindIsFirst DEF Starts
<1>2. min \in Int /\ max \in Int
  <2>1. Substr(valid, 0, colon) \in Strings /\ Rest(valid, colon + 1) \in Strings
    BY <1>1, SubstrIsPart, RestIsPart
  <2> QED BY <2>1, ExtractReads DEF MinOf, MaxOf, After
<1>3. <<min, max>> \in Ranges(valid)
  <2>1. Ranges(valid) = {Range(start) : start \in Starts(valid)}
    BY DEF Ranges
  <2>2. Range(0) = <<min, max>>
    BY <1>1 DEF MinOf, MaxOf, After
  <2> QED BY <2>1, <2>2, <1>1
<1>4. (\E r \in Ranges(valid) : IsNumber(val, r[1], r[2])) <=> IsNumber(val, min, max)
  BY <1>3
<1> HIDE DEF min, max
<1>5. /\ val \in Seq(Token) /\ Len(val) \in Nat /\ Len(val) <= 1 /\ DOMAIN val = 1..Len(val)
      /\ Len(val) = 1 => Is("number", val[1])
      /\ val = << >> <=> Len(val) = 0
  BY StringTokens DEF EndsOtherwise
<1>6. IsInValRange(valid, val) <=>
          /\ val # << >> /\ \A i \in DOMAIN val : Is("number", val[i]) \/ val[i] = Delimiter("dash")
          /\ min <= Extract(val, 0) /\ Extract(val, 0) <= max
  BY DEF IsInValRange, min, max
<1>7. CASE Len(val) = 0
  BY <1>4, <1>5, <1>6, <1>7 DEF IsNumber
<1>8. CASE Len(val) = 1
  <2>1. Extract(val, 0) = val[1].number
    <3>1. Len(val) > 0 /\ Is("number", val[1]) /\ 0 \in Int
      BY <1>5, <1>8
    <3> QED BY <3>1, ExtractReads
  <2>2. val[1] \in Token
    BY <1>8, StringTokens
  <2>3. val[1].number \in Nat
    BY <2>2, <1>5, <1>8, TokenKinds
  <2>4. \A i \in DOMAIN val : Is("number", val[i])
    BY <1>5, <1>8
  <2>5. IsInValRange(valid, val) <=> min <= val[1].number /\ val[1].number <= max
    BY <2>1, <2>4, <1>5, <1>6, <1>8
  <2>6. IsNumber(val, min, max) <=> min <= val[1].number /\ val[1].number <= max
    BY <2>3, <1>2, <1>5, <1>8 DEF IsNumber
  <2> QED BY <2>5, <2>6, <1>4
<1> QED BY <1>5, <1>7, <1>8

LEMMA PortAgrees ==
    ASSUME NEW val \in Strings, val # << >>, ~EndsOtherwise(val, 1), NEW old \in Int
    PROVE  IsPort(val, old) <=> IsNumber(val, 1, 65535)
<1>1. val \in Seq(Token) /\ Len(val) = 1 /\ Is("number", val[1]) /\ val[1] \in Token
  <2>1. val \in Seq(Token) /\ Len(val) \in Nat /\ Len(val) # 0
    BY StringTokens
  <2>2. Len(val) = 1 /\ Is("number", val[1])
    <3>1. ~(Len(val) > 1) /\ (Len(val) = 1 => Is("number", val[1]))
      BY DEF EndsOtherwise
    <3>2. \A n \in Nat : ~(n > 1) /\ n # 0 => n = 1
      OBVIOUS
    <3>3. Len(val) = 1
      BY <3>1, <3>2, <2>1
    <3> QED BY <3>1, <3>3
  <2>3. 1 \in 1..Len(val)
    BY <2>2
  <2> QED BY <2>1, <2>2, <2>3, StringTokens
<1>2. Extract(val, old) = val[1].number
  BY <1>1, ExtractReads
<1>3. IsPort(val, old) <=> 1 <= val[1].number /\ val[1].number <= 65535
  BY <1>2 DEF IsPort, InPortRange
<1>4. IsNumber(val, 1, 65535) <=> 1 <= val[1].number /\ val[1].number <= 65535
  <2>1. val = <<val[1]>>
    BY <1>1
  <2>2. IsNumber(<<val[1]>>, 1, 65535) <=> 1 <= val[1].number /\ val[1].number <= 65535
    BY <1>1, NumberToken
  <2> QED BY <2>1, <2>2
<1> QED BY <1>3, <1>4

LEMMA BooleanAgrees ==
    ASSUME NEW val \in Strings
    PROVE  val \in {<<Num(0)>>, <<Num(1)>>} <=> IsNumber(val, 0, 1)
<1>1. val \in Seq(Token) /\ \A i \in 1..Len(val) : val[i] \in Token
  BY StringTokens
<1>2. ASSUME IsNumber(val, 0, 1) PROVE val \in {<<Num(0)>>, <<Num(1)>>}
  <2>1. Len(val) = 1 /\ Is("number", val[1]) /\ val[1].number \in 0..1
    BY <1>2 DEF IsNumber
  <2>2. val[1] = Num(val[1].number)
    BY <2>1, <1>1, TokenKinds
  <2>3. val = <<val[1]>>
    BY <2>1, <1>1
  <2>4. val[1].number = 0 \/ val[1].number = 1
    BY <2>1
  <2> QED BY <2>2, <2>3, <2>4
<1>3. \A n \in 0..1 : IsNumber(<<Num(n)>>, 0, 1)
  BY DEF IsNumber, Num, Is
<1> QED BY <1>2, <1>3

\* What the code makes of a value and what the descriptions say, type by type.
LEMMA ValueIsJudged ==
    ASSUME NEW k \in KeySamples, NEW val \in ValueSamples, ~Misjudged(k, val),
           NEW uninitialised \in {0, 1}
    PROVE  IsValidValue(k, val, uninitialised) <=> Described(k, val)
<1>1. /\ val \in Strings /\ k.valid \in Strings /\ k.type \in KeyTypes
      /\ uninitialised \in Int
  BY KeysAssumption
<1>2. CASE k.type = "BOOLEAN"
  BY <1>1, <1>2, BooleanAgrees DEF IsValidValue, Described, Misjudged
<1>3. CASE k.type = "CHOICE"
  BY <1>1, <1>3, ChoiceAgrees DEF IsValidValue, Described, Misjudged
<1>4. CASE k.type = "CIDR"
  BY <1>1, <1>4, CIDRAgrees DEF IsValidValue, Described, Misjudged
<1>5. CASE k.type = "HOSTANDPORT"
  BY <1>1, <1>5, HostAndPortAgrees DEF IsValidValue, Described, Misjudged
<1>6. CASE k.type = "IPANDPORT"
  BY <1>1, <1>6, IPAndPortAgrees DEF IsValidValue, Described, Misjudged
<1>7. CASE k.type = "IPADDRESS"
  BY <1>7 DEF IsValidValue, Described, Misjudged
<1>8. CASE k.type = "MIPADDRESS"
  BY <1>1, <1>8, ListAgrees DEF IsValidValue, Described, Misjudged
<1>9. CASE k.type = "PORT"
  BY <1>1, <1>9, PortAgrees DEF IsValidValue, Described, Misjudged
<1>10. CASE k.type = "VALRANGE"
  BY <1>1, <1>10, ValRangeAgrees DEF IsValidValue, Described, Misjudged
<1> QED BY <1>1, <1>2, <1>3, <1>4, <1>5, <1>6, <1>7, <1>8, <1>9, <1>10 DEF KeyTypes

KeysInv ==
    /\ key \in KeySamples /\ value \in ValueSamples
    /\ verdict # "none" =>
          \E uninitialised \in {0, 1} :
             verdict = IF IsValidValue(key, value, uninitialised) THEN "valid" ELSE "invalid"

\* ConfigurationTable::isValidValue accepts a value if, and only if, it is of the kind that
\* the descriptions of the key tell, for keys and values of any length, but for the values
\* that Misjudged names.
THEOREM AcceptsDescribed == KeysSpec => []AcceptsAsDescribed
<1>1. KeysInit => KeysInv
  BY DEF KeysInit, KeysInv
<1>2. KeysInv /\ [KeysNext]_keyVars => KeysInv'
  <2> SUFFICES ASSUME KeysInv, [KeysNext]_keyVars PROVE KeysInv'
    OBVIOUS
  <2>1. CASE Validate
    BY <2>1 DEF Validate, KeysInv
  <2>2. CASE UNCHANGED keyVars
    BY <2>2 DEF keyVars, KeysInv
  <2> QED BY <2>1, <2>2 DEF KeysNext
<1>3. KeysInv => AcceptsAsDescribed
  <2> SUFFICES ASSUME KeysInv, verdict # "none", ~Misjudged(key, value)
               PROVE  verdict = "valid" <=> Described(key, value)
    BY DEF AcceptsAsDescribed
  <2>1. PICK uninitialised \in {0, 1} :
            verdict = IF IsValidValue(key, value, uninitialised) THEN "valid" ELSE "invalid"
    BY DEF KeysInv
  <2>2. IsValidValue(key, value, uninitialised) <=> Described(key, value)
    BY ValueIsJudged DEF KeysInv
  <2> QED BY <2>1, <2>2
<1> QED BY <1>1, <1>2, <1>3, PTL DEF KeysSpec

================================================================================
