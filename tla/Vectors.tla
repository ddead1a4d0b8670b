-------------------------------- MODULE Vectors --------------------------------
(***************************************************************************)
(* Who owns the memory of vectors (CommonLibs/Vector.h, BitVector.h).  A   *)
(* vector owns the block that it points into, or is an alias that points   *)
(* into that of another one.  BitVector copies and assigns by cloning an   *)
(* owner and by aliasing an alias; Vector, the older class, takes the      *)
(* memory over from what is not const and clones what is.  Content is left *)
(* out; a block that was freed is not used again, so that what still       *)
(* points to it can be told.                                               *)
(***************************************************************************)
EXTENDS Naturals, Sequences

CONSTANTS
    Vecs,       \* the variables that hold vectors
    MaxSize,    \* bound: elements of a vector
    MaxBlocks,  \* bound: blocks that are ever allocated
    Null,       \* no block
    Gone        \* a variable out of scope

ASSUME VectorsAssumption ==
    /\ MaxSize \in Nat
    /\ MaxBlocks \in Nat
    /\ Null \notin Nat
    /\ Gone \notin [data : Nat \cup {Null}, into : Nat \cup {Null}, first : Nat, end : Nat]

VARIABLES
    vec,     \* vec[v]: mData, the block into which mStart and mEnd point, and these two
    length,  \* the elements of the blocks, in the order in which they were allocated
    live     \* the blocks that are not freed, by their place in length

vecVars == <<vec, length, live>>

Size(x) == x.end - x.first
Owns(x) == x.data # Null

VecInit ==
    /\ vec = [v \in Vecs |-> Gone]
    /\ length = << >>
    /\ live = {}

--------------------------------------------------------------------------------
(* Memory *)

NewBlock == Len(length) + 1

Nothing == [data |-> Null, into |-> Null, first |-> 0, end |-> 0]
Alias(x) == [x EXCEPT !.data = Null]
Segment(x, start, span) ==
    [data |-> Null, into |-> x.into, first |-> x.first + start, end |-> x.first + start + span]

\* delete[] mData: the blocks that are left.
Freed(x) == live \ {x.data}

\* vInit, in the place of a vector x whose block is freed.
Allocate(v, x, n) ==
    /\ n \in 0..MaxSize
    /\ IF n = 0
       THEN /\ vec' = [vec EXCEPT ![v] = Nothing]
            /\ live' = Freed(x)
            /\ UNCHANGED length
       ELSE /\ Len(length) < MaxBlocks
            /\ vec' = [vec EXCEPT ![v] = [data |-> NewBlock, into |-> NewBlock, first |-> 0, end |-> n]]
            /\ length' = Append(length, n)
            /\ live' = Freed(x) \cup {NewBlock}

\* makeAlias: a vector that owned a block is cleared.
MakeAlias(v, x, source) ==
    /\ vec' = [vec EXCEPT ![v] = Alias(source)]
    /\ live' = Freed(x)
    /\ UNCHANGED length

--------------------------------------------------------------------------------
(* Both classes *)

\* A vector of n elements comes into scope.
Construct(v, n) == vec[v] = Gone /\ Allocate(v, Nothing, n)

\* vConcat
Concatenate(v, a, b) ==
    /\ vec[v] = Gone
    /\ vec[a] # Gone
    /\ vec[b] # Gone
    /\ Allocate(v, Nothing, Size(vec[a]) + Size(vec[b]))

\* segment, head, tail, alias: the result is built in its place.
TakeSegment(v, a, start, span) ==
    /\ vec[v] = Gone
    /\ vec[a] # Gone
    /\ start + span <= Size(vec[a])
    /\ vec' = [vec EXCEPT ![v] = Segment(vec[a], start, span)]
    /\ UNCHANGED <<length, live>>

\* cloneSegment, which clones into a new vector, as Vector(const Vector&) does with a whole one.
CloneSegment(v, a, start, span) ==
    /\ vec[v] = Gone
    /\ vec[a] # Gone
    /\ start + span <= Size(vec[a])
    /\ Allocate(v, Nothing, span)

\* resize; clear is the one with no elements.
Resize(v, n) == vec[v] # Gone /\ Allocate(v, vec[v], n)

\* clone: a resize, and a copy.
Clone(v, a) == vec[v] # Gone /\ vec[a] # Gone /\ Allocate(v, vec[v], Size(vec[a]))

\* ~VectorBase
Destroy(v) ==
    /\ vec[v] # Gone
    /\ vec' = [vec EXCEPT ![v] = Gone]
    /\ live' = Freed(vec[v])
    /\ UNCHANGED length

--------------------------------------------------------------------------------
(* BitVector *)

\* The copy constructor.
CopyConstruct(v, a) ==
    /\ vec[v] = Gone
    /\ vec[a] # Gone
    /\ IF Owns(vec[a]) THEN Allocate(v, Nothing, Size(vec[a])) ELSE MakeAlias(v, Nothing, vec[a])

\* operator=
Assign(v, a) ==
    /\ vec[v] # Gone
    /\ vec[a] # Gone
    /\ IF Owns(vec[a]) THEN Allocate(v, vec[v], Size(vec[a])) ELSE MakeAlias(v, vec[v], vec[a])

\* dup: the assertion of makeAlias stops a vector that duplicates itself.
Dup(v, a) ==
    /\ vec[v] # Gone
    /\ vec[a] # Gone
    /\ Owns(vec[v]) => vec[v].data # vec[a].data
    /\ MakeAlias(v, vec[v], vec[a])

--------------------------------------------------------------------------------
(* Vector *)

\* A faulty shift, that leaves the memory with both.
Shared(v, a, x) == [vec EXCEPT ![v] = x]

\* v has what x, the vector in a, had, and a is an alias of it.
Shifted(v, a, x) == [vec EXCEPT ![a] = Alias(x), ![v] = x]

\* Vector(Vector&)
ShiftConstruct(v, a) ==
    /\ vec[v] = Gone
    /\ vec[a] # Gone
    /\ vec' = Shifted(v, a, vec[a])
    /\ UNCHANGED <<length, live>>

\* operator=(Vector&), shiftMem: what is assigned to itself is cleared.
ShiftAssign(v, a) ==
    /\ vec[v] # Gone
    /\ vec[a] # Gone
    /\ vec' = IF v = a THEN [vec EXCEPT ![v] = Nothing] ELSE Shifted(v, a, vec[a])
    /\ live' = Freed(vec[v])
    /\ UNCHANGED length

VecNext ==
    \E v \in Vecs :
        \/ Destroy(v)
        \/ \E n \in 0..MaxSize : Construct(v, n) \/ Resize(v, n)
        \/ \E a \in Vecs :
              \/ Clone(v, a) \/ CopyConstruct(v, a) \/ Assign(v, a) \/ Dup(v, a)
              \/ ShiftConstruct(v, a) \/ ShiftAssign(v, a)
              \/ \E start, span \in 0..MaxSize : TakeSegment(v, a, start, span) \/ CloneSegment(v, a, start, span)
              \/ \E b \in Vecs : Concatenate(v, a, b)

VecSpec == VecInit /\ [][VecNext]_vecVars

--------------------------------------------------------------------------------
(* Properties *)

Vector == [data : Nat \cup {Null}, into : Nat \cup {Null}, first : Nat, end : Nat]

VecTypeOK ==
    /\ vec \in [Vecs -> Vector \cup {Gone}]
    /\ length \in Seq(1..MaxSize)
    /\ live \subseteq 1..Len(length)

\* Whatever is constructed, copied, assigned, taken over and destroyed, a block that is not
\* freed has an owner, and one only: none is freed twice, and none is leaked.
OneOwner ==
    /\ \A v \in Vecs : vec[v] # Gone /\ Owns(vec[v]) => vec[v].data \in live
    /\ \A v, w \in Vecs : vec[v] # Gone /\ vec[w] # Gone /\ Owns(vec[v]) /\ vec[v].data = vec[w].data => v = w
    /\ \A b \in live : \E v \in Vecs : vec[v] # Gone /\ vec[v].data = b

================================================================================
