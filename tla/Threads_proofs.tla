---------------------------- MODULE Threads_proofs ----------------------------
(***************************************************************************)
(* Interthread: no signal of InterthreadQueue, InterthreadPriorityQueue    *)
(* and Semaphore is lost, for any number of threads and items.             *)
(*                                                                         *)
(* LockMultiple: ScopedLockMultiple does not deadlock, for any threads,    *)
(* mutexes and orders of arguments, when what a caller owns comes first    *)
(* among its arguments, and only one thread owns two.                      *)
(***************************************************************************)
EXTENDS Interthread, LockMultiple, FiniteSetTheorems, TLAPS

(* Interthread *)

\* The containers whose readers all wait for the same thing.
Alike == {"queue", "priority", "semaphore"}

Waits == Reading
WokenReads == \A t \in Threads : at[t] \in {"woken", "waitWrite"} => op[t] \in Waits
OpsFit == \A t \in Threads : op[t] \in OpsOf(kind) \cup {"none"}

\* Every item has a thread that is on its way to it, or to telling of it, while any waits.
Answered == Waiting("waitWrite") # {} => Len(content) <= Cardinality(Pending)

Core ==
    /\ content \in Seq(Int)
    /\ at \in [Threads -> Places]
    /\ op \in [Threads -> Ops \cup {"none"}]
    /\ OpsFit
    /\ WokenReads
    /\ Answered

\* Nobody waits for these to fall.
NobodyWaitsRead == \A t \in Threads : at[t] # "waitRead"

WInv == kind \in Alike => Core /\ NobodyWaitsRead

--------------------------------------------------------------------------------
(* Counting *)

LEMMA PendingFinite == IsFiniteSet(Pending) /\ Cardinality(Pending) \in Nat
<1>1. Pending \subseteq Threads
  BY DEF Pending
<1>2. QED BY <1>1, InterthreadAssumption, FS_Subset, FS_CardinalityType

LEMMA PendingFinite2 == IsFiniteSet(Pending') /\ Cardinality(Pending') \in Nat
<1>1. Pending' \subseteq Threads
  BY DEF Pending
<1>2. QED BY <1>1, InterthreadAssumption, FS_Subset, FS_CardinalityType

LEMMA PendingKept ==
    ASSUME Pending \subseteq Pending'
    PROVE  Cardinality(Pending) <= Cardinality(Pending')
BY PendingFinite2, FS_Subset

LEMMA PendingLessOne ==
    ASSUME NEW t, Pending \ {t} \subseteq Pending'
    PROVE  Cardinality(Pending) - 1 <= Cardinality(Pending')
<1>1. Cardinality(Pending \ {t}) <= Cardinality(Pending')
  BY PendingFinite2, FS_Subset
<1>2. Cardinality(Pending \ {t}) >= Cardinality(Pending) - 1
  BY PendingFinite, FS_RemoveElement
<1>3. Cardinality(Pending \ {t}) \in Nat
  BY PendingFinite, FS_RemoveElement, FS_CardinalityType
<1>4. QED BY <1>1, <1>2, <1>3, PendingFinite, PendingFinite2

LEMMA PendingOneMore ==
    ASSUME NEW t, t \notin Pending, Pending \cup {t} \subseteq Pending'
    PROVE  Cardinality(Pending) + 1 <= Cardinality(Pending')
<1>1. Cardinality(Pending \cup {t}) <= Cardinality(Pending')
  BY PendingFinite2, FS_Subset
<1>2. Cardinality(Pending \cup {t}) = Cardinality(Pending) + 1
  BY PendingFinite, FS_AddElement
<1>3. QED BY <1>1, <1>2

LEMMA PendingSwap ==
    ASSUME NEW t \in Pending, NEW u, u \notin Pending, (Pending \ {t}) \cup {u} \subseteq Pending'
    PROVE  Cardinality(Pending) <= Cardinality(Pending')
<1> DEFINE P == Pending \ {t}
<1>1. IsFiniteSet(P) /\ Cardinality(P) = Cardinality(Pending) - 1
  BY PendingFinite, FS_RemoveElement
<1>2. Cardinality(P \cup {u}) = Cardinality(P) + 1
  BY <1>1, FS_AddElement
<1>3. Cardinality(P \cup {u}) <= Cardinality(Pending')
  BY PendingFinite2, FS_Subset
<1>4. QED BY <1>1, <1>2, <1>3, PendingFinite

--------------------------------------------------------------------------------
(* Putting and taking *)

LEMMA UpTo == ASSUME NEW k \in Nat PROVE IsFiniteSet(1..k) /\ Cardinality(1..k) = k
<1>1. IsFiniteSet(1..k) /\ Cardinality(1..k) = IF 1 > k THEN 0 ELSE k - 1 + 1
  BY FS_Interval
<1>2. QED BY <1>1

\* A write makes a queue one longer.
LEMMA PutLength ==
    ASSUME Core, kind \in {"queue", "priority"}, NEW x \in 1..MaxWrites, Put(x)
    PROVE  content' \in Seq(Int) /\ Len(content') = Len(content) + 1
<1> USE InterthreadAssumption DEF Core
<1>1. CASE kind = "priority"
  <2> DEFINE D == {i \in DOMAIN content : content[i] < x}
             n == Cardinality(D)
  <2>1. n \in 0..Len(content)
    <3>1. Len(content) \in Nat /\ D \subseteq 1..Len(content)
      OBVIOUS
    <3>2. IsFiniteSet(1..Len(content)) /\ Cardinality(1..Len(content)) = Len(content)
      BY <3>1, UpTo
    <3>3. n <= Len(content) /\ IsFiniteSet(D)
      BY <3>1, <3>2, FS_Subset
    <3>4. n \in Nat
      BY <3>3, FS_CardinalityType
    <3> HIDE DEF n
    <3>5. QED BY <3>1, <3>3, <3>4
  <2>2. content' = SubSeq(content, 1, n) \o <<x>> \o SubSeq(content, n + 1, Len(content))
    BY <1>1 DEF Put, PutAny
  <2> HIDE DEF n
  <2>3. SubSeq(content, 1, n) \in Seq(Int) /\ Len(SubSeq(content, 1, n)) = n
    BY <2>1
  <2>4. SubSeq(content, n + 1, Len(content)) \in Seq(Int)
        /\ Len(SubSeq(content, n + 1, Len(content))) = Len(content) - n
    BY <2>1
  <2>5. <<x>> \in Seq(Int) /\ Len(<<x>>) = 1
    OBVIOUS
  <2> DEFINE a == SubSeq(content, 1, n)  b == SubSeq(content, n + 1, Len(content))
  <2>6. a \in Seq(Int) /\ b \in Seq(Int) /\ Len(a) = n /\ Len(b) = Len(content) - n
    BY <2>3, <2>4
  <2> HIDE DEF a, b
  <2>7. content' = a \o <<x>> \o b
    BY <2>2 DEF a, b
  <2>8. a \o <<x>> \in Seq(Int) /\ Len(a \o <<x>>) = n + 1
    BY <2>5, <2>6
  <2> DEFINE c == a \o <<x>>
  <2> HIDE DEF c
  <2>9. c \in Seq(Int) /\ Len(c) = n + 1 /\ content' = c \o b
    BY <2>7, <2>8 DEF c
  <2>10. c \o b \in Seq(Int) /\ Len(c \o b) = n + 1 + (Len(content) - n)
    BY <2>6, <2>9
  <2>11. n \in Nat /\ Len(content) \in Nat
    BY <2>1
  <2>12. QED BY <2>9, <2>10, <2>11
<1>2. CASE kind = "queue"
  <2>1. content' = Append(content, IF content = << >> THEN 1 ELSE content[Len(content)] + 1)
    BY <1>2 DEF Put, PutBack
  <2>2. (IF content = << >> THEN 1 ELSE content[Len(content)] + 1) \in Int
    OBVIOUS
  <2>3. QED BY <2>1, <2>2
<1>3. QED BY <1>1, <1>2

LEMMA PutFrontLength ==
    ASSUME Core, PutFront
    PROVE  content' \in Seq(Int) /\ Len(content') = Len(content) + 1
<1> DEFINE y == IF content = << >> THEN 0 ELSE Head(content) - 1
<1>1. y \in Int
  BY DEF Core
<1>2. content' = <<y>> \o content
  BY DEF PutFront
<1> HIDE DEF y
<1>3. QED BY <1>1, <1>2 DEF Core

LEMMA TakeLength ==
    ASSUME Core, kind \in Alike, NEW t \in Threads, Ready(t), Take(t)
    PROVE  content' \in Seq(Int) /\ Len(content') = Len(content) - 1
<1>1. content # << >> /\ content' = Tail(content)
  BY DEF Ready, Take, Alike
<1>2. QED BY <1>1 DEF Core

LEMMA NotReadyEmpty ==
    ASSUME Core, kind \in Alike, NEW t \in Threads, ~Ready(t)
    PROVE  content = << >> /\ Len(content) = 0
BY DEF Ready, Alike, Core

--------------------------------------------------------------------------------
(* What the parts of a step do *)

LEMMA QuietOps ==
    ASSUME Core, Quiet
    PROVE  /\ kind' = kind
           /\ op' \in [Threads -> Ops \cup {"none"}]
           /\ OpsFit'
           /\ \A u \in Threads : at'[u] # "out" => op'[u] = op[u]
<1>1. op' = [u \in Threads |-> IF at'[u] = "out" THEN "none" ELSE op[u]] /\ kind' = kind
  BY DEF Quiet
<1>2. op \in [Threads -> Ops \cup {"none"}] /\ OpsFit
  BY DEF Core
<1>3. op' \in [Threads -> Ops \cup {"none"}]
  BY <1>1, <1>2
<1>4. \A u \in Threads : op'[u] \in OpsOf(kind) \cup {"none"}
  BY <1>1, <1>2 DEF OpsFit
<1>5. OpsOf(kind)' = OpsOf(kind)
  BY <1>1 DEF OpsOf
<1>6. OpsFit'
  BY <1>4, <1>5 DEF OpsFit
<1>7. QED BY <1>1, <1>3, <1>6

LEMMA GoesToEffect ==
    ASSUME Core, NEW t \in Threads, NEW p \in Places, GoesTo(t, p)
    PROVE  /\ at' \in [Threads -> Places]
           /\ at'[t] = p
           /\ \A u \in Threads \ {t} : at'[u] = at[u]
BY DEF GoesTo, Core

\* A thread that signals leaves nobody waiting, or wakes one.
LEMMA SignalledEffect ==
    ASSUME Core, NEW t \in Threads, Signalled(t, "out", "waitWrite"), at[t] # "waitWrite"
    PROVE  /\ at' \in [Threads -> Places]
           /\ at'[t] = "out"
           /\ \A u \in Threads : at'[u] \in {"woken", "waitWrite"} => at[u] \in {"woken", "waitWrite"}
           /\ \/ Waiting("waitWrite")' = {}
              \/ \E u \in Threads : u # t /\ u \notin Pending /\ (Pending \ {t}) \cup {u} \subseteq Pending'
<1> DEFINE W == Waiting("waitWrite")
<1>1. at \in [Threads -> Places]
  BY DEF Core
<1>2. CASE W = {}
  <2>1. at' = [at EXCEPT ![t] = "out"]
    BY <1>2 DEF Signalled
  <2>2. \A u \in Threads : at'[u] # "waitWrite"
    BY <1>1, <1>2, <2>1 DEF Waiting
  <2>3. QED BY <1>1, <2>1, <2>2 DEF Waiting, Places
<1>3. CASE W # {}
  <2>1. PICK u \in W : at' = [at EXCEPT ![t] = "out", ![u] = "woken"]
    BY <1>3 DEF Signalled
  <2>2. u \in Threads /\ u # t /\ at[u] = "waitWrite"
    BY <2>1 DEF Waiting
  <2>3. at'[t] = "out" /\ at'[u] = "woken" /\ \A v \in Threads \ {t, u} : at'[v] = at[v]
    BY <1>1, <2>1, <2>2
  <2>4. at' \in [Threads -> Places]
    BY <1>1, <2>1 DEF Places
  <2>5. u \notin Pending /\ (Pending \ {t}) \cup {u} \subseteq Pending'
    BY <2>2, <2>3 DEF Pending
  <2>6. QED BY <2>2, <2>3, <2>4, <2>5
<1>4. QED BY <1>2, <1>3

LEMMA WokenKept ==
    ASSUME Core, op' \in [Threads -> Ops \cup {"none"}],
           \A u \in Threads : at'[u] # "out" => op'[u] = op[u],
           \A u \in Threads : at'[u] \in {"woken", "waitWrite"}
               => at[u] \in {"woken", "waitWrite"} \/ op[u] \in Reading
    PROVE  WokenReads'
<1> SUFFICES ASSUME NEW u \in Threads, at'[u] \in {"woken", "waitWrite"}
             PROVE  op'[u] \in Reading
  BY DEF WokenReads, Waits
<1>1. op'[u] = op[u]
  OBVIOUS
<1>2. op[u] \in Reading
  BY DEF Core, WokenReads, Waits
<1>3. QED BY <1>1, <1>2

--------------------------------------------------------------------------------
(* The steps *)

LEMMA CallStep ==
    ASSUME Core, kind \in Alike, NEW t \in Threads, Call(t)
    PROVE  Core'
<1>1. PICK o \in Does[t] \cap OpsOf(kind) : op' = [op EXCEPT ![t] = o]
  BY DEF Call
<1>2. at[t] = "out" /\ GoesTo(t, "start") /\ kind' = kind /\ content' = content
  BY DEF Call, shared
<1>3. at' \in [Threads -> Places] /\ at'[t] = "start" /\ \A u \in Threads \ {t} : at'[u] = at[u]
  BY <1>2, GoesToEffect DEF Places
<1>4. op' \in [Threads -> Ops \cup {"none"}] /\ op'[t] = o /\ \A u \in Threads \ {t} : op'[u] = op[u]
  BY <1>1, InterthreadAssumption DEF Core
<1>5. OpsOf(kind)' = OpsOf(kind)
  BY <1>2 DEF OpsOf
<1>6. OpsFit'
  BY <1>1, <1>4, <1>5 DEF Core, OpsFit
<1>7. WokenReads'
  BY <1>3, <1>4 DEF Core, WokenReads
<1>8. Waiting("waitWrite")' = Waiting("waitWrite") /\ Pending' = Pending
  BY <1>2, <1>3 DEF Waiting, Pending
<1>9. Answered'
  BY <1>2, <1>8 DEF Core, Answered
<1>10. QED BY <1>2, <1>3, <1>4, <1>6, <1>7, <1>9 DEF Core

\* A step of `t` that takes one item, or leaves none, or that only returns from the queue.
LEMMA LeaveStep ==
    ASSUME Core, kind \in Alike, NEW t \in Threads, NEW p \in {"out", "waitWrite"},
           GoesTo(t, p), Quiet, p = "waitWrite" => op[t] \in Reading,
           content' \in Seq(Int),
           Len(content') = 0 \/ (p = "out" /\ Len(content') = Len(content) - 1)
    PROVE  Core'
<1>1. at' \in [Threads -> Places] /\ at'[t] = p /\ \A u \in Threads \ {t} : at'[u] = at[u]
  BY GoesToEffect DEF Places
<1>2. op' \in [Threads -> Ops \cup {"none"}] /\ OpsFit' /\ \A u \in Threads : at'[u] # "out" => op'[u] = op[u]
  BY QuietOps
<1>3. WokenReads'
  <2>1. \A u \in Threads : at'[u] \in {"woken", "waitWrite"}
            => at[u] \in {"woken", "waitWrite"} \/ op[u] \in Reading
    BY <1>1
  <2>2. QED BY <1>2, <2>1, WokenKept
<1>4. Answered'
  <2>1. CASE Len(content') = 0
    BY <2>1, PendingFinite2 DEF Answered
  <2>2. CASE p = "out" /\ Len(content') = Len(content) - 1
    <3>1. Pending \ {t} \subseteq Pending'
      BY <1>1 DEF Pending
    <3>2. Waiting("waitWrite")' \subseteq Waiting("waitWrite")
      BY <1>1, <2>2 DEF Waiting
    <3>3. Cardinality(Pending) - 1 <= Cardinality(Pending')
      BY <3>1, PendingLessOne
    <3>4. Len(content) \in Nat
      BY DEF Core
    <3>5. QED BY <2>2, <3>2, <3>3, <3>4, PendingFinite, PendingFinite2 DEF Core, Answered
  <2>3. QED BY <2>1, <2>2
<1>5. QED BY <1>1, <1>2, <1>3, <1>4 DEF Core

LEMMA ReadStep ==
    ASSUME Core, kind \in Alike, NEW t \in Threads, Read(t)
    PROVE  Core'
<1>1. GoesTo(t, "out") /\ Quiet
  BY DEF Read, Leaves, Alike
<1>2. content' \in Seq(Int) /\ Len(content') = Len(content) - 1
  BY TakeLength DEF Read
<1>3. QED BY <1>1, <1>2, LeaveStep

LEMMA ReadNothingStep ==
    ASSUME Core, kind \in Alike, NEW t \in Threads, ReadNothing(t)
    PROVE  Core'
<1>1. GoesTo(t, "out") /\ Quiet /\ content' = content
  BY DEF ReadNothing, shared
<1>2. content \in Seq(Int) /\ Len(content) = 0
  BY NotReadyEmpty DEF ReadNothing, Core
<1>3. QED BY <1>1, <1>2, LeaveStep

LEMMA ReadWaitsStep ==
    ASSUME Core, kind \in Alike, NEW t \in Threads, ReadWaits(t)
    PROVE  Core'
<1>1. GoesTo(t, "waitWrite") /\ Quiet /\ content' = content
  BY DEF ReadWaits, shared
<1>2. content \in Seq(Int) /\ Len(content) = 0
  BY NotReadyEmpty DEF ReadWaits, Core
<1>3. op[t] \in Reading
  BY DEF ReadWaits, Locks, Core, OpsFit, OpsOf, Alike
<1>4. QED BY <1>1, <1>2, <1>3, LeaveStep

LEMMA ClearStep ==
    ASSUME Core, kind \in Alike, NEW t \in Threads, Clear(t)
    PROVE  Core'
<1>1. GoesTo(t, "out") /\ Quiet /\ content' = << >>
  BY DEF Clear, Leaves, Alike
<1>2. QED BY <1>1, LeaveStep

\* The item, and the thread that is about to tell of it.
LEMMA PutStep ==
    ASSUME Core, kind \in Alike, NEW t \in Threads, GoesTo(t, "signal"), Quiet,
           at[t] \in {"start", "woken"}, op[t] \in {"write", "write_front"},
           content' \in Seq(Int), Len(content') = Len(content) + 1
    PROVE  Core'
<1>1. at' \in [Threads -> Places] /\ at'[t] = "signal" /\ \A u \in Threads \ {t} : at'[u] = at[u]
  BY GoesToEffect DEF Places
<1>2. op' \in [Threads -> Ops \cup {"none"}] /\ OpsFit' /\ \A u \in Threads : at'[u] # "out" => op'[u] = op[u]
  BY QuietOps
<1>3. at[t] = "start"
  BY DEF Core, WokenReads, Waits, Reading
<1>4. WokenReads'
  <2>1. \A u \in Threads : at'[u] \in {"woken", "waitWrite"}
            => at[u] \in {"woken", "waitWrite"} \/ op[u] \in Reading
    BY <1>1
  <2>2. QED BY <1>2, <2>1, WokenKept
<1>5. Answered'
  <2>1. t \notin Pending /\ Pending \cup {t} \subseteq Pending'
    BY <1>1, <1>3 DEF Pending
  <2>2. Waiting("waitWrite")' = Waiting("waitWrite")
    BY <1>1, <1>3 DEF Waiting
  <2>3. Cardinality(Pending) + 1 <= Cardinality(Pending')
    BY <2>1, PendingOneMore
  <2>4. Len(content) \in Nat
    BY DEF Core
  <2>5. QED BY <2>2, <2>3, <2>4, PendingFinite, PendingFinite2 DEF Core, Answered
<1>6. QED BY <1>1, <1>2, <1>4, <1>5 DEF Core

LEMMA WriteStep ==
    ASSUME Core, kind \in Alike, NEW t \in Threads, Write(t)
    PROVE  Core'
<1>1. PICK x \in 1..MaxWrites : Put(x)
  BY DEF Write, Alike
<1>2. kind \in {"queue", "priority"}
  BY DEF Write, Alike
<1>3. content' \in Seq(Int) /\ Len(content') = Len(content) + 1
  BY <1>1, <1>2, PutLength
<1>4. GoesTo(t, "signal") /\ Quiet /\ at[t] \in {"start", "woken"} /\ op[t] \in {"write", "write_front"}
  BY DEF Write, Locks
<1>5. QED BY <1>3, <1>4, PutStep

LEMMA WriteFrontStep ==
    ASSUME Core, kind \in Alike, NEW t \in Threads, WriteFront(t)
    PROVE  Core'
<1>1. content' \in Seq(Int) /\ Len(content') = Len(content) + 1
  BY PutFrontLength DEF WriteFront
<1>2. GoesTo(t, "signal") /\ Quiet /\ at[t] \in {"start", "woken"} /\ op[t] \in {"write", "write_front"}
  BY DEF WriteFront, Locks
<1>3. QED BY <1>1, <1>2, PutStep

\* A signal goes to a thread that waits, if there is one.
LEMMA SignalStep ==
    ASSUME Core, kind \in Alike, NEW t \in Threads, at[t] # "waitWrite",
           Signalled(t, "out", "waitWrite"), Quiet, content' \in Seq(Int),
           \/ t \in Pending /\ Len(content') = Len(content)
           \/ Len(content') = 1
    PROVE  Core'
<1>1. /\ at' \in [Threads -> Places] /\ at'[t] = "out"
      /\ \A u \in Threads : at'[u] \in {"woken", "waitWrite"} => at[u] \in {"woken", "waitWrite"}
      /\ \/ Waiting("waitWrite")' = {}
         \/ \E u \in Threads : u # t /\ u \notin Pending /\ (Pending \ {t}) \cup {u} \subseteq Pending'
  BY SignalledEffect
<1>2. op' \in [Threads -> Ops \cup {"none"}] /\ OpsFit' /\ \A u \in Threads : at'[u] # "out" => op'[u] = op[u]
  BY QuietOps
<1>3. WokenReads'
  BY <1>1, <1>2, WokenKept
<1>4. Answered'
  <2>1. CASE Waiting("waitWrite")' = {}
    BY <2>1 DEF Answered
  <2>2. CASE Waiting("waitWrite")' # {}
    <3>1. PICK u \in Threads : u # t /\ u \notin Pending /\ (Pending \ {t}) \cup {u} \subseteq Pending'
      BY <1>1, <2>2
    <3>2. CASE Len(content') = 1
      <4>1. Cardinality(Pending') # 0
        BY <3>1, PendingFinite2, FS_EmptySet
      <4>2. QED BY <3>2, <4>1, PendingFinite2 DEF Answered
    <3>3. CASE t \in Pending /\ Len(content') = Len(content)
      <4>1. Cardinality(Pending) <= Cardinality(Pending')
        BY <3>1, <3>3, PendingSwap
      <4>2. Waiting("waitWrite") # {}
        BY <1>1, <2>2, <3>1 DEF Waiting, Pending
      <4>3. Len(content) <= Cardinality(Pending) /\ Len(content) \in Nat
        BY <4>2 DEF Core, Answered
      <4>4. QED BY <3>3, <4>1, <4>3, PendingFinite, PendingFinite2 DEF Answered
    <3>4. QED BY <3>2, <3>3
  <2>3. QED BY <2>1, <2>2
<1>5. QED BY <1>1, <1>2, <1>3, <1>4 DEF Core

LEMMA TellStep ==
    ASSUME Core, kind \in Alike, NEW t \in Threads, Tell(t)
    PROVE  Core'
<1>1. at[t] = "signal" /\ Signalled(t, "out", "waitWrite") /\ Quiet /\ content' = content
  BY DEF Tell, shared
<1>2. t \in Pending /\ content' \in Seq(Int)
  BY <1>1 DEF Pending, Core
<1>3. QED BY <1>1, <1>2, SignalStep

LEMMA WriteAndTellStep ==
    ASSUME Core, kind \in Alike, NEW t \in Threads, WriteAndTell(t)
    PROVE  Core'
<1>1. kind = "semaphore" /\ at[t] # "waitWrite"
  BY DEF WriteAndTell, Locks, Alike
<1>2. Signalled(t, "out", "waitWrite") /\ Quiet
  BY <1>1 DEF WriteAndTell
<1>3. content' = <<1>>
  BY <1>1 DEF WriteAndTell, Put
<1>4. content' \in Seq(Int) /\ Len(content') = 1
  BY <1>3
<1>5. QED BY <1>1, <1>2, <1>4, SignalStep

\* A thread that wakes without a signal is one more on its way.
LEMMA WakeStep ==
    ASSUME Core, content' = content, OpsFit', op' \in [Threads -> Ops \cup {"none"}],
           \A u \in Threads : at'[u] # "out" => op'[u] = op[u],
           at' \in [Threads -> Places],
           \A u \in Threads : at'[u] = at[u] \/ (at[u] = "waitWrite" /\ at'[u] = "woken")
    PROVE  Core'
<1>1. WokenReads'
  <2>1. \A u \in Threads : at'[u] \in {"woken", "waitWrite"}
            => at[u] \in {"woken", "waitWrite"} \/ op[u] \in Reading
    OBVIOUS
  <2>2. QED BY <2>1, WokenKept
<1>2. Pending \subseteq Pending' /\ Waiting("waitWrite")' \subseteq Waiting("waitWrite")
  BY DEF Pending, Waiting
<1>3. Cardinality(Pending) <= Cardinality(Pending')
  BY <1>2, PendingKept
<1>4. Len(content) \in Nat
  BY DEF Core
<1>5. Answered'
  BY <1>2, <1>3, <1>4, PendingFinite, PendingFinite2 DEF Core, Answered
<1>6. QED BY <1>1, <1>5 DEF Core

LEMMA TimePassesStep ==
    ASSUME Core, kind \in Alike, NEW t \in Threads, TimePasses(t)
    PROVE  Core'
<1>1. at' = [at EXCEPT ![t] = IF @ = "waitWrite" THEN "woken" ELSE @]
      /\ kind' = kind /\ op' = op /\ content' = content
  BY DEF TimePasses, shared
<1>2. at' \in [Threads -> Places]
  BY <1>1 DEF Core, Places
<1>3. \A u \in Threads : at'[u] = at[u] \/ (at[u] = "waitWrite" /\ at'[u] = "woken")
  BY <1>1 DEF Core
<1>4. OpsFit'
  <2>1. OpsOf(kind)' = OpsOf(kind)
    BY <1>1 DEF OpsOf
  <2>2. QED BY <1>1, <2>1 DEF Core, OpsFit
<1>5. op' \in [Threads -> Ops \cup {"none"}]
  BY <1>1 DEF Core
<1>6. QED BY <1>1, <1>2, <1>3, <1>4, <1>5, WakeStep

LEMMA SpuriousStep ==
    ASSUME Core, NobodyWaitsRead, NEW t \in Threads, Spurious(t)
    PROVE  Core'
<1>1. at[t] = "waitWrite" /\ GoesTo(t, "woken") /\ Quiet /\ content' = content
  BY DEF Spurious, shared, NobodyWaitsRead
<1>2. at' \in [Threads -> Places] /\ at'[t] = "woken" /\ \A u \in Threads \ {t} : at'[u] = at[u]
  BY <1>1, GoesToEffect DEF Places
<1>3. OpsFit' /\ op' \in [Threads -> Ops \cup {"none"}] /\ \A u \in Threads : at'[u] # "out" => op'[u] = op[u]
  BY <1>1, QuietOps
<1>4. \A u \in Threads : at'[u] = at[u] \/ (at[u] = "waitWrite" /\ at'[u] = "woken")
  BY <1>1, <1>2
<1>5. QED BY <1>1, <1>2, <1>3, <1>4, WakeStep

\* The operations that these containers do not have.
LEMMA NotOfThese ==
    ASSUME Core, kind \in Alike, NEW t \in Threads
    PROVE  /\ ~ReadAndKeep(t)
           /\ ~EitherReturns(t)
           /\ ~EitherSpins(t)
           /\ ~FallReturns(t)
           /\ ~FallWaits(t)
<1>1. op[t] \notin {"iqWaitForEither", "iqWaitForEitherTimed", "wait"}
  BY DEF Core, OpsFit, OpsOf, Alike, Reading
<1>2. QED BY <1>1 DEF ReadAndKeep, EitherReturns, EitherSpins, FallReturns, FallWaits, Locks, Alike

\* Each step leaves this container what it is.
LEMMA SameKind == ASSUME [Next]_vars PROVE kind' = kind
BY DEF Next, vars, Call, Runs, TimePasses, Spurious, Quiet, Read, ReadAndKeep, ReadNothing,
       ReadWaits, EitherReturns, EitherSpins, FallReturns, FallWaits, Write, WriteFront, Tell,
       WriteAndTell, Clear

LEMMA NobodyWaitsReadStep ==
    ASSUME Core, kind \in Alike, NobodyWaitsRead, NEW t \in Threads,
           Call(t) \/ Runs(t) \/ TimePasses(t) \/ Spurious(t)
    PROVE  NobodyWaitsRead'
<1> DEFINE Goes == \E p \in Places \ {"waitRead"} : GoesTo(t, p)
           Tells == Signalled(t, "out", "waitWrite")
           Late == at' = [at EXCEPT ![t] = IF @ = "waitWrite" THEN "woken" ELSE @]
<1>1. Goes \/ Tells \/ Late
  <2>1. CASE Call(t) \/ TimePasses(t) \/ Spurious(t)
    BY <2>1 DEF Call, TimePasses, Spurious, Places
  <2>2. CASE Runs(t)
    <3>1. Read(t) => Goes
      BY DEF Read, Leaves, Alike, Places
    <3>2. ReadNothing(t) \/ ReadWaits(t) => Goes
      BY DEF ReadNothing, ReadWaits, Places
    <3>3. Write(t) \/ WriteFront(t) => Goes
      BY DEF Write, WriteFront, Places
    <3>4. Tell(t) \/ WriteAndTell(t) => Tells
      BY DEF Tell, WriteAndTell, Alike
    <3>5. Clear(t) => Goes
      BY DEF Clear, Leaves, Alike, Places
    <3> HIDE DEF Goes, Tells, Late
    <3>6. QED BY <2>2, <3>1, <3>2, <3>3, <3>4, <3>5, NotOfThese DEF Runs
  <2> HIDE DEF Goes, Tells, Late
  <2>3. QED BY <2>1, <2>2
<1>2. at \in [Threads -> Places]
  BY DEF Core
<1>3. CASE Goes
  BY <1>2, <1>3 DEF GoesTo, NobodyWaitsRead
<1>4. CASE Tells
  BY <1>2, <1>4 DEF Signalled, Waiting, NobodyWaitsRead
<1>5. CASE Late
  BY <1>2, <1>5 DEF NobodyWaitsRead
<1>6. QED BY <1>1, <1>3, <1>4, <1>5

LEMMA WInvInit == Init => WInv
<1> SUFFICES ASSUME Init, kind \in Alike PROVE Core /\ NobodyWaitsRead
  BY DEF WInv
<1>1. at = [t \in Threads |-> "out"] /\ op = [t \in Threads |-> "none"] /\ content = << >>
  BY DEF Init
<1>2. at \in [Threads -> Places] /\ op \in [Threads -> Ops \cup {"none"}] /\ content \in Seq(Int)
  BY <1>1 DEF Places
<1>3. OpsFit /\ WokenReads /\ NobodyWaitsRead
  BY <1>1 DEF OpsFit, WokenReads, NobodyWaitsRead
<1>4. Answered
  BY <1>1 DEF Answered, Waiting
<1>5. QED BY <1>2, <1>3, <1>4 DEF Core

LEMMA WInvNext == WInv /\ [Next]_vars => WInv'
<1> SUFFICES ASSUME WInv, [Next]_vars, kind \in Alike
             PROVE  Core' /\ NobodyWaitsRead'
  BY SameKind DEF WInv
<1>1. Core /\ NobodyWaitsRead
  BY DEF WInv
<1>2. CASE UNCHANGED vars
  <2>1. kind' = kind /\ content' = content /\ op' = op /\ at' = at
    BY <1>2 DEF vars, shared
  <2>2. OpsFit' /\ WokenReads' /\ NobodyWaitsRead'
    BY <1>1, <2>1 DEF Core, OpsFit, OpsOf, WokenReads, NobodyWaitsRead
  <2>3. Answered'
    BY <1>1, <2>1 DEF Core, Answered, Waiting, Pending
  <2>4. QED BY <1>1, <2>1, <2>2, <2>3 DEF Core
<1>3. CASE Next
  <2>1. PICK t \in Threads : Call(t) \/ Runs(t) \/ TimePasses(t) \/ Spurious(t)
    BY <1>3 DEF Next
  <2>2. Core'
    BY <1>1, <2>1, CallStep, TimePassesStep, SpuriousStep, NotOfThese, ReadStep, ReadNothingStep,
       ReadWaitsStep, WriteStep, WriteFrontStep, TellStep, WriteAndTellStep, ClearStep DEF Runs
  <2>3. QED BY <1>1, <2>1, <2>2, NobodyWaitsReadStep
<1>4. QED BY <1>2, <1>3

--------------------------------------------------------------------------------

\* A signal is not lost: while threads wait for an item of an InterthreadQueue, an
\* InterthreadPriorityQueue or a Semaphore, every item that is there has a thread that was
\* woken, or one that is about to signal (read, write and write_front of Interthread.h).
THEOREM NoSignalLost == Spec => []NoLostWakeup
<1>1. WInv => NoLostWakeup
  BY DEF WInv, Core, Answered, NoLostWakeup, Alike
<1>2. QED BY <1>1, WInvInit, WInvNext, PTL DEF Spec

--------------------------------------------------------------------------------
(* ScopedLockMultiple *)

\* The owner bits for which the retreat gives up everything: nothing, the first, and, for
\* one thread, the first two.
OwnsFirst(main) ==
    \A t \in Holders : Owned[t] \subseteq {{}, {0}} \cup (IF t = main THEN {{0, 1}} ELSE {})

Wanted(main, t) == {{}, {0}} \cup (IF t = main THEN {{0, 1}} ELSE {})

\* A thread has locked a place if and only if it has the mutex.
Ownership == \A t \in Holders, p \in Slots : p \in state[t] <=> owner[Args[t][p]] = t

\* A thread has no mutex but those it was given.
Belongs == \A t \in Holders, m \in Mutexes : owner[m] = t => \E p \in Slots : Args[t][p] = m

First(t) == Place(t, 1)
Second(t) == Place(t, 2)

\* What a thread has locked, where it is.
Held(t) ==
    /\ place[t] = "out" => own[t] = {} /\ state[t] = {}
    /\ place[t] = "owning" => state[t] \subseteq own[t]
    /\ place[t] = "lock" => state[t] = {} \/ (round[t] = 0 /\ state[t] = own[t])
    /\ place[t] = "try1" => First(t) \in state[t] /\ state[t] \subseteq {First(t), Second(t)}
    /\ place[t] = "try2" => state[t] = {First(t), Second(t)}
    /\ place[t] = "back" => state[t] \subseteq {First(t), Second(t)}
    /\ place[t] = "all" => state[t] = Slots
    /\ place[t] = "restored" => state[t] = own[t]

Inv(main) ==
    /\ LockTypeOK
    /\ Ownership
    /\ Belongs
    /\ \A t \in Holders : own[t] \in Wanted(main, t)
    /\ \A t \in Holders : Held(t)

LEMMA Orders ==
    /\ \A r \in Slots : Order[r + 1][1] \in Slots /\ Order[r + 1][2] \in Slots /\ Order[r + 1][3] \in Slots
    /\ \A r \in Slots : {Order[r + 1][1], Order[r + 1][2], Order[r + 1][3]} = Slots
    /\ \A r \in Slots : Order[r + 1][1] # Order[r + 1][2] /\ Order[r + 1][1] # Order[r + 1][3]
                            /\ Order[r + 1][2] # Order[r + 1][3]
    /\ Order[0 + 1][1] = 0 /\ Order[0 + 1][2] = 1
<1>1. Order[1] = <<0, 1, 2>> /\ Order[2] = <<1, 0, 2>> /\ Order[3] = <<2, 0, 1>>
  BY DEF Order
<1>2. \A r \in Slots : r + 1 = 1 \/ r + 1 = 2 \/ r + 1 = 3
  BY DEF Slots
<1>3. Slots = {0, 1, 2}
  BY DEF Slots
<1> HIDE DEF Order, Slots
<1>4. QED BY <1>1, <1>2, <1>3

LEMMA LockInitInv == ASSUME NEW main PROVE LockInit => Inv(main)
<1> USE LockAssumption
<1>1. LockInit => LockTypeOK
  BY DEF LockInit, LockTypeOK, Slots
<1>2. LockInit => Ownership
  BY DEF LockInit, Ownership, Slots
<1>3. LockInit => \A t \in Holders : own[t] \in Wanted(main, t)
  BY DEF LockInit, Wanted
<1>4. LockInit => \A t \in Holders : Held(t)
  BY DEF LockInit, Held
<1>5. LockInit => Belongs
  BY DEF LockInit, Belongs
<1>6. QED BY <1>1, <1>2, <1>3, <1>4, <1>5 DEF Inv

--------------------------------------------------------------------------------
(* The steps *)

\* What a step of `t` must show of `t` itself; the other threads keep what they have.
OwnPart(main, t) ==
    /\ own[t] \in Wanted(main, t)
    /\ Held(t)

\* Only `t` moves, in its own entries.
Alone(t) ==
    /\ \A u \in Holders \ {t} :
          own'[u] = own[u] /\ state'[u] = state[u] /\ round'[u] = round[u] /\ place'[u] = place[u]
    /\ own' \in [Holders -> SUBSET Slots]
    /\ state' \in [Holders -> SUBSET Slots]
    /\ round' \in [Holders -> Slots]
    /\ place' \in [Holders -> {"out", "owning", "lock", "try1", "try2", "back", "all", "restored"}]

\* The mutexes change hands as the places do.
Changes(t) ==
    /\ owner' \in [Mutexes -> Holders \cup {NoHolder}]
    /\ \A p \in Slots : p \in state'[t] <=> owner'[Args[t][p]] = t
    /\ \A u \in Holders \ {t}, m \in Mutexes : owner'[m] = u <=> owner[m] = u
    /\ \A m \in Mutexes : owner'[m] = t => owner[m] = t \/ \E p \in Slots : Args[t][p] = m

LEMMA StepKeeps ==
    ASSUME NEW main, Inv(main), NEW t \in Holders,
           Alone(t), Changes(t), OwnPart(main, t)'
    PROVE  Inv(main)'
<1> USE LockAssumption
<1>1. LockTypeOK'
  BY DEF Alone, Changes, OwnPart, LockTypeOK, Inv
<1>2. Ownership'
  <2> SUFFICES ASSUME NEW u \in Holders, NEW p \in Slots
               PROVE  p \in state'[u] <=> owner'[Args[u][p]] = u
    BY DEF Ownership
  <2>1. CASE u = t
    BY <2>1 DEF Changes
  <2>2. CASE u # t
    <3>1. Args[u][p] \in Mutexes
      OBVIOUS
    <3>2. state'[u] = state[u]
      BY <2>2 DEF Alone
    <3>3. owner'[Args[u][p]] = u <=> owner[Args[u][p]] = u
      BY <2>2, <3>1 DEF Changes
    <3>4. p \in state[u] <=> owner[Args[u][p]] = u
      BY DEF Inv, Ownership
    <3>5. QED BY <3>2, <3>3, <3>4
  <2>3. QED BY <2>1, <2>2
<1>3. \A u \in Holders : own'[u] \in Wanted(main, u)
  BY DEF Alone, OwnPart, Inv, Wanted
<1>4. ASSUME NEW u \in Holders PROVE Held(u)'
  <2>1. CASE u = t
    BY <2>1 DEF OwnPart
  <2>2. CASE u # t
    <3>1. own'[u] = own[u] /\ state'[u] = state[u] /\ round'[u] = round[u] /\ place'[u] = place[u]
      BY <2>2 DEF Alone
    <3>2. Held(u)
      BY DEF Inv
    <3>3. QED BY <3>1, <3>2 DEF Held, First, Second, Place
  <2>3. QED BY <2>1, <2>2
<1>5. Belongs'
  BY DEF Changes, Inv, Belongs
<1>6. QED BY <1>1, <1>2, <1>3, <1>4, <1>5 DEF Inv, Wanted

\* Taking a free mutex.
LEMMA GrabChanges ==
    ASSUME NEW main, Inv(main), NEW t \in Holders, NEW p \in Slots, Free(t, p), Grab(t, p)
    PROVE  Changes(t) /\ state'[t] = state[t] \cup {p}
<1> USE LockAssumption
<1>1. owner \in [Mutexes -> Holders \cup {NoHolder}] /\ state \in [Holders -> SUBSET Slots]
  BY DEF Inv, LockTypeOK
<1>2. Args[t][p] \in Mutexes /\ owner[Args[t][p]] = NoHolder
  BY DEF Free
<1>3. owner' = [owner EXCEPT ![Args[t][p]] = t] /\ state' = [state EXCEPT ![t] = @ \cup {p}]
  BY DEF Grab
<1>4. state'[t] = state[t] \cup {p}
  BY <1>1, <1>3
<1>5. \A q \in Slots : q \in state[t] <=> owner[Args[t][q]] = t
  BY DEF Inv, Ownership
<1>6. \A q \in Slots : q \in state'[t] <=> owner'[Args[t][q]] = t
  <2> SUFFICES ASSUME NEW q \in Slots PROVE q \in state'[t] <=> owner'[Args[t][q]] = t
    OBVIOUS
  <2>1. CASE q = p
    BY <2>1, <1>1, <1>2, <1>3, <1>4
  <2>2. CASE q # p
    <3>1. Args[t][q] \in Mutexes /\ Args[t][q] # Args[t][p]
      BY <2>2
    <3>2. QED BY <3>1, <2>2, <1>1, <1>3, <1>4, <1>5
  <2>3. QED BY <2>1, <2>2
<1>7. \A u \in Holders \ {t}, m \in Mutexes : owner'[m] = u <=> owner[m] = u
  BY <1>1, <1>2, <1>3
<1>8. owner' \in [Mutexes -> Holders \cup {NoHolder}]
  BY <1>1, <1>3
<1>9. \A m \in Mutexes : owner'[m] = t => owner[m] = t \/ \E q \in Slots : Args[t][q] = m
  BY <1>1, <1>2, <1>3
<1>10. QED BY <1>4, <1>6, <1>7, <1>8, <1>9 DEF Changes

\* Giving up some that are locked.
LEMMA GiveChanges ==
    ASSUME NEW main, Inv(main), NEW t \in Holders, NEW P \in SUBSET Slots, P \subseteq state[t],
           Give(t, P), state' = [state EXCEPT ![t] = @ \ P]
    PROVE  Changes(t) /\ state'[t] = state[t] \ P
<1> USE LockAssumption
<1>1. owner \in [Mutexes -> Holders \cup {NoHolder}] /\ state \in [Holders -> SUBSET Slots]
  BY DEF Inv, LockTypeOK
<1>2. owner' = [m \in Mutexes |-> IF \E p \in P : Args[t][p] = m THEN NoHolder ELSE owner[m]]
  BY DEF Give
<1>3. state'[t] = state[t] \ P
  BY <1>1
<1>4. \A q \in Slots : q \in state[t] <=> owner[Args[t][q]] = t
  BY DEF Inv, Ownership
<1>5. \A q \in Slots : q \in state'[t] <=> owner'[Args[t][q]] = t
  <2> SUFFICES ASSUME NEW q \in Slots PROVE q \in state'[t] <=> owner'[Args[t][q]] = t
    OBVIOUS
  <2>0. Args[t][q] \in Mutexes
    OBVIOUS
  <2>1. CASE q \in P
    BY <2>0, <2>1, <1>2, <1>3
  <2>2. CASE q \notin P
    <3>1. \A p \in P : Args[t][p] # Args[t][q]
      BY <2>2
    <3>2. QED BY <2>0, <3>1, <2>2, <1>2, <1>3, <1>4
  <2>3. QED BY <2>1, <2>2
<1>6. \A u \in Holders \ {t}, m \in Mutexes : owner'[m] = u <=> owner[m] = u
  <2> SUFFICES ASSUME NEW u \in Holders \ {t}, NEW m \in Mutexes
               PROVE  owner'[m] = u <=> owner[m] = u
    OBVIOUS
  <2>1. CASE \E p \in P : Args[t][p] = m
    <3>1. owner[m] = t
      BY <2>1, <1>4
    <3>2. owner'[m] = NoHolder
      BY <2>1, <1>2
    <3>3. QED BY <3>1, <3>2
  <2>2. CASE ~ \E p \in P : Args[t][p] = m
    BY <2>2, <1>2
  <2>3. QED BY <2>1, <2>2
<1>7. owner' \in [Mutexes -> Holders \cup {NoHolder}]
  BY <1>1, <1>2
<1>8. \A m \in Mutexes : owner'[m] = t => owner[m] = t
  BY <1>1, <1>2
<1>9. QED BY <1>3, <1>5, <1>6, <1>7, <1>8 DEF Changes

LEMMA NothingChanges ==
    ASSUME NEW main, Inv(main), NEW t \in Holders, owner' = owner, state' = state
    PROVE  Changes(t)
BY LockAssumption DEF Changes, Inv, LockTypeOK, Ownership

LEMMA BeginStep ==
    ASSUME NEW main \in Holders, OwnsFirst(main), Inv(main), NEW t \in Holders, Begin(t)
    PROVE  Inv(main)'
<1>0. LockTypeOK /\ Held(t)
  BY DEF Inv
<1>1. PICK P \in Owned[t] : own' = [own EXCEPT ![t] = P]
  BY DEF Begin
<1>2. P \in SUBSET Slots /\ P \in Wanted(main, t)
  BY LockAssumption DEF OwnsFirst, Wanted
<1>3. Alone(t)
  BY <1>0, <1>1, <1>2 DEF Alone, Begin, LockTypeOK
<1>4. Changes(t)
  BY NothingChanges DEF Begin
<1>5. OwnPart(main, t)'
  BY <1>0, <1>1, <1>2 DEF OwnPart, Held, Begin, LockTypeOK, Wanted
<1>6. QED BY <1>3, <1>4, <1>5, StepKeeps

LEMMA OwnOneStep ==
    ASSUME NEW main \in Holders, Inv(main), NEW t \in Holders, OwnOne(t)
    PROVE  Inv(main)'
<1> DEFINE p == OwnNext(t)
<1>0. LockTypeOK /\ Held(t) /\ own[t] \in Wanted(main, t)
  BY DEF Inv
<1>1. place[t] = "owning" /\ own[t] # state[t] /\ Free(t, p) /\ Grab(t, p)
      /\ UNCHANGED <<own, round, place>>
  BY DEF OwnOne
<1>2. state[t] \subseteq own[t] /\ own[t] \subseteq Slots
  BY <1>0, <1>1 DEF Held, LockTypeOK
<1>3. p \in own[t] /\ p \in Slots
  <2>1. \E q \in own[t] \ state[t] : \A r \in own[t] \ state[t] : q <= r
    <3>1. own[t] \in {{}, {0}, {0, 1}}
      BY <1>0 DEF Wanted
    <3>2. CASE 0 \in own[t] \ state[t]
      BY <3>1, <3>2
    <3>3. CASE 0 \notin own[t] \ state[t]
      BY <3>1, <3>3, <1>1, <1>2
    <3>4. QED BY <3>2, <3>3
  <2>2. p \in own[t] \ state[t]
    BY <2>1 DEF OwnNext
  <2>3. QED BY <2>2, <1>2
<1>4. Changes(t) /\ state'[t] = state[t] \cup {p}
  BY <1>1, <1>3, GrabChanges
<1>5. Alone(t)
  BY <1>0, <1>1, <1>3 DEF Alone, Grab, LockTypeOK
<1>6. OwnPart(main, t)'
  BY <1>0, <1>1, <1>2, <1>3, <1>4 DEF OwnPart, Held, Wanted
<1>7. QED BY <1>4, <1>5, <1>6, StepKeeps

LEMMA CallLockAllStep ==
    ASSUME NEW main \in Holders, Inv(main), NEW t \in Holders, CallLockAll(t)
    PROVE  Inv(main)'
<1>0. LockTypeOK /\ own[t] \in Wanted(main, t)
  BY DEF Inv
<1>1. Alone(t)
  BY <1>0 DEF Alone, CallLockAll, LockTypeOK, Slots
<1>2. Changes(t)
  BY NothingChanges DEF CallLockAll
<1>3. OwnPart(main, t)'
  BY <1>0 DEF OwnPart, Held, CallLockAll, LockTypeOK, Wanted
<1>4. QED BY <1>1, <1>2, <1>3, StepKeeps

LEMMA InOrder ==
    ASSUME NEW main, Inv(main), NEW t \in Holders
    PROVE  /\ First(t) \in Slots /\ Second(t) \in Slots /\ Place(t, 3) \in Slots
           /\ {First(t), Second(t), Place(t, 3)} = Slots
           /\ First(t) # Second(t) /\ First(t) # Place(t, 3) /\ Second(t) # Place(t, 3)
           /\ round[t] = 0 => First(t) = 0 /\ Second(t) = 1
<1>1. round[t] \in Slots
  BY DEF Inv, LockTypeOK
<1>2. QED BY <1>1, Orders DEF First, Second, Place

LEMMA LockStep ==
    ASSUME NEW main \in Holders, Inv(main), NEW t \in Holders, Lock(t)
    PROVE  Inv(main)'
<1> DEFINE p == Place(t, 1)
<1>0. LockTypeOK /\ Held(t) /\ own[t] \in Wanted(main, t)
  BY DEF Inv
<1>1. p = First(t) /\ First(t) \in Slots /\ Second(t) \in Slots
      /\ (round[t] = 0 => First(t) = 0 /\ Second(t) = 1)
  BY InOrder DEF First
<1>2. place[t] = "lock" /\ place' = [place EXCEPT ![t] = "try1"] /\ UNCHANGED <<own, round>>
  BY DEF Lock
<1>3. First(t)' = First(t) /\ Second(t)' = Second(t)
  BY <1>2 DEF First, Second, Place
<1>4. state[t] = {} \/ (round[t] = 0 /\ state[t] = own[t])
  BY <1>0, <1>2 DEF Held
<1>5. state[t] \subseteq {First(t), Second(t)}
  BY <1>0, <1>1, <1>4 DEF Wanted
<1>6. CASE p \in state[t]
  <2>1. UNCHANGED <<owner, state>>
    BY <1>6 DEF Lock
  <2>2. Changes(t)
    BY <2>1, NothingChanges
  <2>3. Alone(t)
    BY <1>0, <1>2, <2>1 DEF Alone, LockTypeOK
  <2>4. OwnPart(main, t)'
    BY <1>0, <1>1, <1>2, <1>3, <1>5, <1>6, <2>1 DEF OwnPart, Held, LockTypeOK, Wanted
  <2>5. QED BY <2>2, <2>3, <2>4, StepKeeps
<1>7. CASE p \notin state[t]
  <2>1. Free(t, p) /\ Grab(t, p)
    BY <1>7 DEF Lock
  <2>2. Changes(t) /\ state'[t] = state[t] \cup {p}
    BY <2>1, <1>1, GrabChanges
  <2>3. Alone(t)
    BY <1>0, <1>1, <1>2, <2>1 DEF Alone, Grab, LockTypeOK
  <2>4. OwnPart(main, t)'
    BY <1>0, <1>1, <1>2, <1>3, <1>5, <2>2 DEF OwnPart, Held, LockTypeOK, Wanted
  <2>5. QED BY <2>2, <2>3, <2>4, StepKeeps
<1>8. QED BY <1>6, <1>7

LEMMA TryStep ==
    ASSUME NEW main \in Holders, Inv(main), NEW t \in Holders,
           NEW here \in {"try1", "try2"}, NEW n \in {2, 3}, NEW next \in {"try2", "all"},
           here = "try1" => n = 2 /\ next = "try2",
           here = "try2" => n = 3 /\ next = "all",
           Try(t, here, n, next)
    PROVE  Inv(main)'
<1> DEFINE p == Place(t, n)
<1>0. LockTypeOK /\ Held(t) /\ own[t] \in Wanted(main, t)
  BY DEF Inv
<1>1. /\ p \in Slots /\ First(t) \in Slots /\ Second(t) \in Slots /\ Place(t, 3) \in Slots
      /\ {First(t), Second(t), Place(t, 3)} = Slots
      /\ here = "try1" => p = Second(t)
      /\ here = "try2" => p = Place(t, 3)
  BY InOrder DEF Second
<1>2. place[t] = here /\ UNCHANGED <<own, round>>
  BY DEF Try
<1>3. First(t)' = First(t) /\ Second(t)' = Second(t)
  BY <1>2 DEF First, Second, Place
<1>4. state[t] \subseteq {First(t), Second(t)} /\ First(t) \in state[t]
      /\ (here = "try2" => Second(t) \in state[t])
  BY <1>0, <1>2 DEF Held
<1>5. CASE p \in state[t] /\ place' = [place EXCEPT ![t] = next] /\ UNCHANGED <<owner, state>>
  <2>1. Changes(t)
    BY <1>5, NothingChanges
  <2>2. Alone(t)
    BY <1>0, <1>2, <1>5 DEF Alone, LockTypeOK
  <2>3. place'[t] = next /\ state'[t] = state[t] /\ own'[t] = own[t]
    BY <1>0, <1>2, <1>5 DEF LockTypeOK
  <2>4. Held(t)'
    <3>1. CASE here = "try1"
      BY <3>1, <2>3, <1>1, <1>3, <1>4, <1>5 DEF Held
    <3>2. CASE here = "try2"
      <4>1. state[t] = Slots
        BY <3>2, <1>1, <1>4, <1>5
      <4>2. QED BY <3>2, <4>1, <2>3 DEF Held
    <3>3. QED BY <3>1, <3>2
  <2>5. OwnPart(main, t)'
    BY <2>3, <2>4, <1>0 DEF OwnPart, Wanted
  <2>6. QED BY <2>1, <2>2, <2>5, StepKeeps
<1>6. CASE p \notin state[t] /\ Free(t, p) /\ Grab(t, p) /\ place' = [place EXCEPT ![t] = next]
  <2>1. Changes(t) /\ state'[t] = state[t] \cup {p}
    BY <1>1, <1>6, GrabChanges
  <2>2. Alone(t)
    BY <1>0, <1>1, <1>2, <1>6 DEF Alone, Grab, LockTypeOK
  <2>3. place'[t] = next /\ own'[t] = own[t]
    BY <1>0, <1>2, <1>6 DEF LockTypeOK
  <2>4. Held(t)'
    <3>1. CASE here = "try1"
      BY <3>1, <2>1, <2>3, <1>1, <1>3, <1>4 DEF Held
    <3>2. CASE here = "try2"
      <4>1. state'[t] = Slots
        BY <3>2, <1>1, <1>4, <2>1
      <4>2. QED BY <3>2, <4>1, <2>3 DEF Held
    <3>3. QED BY <3>1, <3>2
  <2>5. OwnPart(main, t)'
    BY <2>3, <2>4, <1>0 DEF OwnPart, Wanted
  <2>6. QED BY <2>1, <2>2, <2>5, StepKeeps
<1>7. CASE place' = [place EXCEPT ![t] = "back"] /\ UNCHANGED <<owner, state>>
  <2>1. Changes(t)
    BY <1>7, NothingChanges
  <2>2. Alone(t)
    BY <1>0, <1>2, <1>7 DEF Alone, LockTypeOK
  <2>3. OwnPart(main, t)'
    BY <1>0, <1>2, <1>3, <1>4, <1>7 DEF OwnPart, Held, LockTypeOK, Wanted
  <2>4. QED BY <2>1, <2>2, <2>3, StepKeeps
<1>8. QED BY <1>5, <1>6, <1>7 DEF Try

LEMMA BackStep ==
    ASSUME NEW main \in Holders, Inv(main), NEW t \in Holders, Back(t)
    PROVE  Inv(main)'
<1> DEFINE P == {Place(t, 1), Place(t, 2)} \cap state[t]
<1>0. LockTypeOK /\ Held(t) /\ own[t] \in Wanted(main, t)
  BY DEF Inv
<1>1. place[t] = "back" /\ Give(t, P) /\ state' = [state EXCEPT ![t] = @ \ P]
      /\ round' = [round EXCEPT ![t] = (@ + 1) % 3]
      /\ place' = [place EXCEPT ![t] = "lock"] /\ UNCHANGED own
  BY DEF Back
<1>2. state[t] \subseteq {First(t), Second(t)}
  BY <1>0, <1>1 DEF Held
<1>3. P = state[t]
  BY <1>2 DEF First, Second
<1>4. P \in SUBSET Slots /\ P \subseteq state[t]
  BY <1>0, <1>3 DEF LockTypeOK
<1>5. Changes(t) /\ state'[t] = state[t] \ P
  <2> HIDE DEF P
  <2>1. QED BY <1>1, <1>4, GiveChanges
<1>6. state'[t] = {}
  BY <1>3, <1>5
<1>7. Alone(t)
  <2>1. (round[t] + 1) % 3 \in Slots
    BY <1>0 DEF LockTypeOK, Slots
  <2>2. QED BY <1>0, <1>1, <1>4, <2>1 DEF Alone, LockTypeOK
<1>8. OwnPart(main, t)'
  BY <1>0, <1>1, <1>6 DEF OwnPart, Held, LockTypeOK, Wanted
<1>9. QED BY <1>5, <1>7, <1>8, StepKeeps

LEMMA RestoreStep ==
    ASSUME NEW main \in Holders, Inv(main), NEW t \in Holders, Restore(t)
    PROVE  Inv(main)'
<1> DEFINE P == Slots \ own[t]
<1>0. LockTypeOK /\ Held(t) /\ own[t] \in Wanted(main, t)
  BY DEF Inv
<1>1. place[t] = "all" /\ Give(t, P) /\ state' = [state EXCEPT ![t] = own[t]]
      /\ place' = [place EXCEPT ![t] = "restored"] /\ UNCHANGED <<own, round>>
  BY DEF Restore
<1>2. state[t] = Slots /\ own[t] \subseteq Slots
  BY <1>0, <1>1 DEF Held, LockTypeOK
<1>3. state' = [state EXCEPT ![t] = @ \ P]
  BY <1>0, <1>1, <1>2 DEF LockTypeOK
<1>4. Changes(t)
  <2>1. P \in SUBSET Slots /\ P \subseteq state[t]
    BY <1>2
  <2> HIDE DEF P
  <2>2. QED BY <1>1, <1>3, <2>1, GiveChanges
<1>5. Alone(t)
  BY <1>0, <1>1, <1>2 DEF Alone, LockTypeOK
<1>6. OwnPart(main, t)'
  BY <1>0, <1>1 DEF OwnPart, Held, LockTypeOK, Wanted
<1>7. QED BY <1>4, <1>5, <1>6, StepKeeps

LEMMA EndStep ==
    ASSUME NEW main \in Holders, Inv(main), NEW t \in Holders, End(t)
    PROVE  Inv(main)'
<1>0. LockTypeOK /\ Held(t) /\ own[t] \in Wanted(main, t)
  BY DEF Inv
<1>1. place[t] = "restored" /\ Give(t, own[t]) /\ state' = [state EXCEPT ![t] = {}]
      /\ own' = [own EXCEPT ![t] = {}] /\ place' = [place EXCEPT ![t] = "out"] /\ UNCHANGED round
  BY DEF End
<1>2. state[t] = own[t] /\ own[t] \in SUBSET Slots
  BY <1>0, <1>1 DEF Held, LockTypeOK
<1>3. state' = [state EXCEPT ![t] = @ \ own[t]]
  BY <1>0, <1>1, <1>2 DEF LockTypeOK
<1>4. Changes(t)
  BY <1>1, <1>2, <1>3, GiveChanges
<1>5. Alone(t)
  BY <1>0, <1>1 DEF Alone, LockTypeOK
<1>6. OwnPart(main, t)'
  BY <1>0, <1>1 DEF OwnPart, Held, LockTypeOK, Wanted
<1>7. QED BY <1>4, <1>5, <1>6, StepKeeps

LEMMA NextInv ==
    ASSUME NEW main \in Holders, OwnsFirst(main), Inv(main), [LockNext]_lockVars
    PROVE  Inv(main)'
<1>1. CASE UNCHANGED lockVars
  BY <1>1 DEF lockVars, Inv, LockTypeOK, Ownership, Belongs, Held, First, Second, Place, Wanted
<1>2. ASSUME NEW t \in Holders, Step(t) PROVE Inv(main)'
  <2>1. CASE Try(t, "try1", 2, "try2")
    BY <2>1, TryStep
  <2>2. CASE Try(t, "try2", 3, "all")
    BY <2>2, TryStep
  <2>3. QED
    BY <1>2, <2>1, <2>2, BeginStep, OwnOneStep, CallLockAllStep, LockStep, BackStep,
       RestoreStep, EndStep DEF Step
<1>3. QED BY <1>1, <1>2 DEF LockNext

--------------------------------------------------------------------------------
(* What follows from the invariant *)

LEMMA InvHasAll == ASSUME NEW main, Inv(main) PROVE HasAll
<1> SUFFICES ASSUME NEW t \in Holders
             PROVE  /\ place[t] = "all" => \A p \in Slots : owner[Args[t][p]] = t
                    /\ place[t] = "restored" => \A p \in own[t] : owner[Args[t][p]] = t
  BY DEF HasAll
<1>1. Held(t) /\ own[t] \subseteq Slots /\ \A p \in Slots : p \in state[t] <=> owner[Args[t][p]] = t
  BY DEF Inv, LockTypeOK, Ownership
<1>2. QED BY <1>1 DEF Held

\* Only `main` can wait while it has something, and only before its call.
LEMMA OnlyMainHolds ==
    ASSUME NEW main, Inv(main), NEW t \in Holders, Blocker(t) # NoHolder, state[t] # {}
    PROVE  t = main
<1>0. Held(t) /\ own[t] \in Wanted(main, t)
  BY DEF Inv
<1>1. CASE place[t] = "lock" /\ Place(t, 1) \notin state[t]
  <2>1. round[t] = 0 /\ state[t] = own[t] /\ First(t) = 0
    BY <1>0, <1>1, InOrder DEF Held
  <2>2. 0 \in own[t]
    BY <1>0, <2>1 DEF Wanted
  <2>3. QED BY <1>1, <2>1, <2>2 DEF First
<1>2. CASE place[t] = "owning" /\ own[t] # state[t]
  BY <1>0, <1>2 DEF Held, Wanted
<1>3. QED BY <1>1, <1>2 DEF Blocker

\* Nobody waits for a mutex it has, and whom it waits for has one.
LEMMA NotItself ==
    ASSUME NEW main, Inv(main), NEW t \in Holders, Blocker(t) # NoHolder
    PROVE  Blocker(t) \in Holders \ {t} /\ state[Blocker(t)] # {}
<1> USE LockAssumption
<1>0. /\ Held(t) /\ own[t] \in Wanted(main, t) /\ own[t] \subseteq Slots
      /\ \A u \in Holders, p \in Slots : p \in state[u] <=> owner[Args[u][p]] = u
      /\ owner \in [Mutexes -> Holders \cup {NoHolder}]
      /\ \A u \in Holders, m \in Mutexes : owner[m] = u => \E p \in Slots : Args[u][p] = m
  BY DEF Inv, LockTypeOK, Ownership, Belongs
<1>1. PICK p \in Slots : p \notin state[t] /\ Blocker(t) = owner[Args[t][p]]
  <2>1. CASE place[t] = "lock" /\ Place(t, 1) \notin state[t]
    <3>1. Place(t, 1) \in Slots
      BY InOrder DEF First
    <3>2. QED BY <2>1, <3>1 DEF Blocker
  <2>2. CASE place[t] = "owning" /\ own[t] # state[t]
    <3>1. own[t] \in {{}, {0}, {0, 1}} /\ state[t] \subseteq own[t]
      BY <1>0, <2>2 DEF Wanted, Held
    <3>2. \E q \in own[t] \ state[t] : \A r \in own[t] \ state[t] : q <= r
      <4>1. CASE 0 \in own[t] \ state[t]
        BY <3>1, <4>1
      <4>2. CASE 0 \notin own[t] \ state[t]
        <5>1. own[t] # {}
          BY <3>1, <2>2
        <5>2. 0 \in state[t]
          BY <3>1, <4>2, <5>1
        <5>3. own[t] = {0, 1} /\ 1 \notin state[t]
          BY <3>1, <2>2, <5>2
        <5>4. 1 \in own[t] \ state[t] /\ \A r \in own[t] \ state[t] : r = 1
          BY <5>2, <5>3
        <5>5. QED BY <5>4
      <4>3. QED BY <4>1, <4>2
    <3>3. OwnNext(t) \in own[t] \ state[t]
      BY <3>2 DEF OwnNext
    <3>4. QED BY <1>0, <2>2, <3>3 DEF Blocker
  <2>3. QED BY <2>1, <2>2 DEF Blocker
<1>2. Args[t][p] \in Mutexes
  OBVIOUS
<1>3. Blocker(t) \in Holders
  BY <1>0, <1>1, <1>2
<1>4. Blocker(t) # t
  BY <1>0, <1>1
<1>5. PICK q \in Slots : Args[Blocker(t)][q] = Args[t][p]
  BY <1>0, <1>1, <1>2, <1>3
<1>6. q \in state[Blocker(t)]
  BY <1>0, <1>1, <1>3, <1>5
<1>7. QED BY <1>3, <1>4, <1>6

\* Whom a waiting thread waits for holds something; if that one waits, too, it is `main`;
\* and `main` does not wait for itself.
LEMMA InvNoCircularWait == ASSUME NEW main, Inv(main) PROVE NoCircularWait
<1> SUFFICES ASSUME NEW S \in (SUBSET Holders) \ {{}}, \A t \in S : Blocker(t) \in S
             PROVE  FALSE
  BY DEF NoCircularWait
<1>1. \A t \in S : t \in Holders /\ Blocker(t) # NoHolder
  BY LockAssumption
<1>2. PICK t \in S : TRUE
  OBVIOUS
<1>3. ASSUME NEW u \in S PROVE Blocker(u) = main
  <2>1. Blocker(u) \in S /\ state[Blocker(u)] # {}
    BY <1>1, NotItself
  <2>2. QED BY <2>1, <1>1, OnlyMainHolds
<1>4. main \in S /\ Blocker(main) = main
  BY <1>2, <1>3
<1>5. QED BY <1>1, <1>4, NotItself

\* No two threads, and no three, wait for each other in ScopedLockMultiple.
THEOREM NoDeadlock ==
    ASSUME NEW main \in Holders, OwnsFirst(main)
    PROVE  LockSpec => []NoCircularWait
<1>1. LockInit => Inv(main)
  BY LockInitInv
<1>2. Inv(main) /\ [LockNext]_lockVars => Inv(main)'
  BY NextInv
<1>3. Inv(main) => NoCircularWait
  BY InvNoCircularWait
<1>4. QED BY <1>1, <1>2, <1>3, PTL DEF LockSpec

\* The type invariant: among it, that no thread tries beyond its second place.
THEOREM LocksTyped ==
    ASSUME NEW main \in Holders, OwnsFirst(main)
    PROVE  LockSpec => []LockTypeOK
<1>1. LockInit => Inv(main)
  BY LockInitInv
<1>2. Inv(main) /\ [LockNext]_lockVars => Inv(main)'
  BY NextInv
<1>3. Inv(main) => LockTypeOK
  BY DEF Inv
<1>4. QED BY <1>1, <1>2, <1>3, PTL DEF LockSpec

\* A thread in the scope of the lock has all mutexes, and afterwards what it owned.
THEOREM LocksAll ==
    ASSUME NEW main \in Holders, OwnsFirst(main)
    PROVE  LockSpec => []HasAll
<1>1. LockInit => Inv(main)
  BY LockInitInv
<1>2. Inv(main) /\ [LockNext]_lockVars => Inv(main)'
  BY NextInv
<1>3. Inv(main) => HasAll
  BY InvHasAll
<1>4. QED BY <1>1, <1>2, <1>3, PTL DEF LockSpec

================================================================================
