----------------------------- MODULE Interthread -----------------------------
(***************************************************************************)
(* The blocking containers of CommonLibs/Interthread.h on the Mutex and    *)
(* the Signal of CommonLibs/Threads: InterthreadQueue, two queues joined   *)
(* by iqConnect, InterthreadQueueWithWait, InterthreadMap,                 *)
(* InterthreadPriorityQueue and Semaphore.  They are one monitor, and      *)
(* differ in what makes a reader ready, in what it takes, and in whom they *)
(* signal.  A critical section is one step, from the lock to the unlock or *)
(* to the wait; what happens after the unlock is a step of its own.        *)
(***************************************************************************)
EXTENDS Integers, Sequences, FiniteSets

CONSTANTS
    Threads,
    NoThread,   \* no thread
    Kinds,      \* the containers of this instance
    Does,       \* the operations each thread calls
    Lows,       \* low water marks given to wait(sz)
    MaxWrites   \* bound: how many items are written

AllKinds == {"queue", "either", "withWait", "map", "priority", "semaphore"}
Reading == {"read", "readTimed"}
Ops == Reading \cup {"readNoBlock", "write", "write_front", "wait", "clear",
                     "iqWaitForEither", "iqWaitForEitherTimed"}
Timed == {"readTimed", "iqWaitForEitherTimed"}

\* The operations each of them has.
OpsOf(k) ==
    CASE k = "queue"     -> Reading \cup {"readNoBlock", "write", "write_front", "clear"}
      [] k = "either"    -> {"readNoBlock", "write", "iqWaitForEither", "iqWaitForEitherTimed"}
      [] k = "withWait"  -> Reading \cup {"readNoBlock", "write", "wait", "clear"}
      [] k = "map"       -> Reading \cup {"readNoBlock", "write"}
      [] k = "priority"  -> Reading \cup {"readNoBlock", "write", "clear"}
      [] k = "semaphore" -> {"read", "readNoBlock", "write"}

ASSUME InterthreadAssumption ==
    /\ NoThread \notin Threads
    /\ IsFiniteSet(Threads)
    /\ Kinds \subseteq AllKinds
    /\ Does \in [Threads -> SUBSET Ops]
    /\ Lows \subseteq Nat
    /\ MaxWrites \in Nat

VARIABLES
    kind,     \* which container this is; it does not change
    content,  \* the items in it, in its order: numbers, or keys of the map
    other,    \* the items of the queue it is connected with (kind "either")
    writes,   \* history: how often something was written
    op,       \* the operation each thread is in
    at,       \* where it is in it
    arg,      \* the key it reads, or its low water mark
    late,     \* its timeout has passed
    holder    \* the thread that keeps the mutex from one step to the next

shared == <<content, other, writes>>
vars == <<kind, shared, op, at, arg, late, holder>>

Items == -MaxWrites..MaxWrites
Places == {"out", "start", "waitWrite", "waitRead", "woken", "signal", "spin"}

Init ==
    /\ kind \in Kinds
    /\ content = << >>
    /\ other = << >>
    /\ writes = 0
    /\ op = [t \in Threads |-> "none"]
    /\ at = [t \in Threads |-> "out"]
    /\ arg = [t \in Threads |-> 0]
    /\ late = [t \in Threads |-> FALSE]
    /\ holder = NoThread

In(s) == {s[i] : i \in DOMAIN s}
Waiting(place) == {t \in Threads : at[t] = place}

\* The threads after `t` went to `place` and signalled: one that waits, if there is one.
Signalled(t, place, waits) ==
    LET W == Waiting(waits)
    IN  IF W = {} THEN at' = [at EXCEPT ![t] = place]
        ELSE \E u \in W : at' = [at EXCEPT ![t] = place, ![u] = "woken"]

\* A faulty broadcast, that wakes one thread.
BroadcastToOne(t, place, waits) == Signalled(t, place, waits)

Broadcast(t, place, waits) ==
    at' = [u \in Threads |-> IF u = t THEN place
                             ELSE IF at[u] = waits THEN "woken" ELSE at[u]]

GoesTo(t, place) == at' = [at EXCEPT ![t] = place]

--------------------------------------------------------------------------------
(* Calls *)

Call(t) ==
    /\ at[t] = "out"
    /\ \E o \in Does[t] \cap OpsOf(kind) :
          /\ o \in {"write", "write_front"} => writes < MaxWrites
          /\ op' = [op EXCEPT ![t] = o]
          /\ \E a \in CASE o = "wait" -> Lows
                         [] kind = "map" /\ o \in Reading \cup {"readNoBlock"} -> 1..MaxWrites
                         [] OTHER -> {0} :
                arg' = [arg EXCEPT ![t] = a]
    /\ GoesTo(t, "start")
    /\ UNCHANGED <<kind, shared, late, holder>>

\* The thread has the mutex, at its call or when a wait returned.
Locks(t, ops) ==
    /\ holder = NoThread
    /\ at[t] \in {"start", "woken"}
    /\ op[t] \in ops

\* Nothing else changes; what was local to an operation is gone when it returns.
Quiet ==
    LET Kept(f, none) == [t \in Threads |-> IF at'[t] = "out" THEN none ELSE f[t]]
    IN  /\ op' = Kept(op, "none")
        /\ arg' = Kept(arg, 0)
        /\ late' = Kept(late, FALSE)
        /\ UNCHANGED <<kind, holder>>

--------------------------------------------------------------------------------
(* Reading *)

Ready(t) ==
    CASE kind = "map"    -> arg[t] \in In(content)
      [] kind = "either" -> content # << >> \/ other # << >>
      [] OTHER           -> content # << >>

\* The first item; an item of the map under its key; either queue's first.
Take(t) ==
    CASE kind = "map" -> /\ content' = SelectSeq(content, LAMBDA k : k # arg[t])
                         /\ UNCHANGED other
      [] kind = "either" /\ content = << >> -> other' = Tail(other) /\ UNCHANGED content
      [] OTHER -> content' = Tail(content) /\ UNCHANGED other

\* A faulty read, that does not tell who waits for the queue to fall.
LeavesSilently(t) == GoesTo(t, "out")

\* InterthreadQueueWithWait tells who waits for the queue to fall, inside the mutex.
Leaves(t) ==
    IF kind = "withWait" THEN Signalled(t, "out", "waitRead") ELSE GoesTo(t, "out")

Read(t) ==
    /\ Locks(t, Reading \cup {"readNoBlock"})
    /\ Ready(t)
    /\ Take(t)
    /\ Leaves(t)
    /\ Quiet
    /\ UNCHANGED writes

\* InterthreadMap::read leaves the item in the map.
ReadAndKeep(t) ==
    /\ kind = "map"
    /\ Locks(t, Reading \cup {"readNoBlock"})
    /\ Ready(t)
    /\ GoesTo(t, "out")
    /\ Quiet
    /\ UNCHANGED shared

\* A faulty read, that returns NULL only if it was told not to wait.
ReadNothingIgnoresTime(t) ==
    /\ Locks(t, {"readNoBlock"})
    /\ ~Ready(t)
    /\ GoesTo(t, "out")
    /\ Quiet
    /\ UNCHANGED shared

\* NULL: at once, or when less than 2 ms are left.
ReadNothing(t) ==
    /\ Locks(t, {"readNoBlock", "readTimed"})
    /\ ~Ready(t)
    /\ op[t] = "readTimed" => late[t]
    /\ GoesTo(t, "out")
    /\ Quiet
    /\ UNCHANGED shared

ReadWaits(t) ==
    /\ Locks(t, Reading \cup {"iqWaitForEither", "iqWaitForEitherTimed"})
    /\ ~Ready(t)
    /\ ~late[t]
    /\ GoesTo(t, "waitWrite")
    /\ Quiet
    /\ UNCHANGED shared

\* iqWaitForEither returns without taking anything.
EitherReturns(t) ==
    /\ Locks(t, {"iqWaitForEither", "iqWaitForEitherTimed"})
    /\ Ready(t)
    /\ GoesTo(t, "out")
    /\ Quiet
    /\ UNCHANGED shared

\* Once its time has passed, wait() returns at once, without giving up the mutex.
EitherSpins(t) ==
    /\ Locks(t, {"iqWaitForEitherTimed"})
    /\ ~Ready(t)
    /\ late[t]
    /\ GoesTo(t, "spin")
    /\ holder' = t
    /\ UNCHANGED <<kind, shared, op, arg, late>>

\* InterthreadQueueWithWait::wait(sz)
FallReturns(t) ==
    /\ Locks(t, {"wait"})
    /\ Len(content) <= arg[t]
    /\ GoesTo(t, "out")
    /\ Quiet
    /\ UNCHANGED shared

FallWaits(t) ==
    /\ Locks(t, {"wait"})
    /\ Len(content) > arg[t]
    /\ GoesTo(t, "waitRead")
    /\ Quiet
    /\ UNCHANGED shared

--------------------------------------------------------------------------------
(* Writing *)

\* A new number, after or before all that are in the queue.
PutBack ==
    content' = Append(content, IF content = << >> THEN 1 ELSE content[Len(content)] + 1)
PutFront == content' = <<IF content = << >> THEN 0 ELSE Head(content) - 1>> \o content

\* The priority queue is kept in the order in which it will be read.
PutAny(x) ==
    LET n == Cardinality({i \in DOMAIN content : content[i] < x})
    IN  content' = SubSeq(content, 1, n) \o <<x>> \o SubSeq(content, n + 1, Len(content))

\* The map replaces what it has under the key; a semaphore is set once.
Put(x) ==
    CASE kind = "priority" -> PutAny(x)
      [] kind = "map" -> content' = IF x \in In(content) THEN content ELSE Append(content, x)
      [] kind = "semaphore" -> content' = <<1>>
      [] OTHER -> PutBack

\* A faulty write, that signals only the first item.
WriteTellsOnce(t) ==
    /\ Locks(t, {"write"})
    /\ kind \notin {"map", "semaphore"}
    /\ \E x \in 1..MaxWrites \ In(content) : Put(x)
    /\ UNCHANGED other
    /\ GoesTo(t, IF content = << >> THEN "signal" ELSE "out")
    /\ writes' = writes + 1
    /\ Quiet

\* The mutex is given back before the signal.
Write(t) ==
    /\ Locks(t, {"write"})
    /\ kind \notin {"map", "semaphore"}
    /\ \/ (\E x \in 1..MaxWrites \ In(content) : Put(x)) /\ UNCHANGED other
       \/ kind = "either" /\ other' = Append(other, 1) /\ UNCHANGED content
    /\ GoesTo(t, "signal")
    /\ writes' = writes + 1
    /\ Quiet

WriteFront(t) ==
    /\ Locks(t, {"write_front"})
    /\ PutFront
    /\ UNCHANGED other
    /\ GoesTo(t, "signal")
    /\ writes' = writes + 1
    /\ Quiet

Tell(t) ==
    /\ at[t] = "signal"
    /\ Signalled(t, "out", "waitWrite")
    /\ Quiet
    /\ UNCHANGED shared

\* InterthreadMap1::write, Semaphore::post: the mutex is held when they signal.
WriteAndTell(t) ==
    /\ Locks(t, {"write"})
    /\ kind \in {"map", "semaphore"}
    /\ \E x \in 1..MaxWrites : Put(x)
    /\ UNCHANGED other
    /\ IF kind = "map" THEN Broadcast(t, "out", "waitWrite")
                       ELSE Signalled(t, "out", "waitWrite")
    /\ writes' = writes + 1
    /\ Quiet

Clear(t) ==
    /\ Locks(t, {"clear"})
    /\ content' = << >>
    /\ UNCHANGED <<other, writes>>
    /\ Leaves(t)
    /\ Quiet

--------------------------------------------------------------------------------
(* Waiting *)

\* A timeout passes; a wait returns.
TimePasses(t) ==
    /\ op[t] \in Timed
    /\ at[t] \in {"start", "waitWrite", "woken"}
    /\ ~late[t]
    /\ late' = [late EXCEPT ![t] = TRUE]
    /\ at' = [at EXCEPT ![t] = IF @ = "waitWrite" THEN "woken" ELSE @]
    /\ UNCHANGED <<kind, shared, op, arg, holder>>

\* "Under Linux, spurious returns are possible."
Spurious(t) ==
    /\ at[t] \in {"waitWrite", "waitRead"}
    /\ GoesTo(t, "woken")
    /\ Quiet
    /\ UNCHANGED shared

Runs(t) ==
    \/ Read(t) \/ ReadAndKeep(t) \/ ReadNothing(t) \/ ReadWaits(t)
    \/ EitherReturns(t) \/ EitherSpins(t)
    \/ FallReturns(t) \/ FallWaits(t)
    \/ Write(t) \/ WriteFront(t) \/ Tell(t) \/ WriteAndTell(t) \/ Clear(t)

Next == \E t \in Threads : Call(t) \/ Runs(t) \/ TimePasses(t) \/ Spurious(t)

\* A thread that is in an operation goes on, and time does.  No thread has to call, and
\* no wait has to return without a signal.
Fairness == \A t \in Threads : WF_vars(Runs(t)) /\ WF_vars(TimePasses(t))

Spec == Init /\ [][Next]_vars /\ Fairness

--------------------------------------------------------------------------------
(* Properties *)

TypeOK ==
    /\ kind \in Kinds
    /\ content \in Seq(Items)
    /\ other \in Seq(Items)
    /\ writes \in 0..MaxWrites
    /\ op \in [Threads -> Ops \cup {"none"}]
    /\ at \in [Threads -> Places]
    /\ arg \in [Threads -> Nat]
    /\ late \in [Threads -> BOOLEAN]
    /\ holder \in Threads \cup {NoThread}
    /\ \A t \in Threads :
          /\ at[t] = "out" <=> op[t] = "none"
          /\ at[t] = "waitRead" => op[t] = "wait"
          /\ at[t] = "waitWrite" => op[t] \in Reading \cup {"iqWaitForEither"} \cup Timed

\* A signal is not lost: while threads wait for an item, every item that is there has a
\* thread that was woken, or one that is about to signal.
Pending == {t \in Threads : at[t] \in {"woken", "signal"}}
NoLostWakeup ==
    kind \in {"queue", "priority", "semaphore"} /\ Waiting("waitWrite") # {}
        => Len(content) <= Cardinality(Pending)

\* A thread that waits for an item, or a key, that is there does not go on waiting.
ReaderWakes ==
    \A t \in Threads :
        at[t] = "waitWrite" /\ Ready(t) ~> at[t] # "waitWrite" \/ ~Ready(t)

\* One thread that waits for a queue to fall is told when it has.
FallIsTold ==
    \A t \in Threads :
        at[t] = "waitRead" /\ Len(content) <= arg[t]
            ~> at[t] # "waitRead" \/ Len(content) > arg[t]

\* A read with a timeout returns.
TimedReadReturns ==
    \A t \in Threads : op[t] = "readTimed" /\ at[t] # "out" ~> at[t] = "out"

================================================================================
