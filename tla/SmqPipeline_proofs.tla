-------------------------- MODULE SmqPipeline_proofs --------------------------
(***************************************************************************)
(* Proofs about the threads of smqueue: for any number of datagrams and    *)
(* any number of turns of the main loop, the datagrams go through the      *)
(* pipeline in order and once each, the acker never waits inside front(),  *)
(* and run() ends after its threads.                                       *)
(*                                                                         *)
(* The invariant adds five facts.  The mutex is taken exactly while the    *)
(* reader is pushing.  The acker's copy is still the front of the queue    *)
(* when it pops: nobody else pops.  What it has queued it is done with.    *)
(* While the main loop goes on, its count is not negative.  A thread that  *)
(* main has not started yet is new, one it has joined has ended.           *)
(*                                                                         *)
(* And about the sockets: a delivery sends a message once or says that it  *)
(* did not, because no two sockets are of one family.                      *)
(***************************************************************************)
EXTENDS SmqPipeline, SmqNetwork, SequenceTheorems, FiniteSetTheorems,
        WellFoundedInduction, TLAPS

MutexInv == m_mutex = "reader" <=> pc["reader"] = "pushing"

CopyInv == pc["acker"] = "pop" => rmsg = Head(m_queue)

TsqInv == \A k \in 1..Len(m_tsq) : m_tsq[k] <= Len(handled)

LoopInv == ~m_stop_main_loop => i >= 0

ThreadInv ==
    /\ pc["main"] = "run writer" => pc["writer"] = "new"
    /\ pc["main"] \in {"run writer", "run reader"} => pc["reader"] = "new"
    /\ pc["main"] \in {"run writer", "run reader", "run acker"} => pc["acker"] = "new"
    /\ pc["main"] \in {"join writer", "join acker", "done"} => pc["reader"] = "ended"
    /\ pc["main"] \in {"join acker", "done"} => pc["writer"] = "ended"
    /\ pc["main"] = "done" => pc["acker"] = "ended"

IInv ==
    /\ TypeOK
    /\ InOrder
    /\ FrontNeverWaits
    /\ MutexInv
    /\ CopyInv
    /\ TsqInv
    /\ LoopInv
    /\ ThreadInv

--------------------------------------------------------------------------------
(* What a step does to the places, and to what depends on them *)

\* A thread goes from one place to another; the others stay.
LEMMA GoMoves ==
  ASSUME TypeOK, NEW t \in Threads \cup {"main"}, NEW from, NEW to \in Places, Go(t, from, to)
  PROVE  /\ pc' \in [Threads \cup {"main"} -> Places]
         /\ pc[t] = from
         /\ pc'[t] = to
         /\ \A u \in Threads \cup {"main"} : u # t => pc'[u] = pc[u]
  BY DEF TypeOK, Go

dataVars == <<kind, m_queue, rmsg, m_tsq, handled>>

\* A step that moves no datagram leaves those in order.
LEMMA OrderKept ==
  ASSUME InOrder, TsqInv, UNCHANGED dataVars,
         pc'["acker"] = "validate" <=> pc["acker"] = "validate",
         pc'["reader"] \in {"push", "pushing"} <=> pc["reader"] \in {"push", "pushing"}
  PROVE  InOrder' /\ TsqInv'
<1>1. Taken' = Taken /\ Held' = Held
  BY DEF Taken, Held, dataVars
<1> QED
  BY <1>1 DEF InOrder, TsqInv, dataVars

\* What the acker relies on stays, if the acker and the reader stay where they are.
LEMMA FrontKept ==
  ASSUME FrontNeverWaits, CopyInv, MutexInv,
         UNCHANGED <<m_queue, m_mutex, rmsg, pc["acker"]>>,
         pc'["reader"] = "pushing" <=> pc["reader"] = "pushing"
  PROVE  FrontNeverWaits' /\ CopyInv' /\ MutexInv'
  BY DEF FrontNeverWaits, CopyInv, MutexInv

\* A thread that has been started and has not ended moves: nothing that depends on
\* main and the threads it starts and joins is concerned.
LEMMA ThreadKept ==
  ASSUME ThreadInv, NEW t \in Threads, pc[t] \notin {"new", "ended"},
         \A u \in Threads \cup {"main"} : u # t => pc'[u] = pc[u]
  PROVE  ThreadInv'
  BY DEF ThreadInv, Threads

--------------------------------------------------------------------------------

LEMMA InitIInv == Init => IInv
<1> SUFFICES ASSUME Init PROVE IInv
  OBVIOUS
<1>1. /\ << >> \in Seq(AllKinds) /\ << >> \in Seq(Nat)
      /\ Len(<< >>) = 0
  OBVIOUS
<1>2. pc \in [Threads \cup {"main"} -> Places]
  BY DEF Init, Places
<1>a. /\ kind = << >> /\ m_queue = << >> /\ m_tsq = << >> /\ handled = << >>
      /\ rmsg = 0 /\ m_mutex = "free"
  BY DEF Init
<1>b. i = MainTurns
  BY DEF Init
<1>c. i \in -1..MainTurns
  BY <1>b, PipelineAssumption
<1>d. m_stop_thread \in [Threads -> BOOLEAN] /\ m_stop_main_loop \in BOOLEAN
  BY Zenon DEF Init
<1>e. rmsg \in Nat /\ m_mutex \in {"free", "reader"}
  BY <1>a
<1>3. TypeOK
  BY <1>1, <1>2, <1>a, <1>c, <1>d, <1>e, Zenon DEF TypeOK
<1>4. pc["main"] = "run writer" /\ \A t \in Threads : pc[t] = "new"
  BY DEF Init, Threads
<1>5. InOrder /\ TsqInv
  <2>1. Len(kind) = 0 /\ Len(m_queue) = 0 /\ Len(handled) = 0 /\ Len(m_tsq) = 0
    BY <1>1, <1>a
  <2>2. Taken = 0 /\ Held = 0
    BY <1>4, <2>1 DEF Taken, Held, Threads
  <2>3. pc["acker"] # "validate"
    BY <1>4 DEF Threads
  <2>4. Len(kind) = Taken + Len(m_queue) + Held
    BY <2>1, <2>2
  <2>5. TsqInv
    BY <2>1 DEF TsqInv
  <2>6. InOrder
    BY <2>1, <2>3, <2>4 DEF InOrder
  <2> QED
    BY <2>5, <2>6
<1>6. FrontNeverWaits /\ MutexInv /\ CopyInv /\ ThreadInv
  BY <1>4, <1>a DEF FrontNeverWaits, MutexInv, CopyInv, ThreadInv, Threads
<1>7. LoopInv
  BY <1>b, PipelineAssumption DEF LoopInv
<1> QED
  BY <1>3, <1>5, <1>6, <1>7 DEF IInv


--------------------------------------------------------------------------------

\* The types of what is neither a place nor a flag.
DataType ==
    /\ kind \in Seq(AllKinds)
    /\ m_queue \in Seq(Nat)
    /\ m_mutex \in {"free", "reader"}
    /\ rmsg \in Nat
    /\ m_tsq \in Seq(Nat)
    /\ handled \in Seq(Nat)

LEMMA TypeParts ==
  TypeOK <=> /\ pc \in [Threads \cup {"main"} -> Places]
             /\ m_stop_thread \in [Threads -> BOOLEAN]
             /\ m_stop_main_loop \in BOOLEAN
             /\ i \in -1..MainTurns
             /\ DataType
  BY Zenon DEF TypeOK, DataType

\* A step of the thread t, which is running, that moves no datagram and does not go
\* to or from a place that anything depends on.
LEMMA IdleIInv ==
  ASSUME IInv, NEW t \in Threads, NEW from, NEW to \in Places, Go(t, from, to),
         from \notin {"new", "ended", "push", "pushing", "front", "copy", "pop", "validate"},
         to \notin {"push", "pushing", "front", "copy", "pop", "validate"},
         UNCHANGED <<mainVars, readerVars, m_queue, ackerVars>>,
         m_stop_thread' \in [Threads -> BOOLEAN]
  PROVE  IInv'
<1>1. /\ pc' \in [Threads \cup {"main"} -> Places]
      /\ pc[t] = from /\ pc'[t] = to
      /\ \A u \in Threads \cup {"main"} : u # t => pc'[u] = pc[u]
  BY GoMoves DEF IInv
<1>2. TypeOK'
  BY <1>1, TypeParts, Zenon DEF IInv, TypeOK, mainVars, readerVars, ackerVars
<1>3. UNCHANGED dataVars /\ UNCHANGED <<m_mutex, m_stop_main_loop, i>>
  BY Zenon DEF dataVars, mainVars, readerVars, ackerVars
<1>4. \A u \in Threads, s \in {"push", "pushing", "front", "copy", "pop", "validate"} :
          pc'[u] = s <=> pc[u] = s
  BY <1>1 DEF Threads
<1>5. InOrder' /\ TsqInv'
  BY <1>3, <1>4, OrderKept DEF IInv, Threads
<1>6. FrontNeverWaits' /\ CopyInv' /\ MutexInv'
  BY <1>3, <1>4 DEF IInv, FrontNeverWaits, CopyInv, MutexInv, Threads, dataVars
<1>7. ThreadInv'
  BY <1>1, ThreadKept DEF IInv
<1>8. LoopInv'
  BY <1>3, Zenon DEF IInv, LoopInv
<1> QED
  BY <1>2, <1>5, <1>6, <1>7, <1>8 DEF IInv

LEMMA ChecksStopIInv ==
  ASSUME IInv, NEW t \in Threads, NEW next \in {"recvfrom", "count"}, ChecksStop(t, next)
  PROVE  IInv'
<1>1. UNCHANGED <<m_stop_thread, mainVars, readerVars, m_queue, ackerVars>>
  BY DEF ChecksStop
<1>2. m_stop_thread' \in [Threads -> BOOLEAN]
  BY <1>1, Zenon DEF IInv, TypeOK
<1>3. Go(t, "loop", "ended") \/ Go(t, "loop", next)
  BY Zenon DEF ChecksStop
<1>4. "ended" \in Places /\ next \in Places
  BY DEF Places
<1> QED
  BY <1>1, <1>2, <1>3, <1>4, IdleIInv

LEMMA ReaderIdleIInv ==
  ASSUME IInv, ReaderBinds \/ ReaderSleeps \/ ReaderFails
  PROVE  IInv'
<1>1. /\ "reader" \in Threads
      /\ "loop" \in Places /\ "ended" \in Places
  BY DEF Threads, Places
<1>2. UNCHANGED <<mainVars, readerVars, m_queue, ackerVars>>
  BY Zenon DEF ReaderBinds, ReaderSleeps, ReaderFails
<1>3. m_stop_thread' \in [Threads -> BOOLEAN]
  BY Zenon DEF ReaderBinds, ReaderSleeps, ReaderFails, IInv, TypeOK
<1>4. \/ Go("reader", "bind", "loop") \/ Go("reader", "bind", "ended")
      \/ Go("reader", "recvfrom", "loop")
  BY DEF ReaderBinds, ReaderSleeps, ReaderFails
<1> QED
  BY <1>1, <1>2, <1>3, <1>4, IdleIInv

LEMMA WriterIInv == ASSUME IInv, Writer PROVE IInv'
<1>1. "writer" \in Threads /\ "loop" \in Places
  BY DEF Threads, Places
<1>2. CASE ChecksStop("writer", "count")
  BY <1>1, <1>2, ChecksStopIInv
<1>3. CASE WriterSleeps
  <2>1. m_stop_thread' \in [Threads -> BOOLEAN]
    BY <1>3, Zenon DEF WriterSleeps, IInv, TypeOK
  <2> QED
    BY <1>1, <1>3, <2>1, IdleIInv DEF WriterSleeps
<1> QED
  BY <1>2, <1>3 DEF Writer

--------------------------------------------------------------------------------
(* The reader at work *)

LEMMA ReaderReceivesIInv == ASSUME IInv, ReaderReceives PROVE IInv'
<1>1. /\ pc' \in [Threads \cup {"main"} -> Places]
      /\ pc["reader"] = "recvfrom" /\ pc'["reader"] = "push"
      /\ \A u \in Threads \cup {"main"} : u # "reader" => pc'[u] = pc[u]
  BY GoMoves DEF IInv, ReaderReceives, Threads, Places
<1>2. UNCHANGED <<m_stop_thread, m_stop_main_loop, i, m_queue, m_mutex, rmsg, m_tsq, handled>>
  BY Zenon DEF ReaderReceives, mainVars, ackerVars
<1>3. PICK k \in AllKinds : kind' = Append(kind, k)
  BY PipelineAssumption DEF ReaderReceives
<1>4. kind \in Seq(AllKinds)
  BY Zenon DEF IInv, TypeOK
<1>5. kind' \in Seq(AllKinds) /\ Len(kind') = Len(kind) + 1
  BY <1>3, <1>4
<1>6. TypeOK'
  BY <1>1, <1>2, <1>5, Zenon DEF IInv, TypeOK
<1>7. InOrder'
  <2>1. Taken' = Taken /\ Held = 0 /\ Held' = 1
    BY <1>1, <1>2 DEF Taken, Held, Threads
  <2>2. /\ Len(kind) \in Nat /\ Len(m_queue) \in Nat /\ Len(handled) \in Nat
    BY <1>4, LenProperties, TypeParts DEF IInv, DataType
  <2>3. Taken \in Nat
    BY <2>2 DEF Taken
  <2>4. Len(kind') = Taken' + Len(m_queue') + Held'
    BY <1>2, <1>5, <2>1, <2>2, <2>3 DEF IInv, InOrder
  <2>5. pc'["acker"] = pc["acker"]
    BY <1>1 DEF Threads
  <2> QED
    BY <1>2, <2>1, <2>4, <2>5 DEF IInv, InOrder
<1>8. TsqInv'
  BY <1>2 DEF IInv, TsqInv
<1>9. FrontNeverWaits' /\ CopyInv' /\ MutexInv'
  BY <1>1, <1>2 DEF IInv, FrontNeverWaits, CopyInv, MutexInv, Threads
<1>10. ThreadInv' /\ LoopInv'
  <2>1. ThreadInv'
    BY <1>1, ThreadKept DEF IInv, Threads
  <2>2. LoopInv'
    BY <1>2, Zenon DEF IInv, LoopInv
  <2> QED
    BY <2>1, <2>2
<1> QED
  BY <1>6, <1>7, <1>8, <1>9, <1>10 DEF IInv

LEMMA ReaderLocksIInv == ASSUME IInv, ReaderLocks PROVE IInv'
<1>1. /\ pc' \in [Threads \cup {"main"} -> Places]
      /\ pc["reader"] = "push" /\ pc'["reader"] = "pushing"
      /\ \A u \in Threads \cup {"main"} : u # "reader" => pc'[u] = pc[u]
  BY GoMoves DEF IInv, ReaderLocks, Threads, Places
<1>2. /\ UNCHANGED <<m_stop_thread, m_stop_main_loop, i, kind, m_queue, rmsg, m_tsq, handled>>
      /\ m_mutex' = "reader"
  BY Zenon DEF ReaderLocks, mainVars, ackerVars
<1>3. m_mutex' \in {"free", "reader"}
  BY <1>2
<1>4. TypeOK'
  BY <1>1, <1>2, <1>3, Zenon DEF IInv, TypeOK
<1>5. InOrder' /\ TsqInv'
  <2>1. UNCHANGED dataVars
    BY <1>2 DEF dataVars
  <2> QED
    BY <1>1, <2>1, OrderKept DEF IInv, Threads
<1>6. FrontNeverWaits' /\ CopyInv' /\ MutexInv'
  BY <1>1, <1>2 DEF IInv, FrontNeverWaits, CopyInv, MutexInv, Threads
<1>7. ThreadInv'
  BY <1>1, ThreadKept DEF IInv, Threads
<1>8. LoopInv'
  BY <1>2, Zenon DEF IInv, LoopInv
<1> QED
  BY <1>4, <1>5, <1>6, <1>7, <1>8 DEF IInv

LEMMA ReaderPushesIInv == ASSUME IInv, ReaderPushes PROVE IInv'
<1>1. /\ pc' \in [Threads \cup {"main"} -> Places]
      /\ pc["reader"] = "pushing" /\ pc'["reader"] = "loop"
      /\ \A u \in Threads \cup {"main"} : u # "reader" => pc'[u] = pc[u]
  BY GoMoves DEF IInv, ReaderPushes, Threads, Places
<1>2. /\ UNCHANGED <<m_stop_thread, m_stop_main_loop, i, kind, rmsg, m_tsq, handled>>
      /\ m_mutex' = "free"
      /\ m_queue' = Append(m_queue, Len(kind))
  BY Zenon DEF ReaderPushes, mainVars, ackerVars
<1>3. /\ m_queue \in Seq(Nat) /\ Len(m_queue) \in Nat
      /\ Len(kind) \in Nat /\ Len(handled) \in Nat
  BY LenProperties, TypeParts DEF IInv, DataType
<1>4. /\ m_queue' \in Seq(Nat)
      /\ m_queue' # << >>
      /\ Len(m_queue') = Len(m_queue) + 1
      /\ \A k \in 1..Len(m_queue) : m_queue'[k] = m_queue[k]
      /\ m_queue'[Len(m_queue) + 1] = Len(kind)
  BY <1>2, <1>3, AppendProperties
<1>5. m_mutex' \in {"free", "reader"}
  BY <1>2
<1>6. TypeOK'
  BY <1>1, <1>2, <1>4, <1>5, Zenon DEF IInv, TypeOK
<1>7. InOrder'
  <2>1. Taken' = Taken /\ Held = 1 /\ Held' = 0
    BY <1>1, <1>2 DEF Taken, Held, Threads
  <2>2. Taken \in Nat
    BY <1>3 DEF Taken
  <2>3. Len(kind) = Taken + Len(m_queue) + 1
    BY <2>1 DEF IInv, InOrder
  <2>4. \A k \in 1..Len(m_queue') : m_queue'[k] = Taken' + k
    <3>1. \A k \in 1..Len(m_queue) : m_queue[k] = Taken + k
      BY DEF IInv, InOrder
    <3> SUFFICES ASSUME NEW k \in 1..(Len(m_queue) + 1) PROVE m_queue'[k] = Taken + k
      BY <1>4, <2>1
    <3>2. CASE k \in 1..Len(m_queue)
      BY <1>4, <3>1, <3>2
    <3>3. CASE k = Len(m_queue) + 1
      BY <1>3, <1>4, <2>2, <2>3, <3>3
    <3> QED
      BY <1>3, <3>2, <3>3
  <2>5. Len(kind') = Taken' + Len(m_queue') + Held'
    BY <1>2, <1>3, <1>4, <2>1, <2>2, <2>3
  <2>6. pc'["acker"] = pc["acker"]
    BY <1>1 DEF Threads
  <2> QED
    BY <1>2, <2>1, <2>4, <2>5, <2>6 DEF IInv, InOrder
<1>8. TsqInv'
  BY <1>2 DEF IInv, TsqInv
<1>9. FrontNeverWaits' /\ MutexInv'
  BY <1>1, <1>2, <1>4 DEF FrontNeverWaits, MutexInv, Threads
<1>10. CopyInv'
  <2>1. SUFFICES ASSUME pc["acker"] = "pop" PROVE rmsg = Head(m_queue')
    BY <1>1, <1>2 DEF CopyInv, Threads
  <2>2. rmsg = Head(m_queue) /\ m_queue # << >>
    BY <2>1 DEF IInv, CopyInv, FrontNeverWaits
  <2>3. Head(Append(m_queue, Len(kind))) = Head(m_queue)
    BY <1>3, <2>2, HeadTailAppend
  <2> QED
    BY <1>2, <2>2, <2>3
<1>11. ThreadInv'
  BY <1>1, ThreadKept DEF IInv, Threads
<1>12. LoopInv'
  BY <1>2, Zenon DEF IInv, LoopInv
<1> QED
  BY <1>6, <1>7, <1>8, <1>9, <1>10, <1>11, <1>12 DEF IInv

--------------------------------------------------------------------------------
(* The acker at work *)

LEMMA AckerCountsIInv == ASSUME IInv, AckerCounts PROVE IInv'
<1>1. PICK work \in HasWork : Go("acker", "count", IF work THEN "front" ELSE "loop")
  BY DEF AckerCounts
<1>2. UNCHANGED <<m_stop_thread, mainVars, readerVars, m_queue, ackerVars>>
  BY Zenon DEF AckerCounts
<1>3. CASE ~work
  <2>1. Go("acker", "count", "loop")
    BY <1>1, <1>3, Zenon
  <2>2. m_stop_thread' \in [Threads -> BOOLEAN]
    BY <1>2, Zenon DEF IInv, TypeOK
  <2> QED
    BY <1>2, <2>1, <2>2, IdleIInv DEF Threads, Places
<1>4. CASE work
  <2>1. Go("acker", "count", "front")
    BY <1>1, <1>4, Zenon
  <2>2. /\ pc' \in [Threads \cup {"main"} -> Places]
        /\ pc["acker"] = "count" /\ pc'["acker"] = "front"
        /\ \A u \in Threads \cup {"main"} : u # "acker" => pc'[u] = pc[u]
    BY <2>1, GoMoves DEF IInv, Threads, Places
  <2>3. UNCHANGED <<m_stop_thread, m_stop_main_loop, i, m_mutex, kind, m_queue, rmsg,
                    m_tsq, handled>>
    BY <1>2, Zenon DEF mainVars, readerVars, ackerVars
  <2>4. m_queue # << >> \/ m_mutex = "reader"
    BY <1>4, Zenon DEF HasWork
  <2>5. TypeOK'
    BY <2>2, <2>3, Zenon DEF IInv, TypeOK
  <2>6. InOrder' /\ TsqInv'
    <3>1. UNCHANGED dataVars
      BY <2>3 DEF dataVars
    <3> QED
      BY <2>2, <3>1, OrderKept DEF IInv, Threads
  <2>7. FrontNeverWaits' /\ CopyInv' /\ MutexInv'
    BY <2>2, <2>3, <2>4 DEF IInv, FrontNeverWaits, CopyInv, MutexInv, Threads
  <2>8. ThreadInv'
    BY <2>2, ThreadKept DEF IInv, Threads
  <2>9. LoopInv'
    BY <2>3, Zenon DEF IInv, LoopInv
  <2> QED
    BY <2>5, <2>6, <2>7, <2>8, <2>9 DEF IInv
<1> QED
  BY <1>3, <1>4

LEMMA AckerFindsIInv == ASSUME IInv, AckerFinds PROVE IInv'
<1>1. /\ pc' \in [Threads \cup {"main"} -> Places]
      /\ pc["acker"] = "front" /\ pc'["acker"] = "copy"
      /\ \A u \in Threads \cup {"main"} : u # "acker" => pc'[u] = pc[u]
  BY GoMoves DEF IInv, AckerFinds, Threads, Places
<1>2. /\ UNCHANGED <<m_stop_thread, m_stop_main_loop, i, m_mutex, kind, m_queue, rmsg,
                     m_tsq, handled>>
      /\ m_queue # << >>
  BY Zenon DEF AckerFinds, mainVars, readerVars, ackerVars
<1>3. TypeOK'
  BY <1>1, <1>2, Zenon DEF IInv, TypeOK
<1>4. InOrder' /\ TsqInv'
  <2>1. UNCHANGED dataVars
    BY <1>2 DEF dataVars
  <2> QED
    BY <1>1, <2>1, OrderKept DEF IInv, Threads
<1>5. FrontNeverWaits' /\ CopyInv' /\ MutexInv'
  BY <1>1, <1>2 DEF IInv, FrontNeverWaits, CopyInv, MutexInv, Threads
<1>6. ThreadInv'
  BY <1>1, ThreadKept DEF IInv, Threads
<1>7. LoopInv'
  BY <1>2, Zenon DEF IInv, LoopInv
<1> QED
  BY <1>3, <1>4, <1>5, <1>6, <1>7 DEF IInv

LEMMA AckerCopiesIInv == ASSUME IInv, AckerCopies PROVE IInv'
<1>1. /\ pc' \in [Threads \cup {"main"} -> Places]
      /\ pc["acker"] = "copy" /\ pc'["acker"] = "pop"
      /\ \A u \in Threads \cup {"main"} : u # "acker" => pc'[u] = pc[u]
  BY GoMoves DEF IInv, AckerCopies, Threads, Places
<1>2. /\ UNCHANGED <<m_stop_thread, m_stop_main_loop, i, m_mutex, kind, m_queue, m_tsq,
                     handled>>
      /\ rmsg' = Head(m_queue)
  BY Zenon DEF AckerCopies, mainVars, readerVars
<1>3. m_queue # << >>
  BY <1>1 DEF IInv, FrontNeverWaits
<1>4. rmsg' \in Nat
  BY <1>2, <1>3, HeadTailProperties, TypeParts DEF IInv, DataType
<1>5. TypeOK'
  BY <1>1, <1>2, <1>4, Zenon DEF IInv, TypeOK
<1>6. InOrder' /\ TsqInv'
  <2>1. Taken' = Taken /\ Held' = Held
    BY <1>1, <1>2 DEF Taken, Held, Threads
  <2> QED
    BY <1>1, <1>2, <2>1 DEF IInv, InOrder, TsqInv
<1>7. FrontNeverWaits' /\ CopyInv' /\ MutexInv'
  BY <1>1, <1>2, <1>3 DEF IInv, FrontNeverWaits, CopyInv, MutexInv, Threads
<1>8. ThreadInv'
  BY <1>1, ThreadKept DEF IInv, Threads
<1>9. LoopInv'
  BY <1>2, Zenon DEF IInv, LoopInv
<1> QED
  BY <1>5, <1>6, <1>7, <1>8, <1>9 DEF IInv

LEMMA AckerPopsIInv == ASSUME IInv, AckerPops PROVE IInv'
<1>1. /\ pc' \in [Threads \cup {"main"} -> Places]
      /\ pc["acker"] = "pop" /\ pc'["acker"] = "validate"
      /\ \A u \in Threads \cup {"main"} : u # "acker" => pc'[u] = pc[u]
  BY GoMoves DEF IInv, AckerPops, Threads, Places
<1>2. /\ UNCHANGED <<m_stop_thread, m_stop_main_loop, i, m_mutex, kind, rmsg, m_tsq,
                     handled>>
      /\ m_queue' = Tail(m_queue)
      /\ m_mutex = "free"
  BY Zenon DEF AckerPops, mainVars, readerVars, ackerVars
<1>3. m_queue # << >> /\ rmsg = Head(m_queue)
  BY <1>1 DEF IInv, FrontNeverWaits, CopyInv
<1>4. m_queue \in Seq(Nat) /\ Len(handled) \in Nat /\ Len(kind) \in Nat
  BY LenProperties, TypeParts DEF IInv, DataType
<1>5. /\ m_queue' \in Seq(Nat)
      /\ Len(m_queue') = Len(m_queue) - 1
      /\ Len(m_queue) \in Nat \ {0}
      /\ \A k \in 1..Len(m_queue') : m_queue'[k] = m_queue[k + 1]
      /\ Head(m_queue) = m_queue[1]
  BY <1>2, <1>3, <1>4, HeadTailProperties, EmptySeq
<1>6. TypeOK'
  BY <1>1, <1>2, <1>5, Zenon DEF IInv, TypeOK
<1>7. InOrder'
  <2>1. Taken = Len(handled) /\ Taken' = Len(handled) + 1 /\ Held' = Held /\ Held \in {0, 1}
    BY <1>1, <1>2 DEF Taken, Held, Threads
  <2>2. /\ \A k \in 1..Len(m_queue) : m_queue[k] = Len(handled) + k
        /\ Len(kind) = Len(handled) + Len(m_queue) + Held
    BY <2>1 DEF IInv, InOrder
  <2>3. rmsg' = Taken'
    BY <1>2, <1>3, <1>5, <2>1, <2>2
  <2>4. \A k \in 1..Len(m_queue') : m_queue'[k] = Taken' + k
    <3> SUFFICES ASSUME NEW k \in 1..Len(m_queue') PROVE m_queue'[k] = Taken' + k
      OBVIOUS
    <3>1. k + 1 \in 1..Len(m_queue)
      BY <1>5
    <3> QED
      BY <1>4, <1>5, <2>1, <2>2, <3>1
  <2>5. Len(kind') = Taken' + Len(m_queue') + Held'
    BY <1>2, <1>4, <1>5, <2>1, <2>2
  <2> QED
    BY <1>2, <2>3, <2>4, <2>5 DEF IInv, InOrder
<1>8. TsqInv'
  BY <1>2 DEF IInv, TsqInv
<1>9. FrontNeverWaits' /\ CopyInv' /\ MutexInv'
  BY <1>1, <1>2 DEF IInv, FrontNeverWaits, CopyInv, MutexInv, Threads
<1>10. ThreadInv'
  BY <1>1, ThreadKept DEF IInv, Threads
<1>11. LoopInv'
  BY <1>2, Zenon DEF IInv, LoopInv
<1> QED
  BY <1>6, <1>7, <1>8, <1>9, <1>10, <1>11 DEF IInv

\* A number that is greater than all in an increasing sequence may be appended to it.
LEMMA AppendGreater ==
  ASSUME NEW s \in Seq(Nat), NEW n \in Nat,
         \A k \in 1..Len(s) : s[k] <= n,
         \A j, k \in 1..Len(s) : j < k => s[j] < s[k]
  PROVE  LET t == Append(s, n + 1)
         IN  /\ t \in Seq(Nat)
             /\ \A k \in 1..Len(t) : t[k] <= n + 1
             /\ \A j, k \in 1..Len(t) : j < k => t[j] < t[k]
<1> DEFINE t == Append(s, n + 1)
<1> HIDE DEF t
<1>1. /\ t \in Seq(Nat)
      /\ Len(t) = Len(s) + 1
      /\ \A k \in 1..Len(s) : t[k] = s[k]
      /\ t[Len(s) + 1] = n + 1
      /\ Len(s) \in Nat
      /\ \A k \in 1..Len(s) : s[k] \in Nat
  BY AppendProperties, LenProperties, ElementOfSeq DEF t
<1>2. \A k \in 1..Len(t) : k \in 1..Len(s) \/ k = Len(s) + 1
  BY <1>1
<1>3. ASSUME NEW k \in 1..Len(t) PROVE t[k] <= n + 1
  <2>1. CASE k \in 1..Len(s)
    <3>1. t[k] = s[k] /\ s[k] \in Nat /\ s[k] <= n
      BY <1>1, <2>1
    <3> QED
      BY <3>1
  <2>2. CASE k = Len(s) + 1
    BY <1>1, <2>2
  <2> QED
    BY <1>2, <2>1, <2>2
<1>4. ASSUME NEW j \in 1..Len(t), NEW k \in 1..Len(t), j < k PROVE t[j] < t[k]
  <2>1. j \in 1..Len(s)
    BY <1>1, <1>4
  <2>2. CASE k \in 1..Len(s)
    BY <1>1, <1>4, <2>1, <2>2
  <2>3. CASE k = Len(s) + 1
    BY <1>1, <2>1, <2>3
  <2> QED
    BY <1>2, <2>2, <2>3
<1> QED
  BY <1>1, <1>3, <1>4 DEF t

LEMMA AckerValidatesIInv == ASSUME IInv, AckerValidates PROVE IInv'
<1>1. /\ pc' \in [Threads \cup {"main"} -> Places]
      /\ pc["acker"] = "validate" /\ pc'["acker"] = "loop"
      /\ \A u \in Threads \cup {"main"} : u # "acker" => pc'[u] = pc[u]
  BY GoMoves DEF IInv, AckerValidates, Threads, Places
<1>2. /\ UNCHANGED <<m_stop_thread, m_stop_main_loop, i, m_mutex, kind, m_queue, rmsg>>
      /\ m_tsq' = m_tsq \/ m_tsq' = Append(m_tsq, rmsg)
      /\ handled' = Append(handled, rmsg)
  BY Zenon DEF AckerValidates, mainVars, readerVars
<1>3. /\ m_tsq \in Seq(Nat) /\ handled \in Seq(Nat) /\ Len(handled) \in Nat
      /\ rmsg \in Nat
  BY LenProperties, TypeParts DEF IInv, DataType
<1>4. rmsg = Len(handled) + 1 /\ Taken = Len(handled) + 1
  BY <1>1 DEF IInv, InOrder, Taken
<1>5. /\ handled' \in Seq(Nat)
      /\ Len(handled') = Len(handled) + 1
      /\ \A k \in 1..Len(handled) : handled'[k] = handled[k]
      /\ handled'[Len(handled) + 1] = rmsg
  BY <1>2, <1>3, AppendProperties
<1>6. /\ m_tsq' \in Seq(Nat)
      /\ \A k \in 1..Len(m_tsq') : m_tsq'[k] <= Len(handled) + 1
      /\ \A j, k \in 1..Len(m_tsq') : j < k => m_tsq'[j] < m_tsq'[k]
  <2>1. /\ \A k \in 1..Len(m_tsq) : m_tsq[k] <= Len(handled)
        /\ \A j, k \in 1..Len(m_tsq) : j < k => m_tsq[j] < m_tsq[k]
    BY DEF IInv, TsqInv, InOrder
  <2>2. CASE m_tsq' = m_tsq
    <3>1. \A k \in 1..Len(m_tsq) : m_tsq[k] \in Nat
      BY <1>3, ElementOfSeq
    <3>2. \A k \in 1..Len(m_tsq) : m_tsq[k] <= Len(handled) + 1
      BY <1>3, <2>1, <3>1
    <3> QED
      BY <1>3, <2>1, <2>2, <3>2
  <2>3. CASE m_tsq' = Append(m_tsq, rmsg)
    BY <1>3, <1>4, <2>1, <2>3, AppendGreater
  <2> QED
    BY <1>2, <2>2, <2>3
<1>7. TypeOK'
  BY <1>1, <1>2, <1>5, <1>6, Zenon DEF IInv, TypeOK
<1>8. InOrder'
  <2>1. Taken' = Taken /\ Held' = Held
    BY <1>1, <1>2, <1>4, <1>5 DEF Taken, Held, Threads
  <2>2. \A k \in 1..Len(handled') : handled'[k] = k
    <3>1. \A k \in 1..Len(handled) : handled[k] = k
      BY DEF IInv, InOrder
    <3>2. \A k \in 1..Len(handled') : k \in 1..Len(handled) \/ k = Len(handled) + 1
      BY <1>3, <1>5
    <3> QED
      BY <1>4, <1>5, <3>1, <3>2
  <2>3. pc'["acker"] # "validate"
    BY <1>1
  <2> QED
    BY <1>2, <1>6, <2>1, <2>2, <2>3 DEF IInv, InOrder
<1>9. TsqInv'
  <2>1. \A k \in 1..Len(m_tsq') : m_tsq'[k] <= Len(handled')
    BY <1>5, <1>6, Zenon
  <2> QED
    BY <2>1, Zenon DEF TsqInv
<1>10. FrontNeverWaits' /\ CopyInv' /\ MutexInv'
  BY <1>1, <1>2 DEF IInv, FrontNeverWaits, CopyInv, MutexInv, Threads
<1>11. ThreadInv'
  BY <1>1, ThreadKept DEF IInv, Threads
<1>12. LoopInv'
  BY <1>2, Zenon DEF IInv, LoopInv
<1> QED
  BY <1>7, <1>8, <1>9, <1>10, <1>11, <1>12 DEF IInv

LEMMA AckerCrashesIInv == ASSUME IInv, AckerCrashes PROVE IInv'
<1>1. /\ pc' \in [Threads \cup {"main"} -> Places]
      /\ pc'["main"] = "crashed"
      /\ \A u \in Threads : pc'[u] = pc[u]
  BY DEF IInv, TypeOK, AckerCrashes, Threads, Places
<1>2. UNCHANGED <<m_stop_thread, m_stop_main_loop, i, m_mutex, kind, m_queue, rmsg, m_tsq,
                  handled>>
  BY Zenon DEF AckerCrashes, mainVars, readerVars, ackerVars
<1>3. TypeOK'
  BY <1>1, <1>2, Zenon DEF IInv, TypeOK
<1>4. InOrder' /\ TsqInv'
  <2>1. UNCHANGED dataVars
    BY <1>2 DEF dataVars
  <2> QED
    BY <1>1, <2>1, OrderKept DEF IInv, Threads
<1>5. FrontNeverWaits' /\ CopyInv' /\ MutexInv'
  BY <1>1, <1>2 DEF IInv, FrontNeverWaits, CopyInv, MutexInv, Threads
<1>6. ThreadInv'
  BY <1>1 DEF ThreadInv
<1>7. LoopInv'
  BY <1>2, Zenon DEF IInv, LoopInv
<1> QED
  BY <1>3, <1>4, <1>5, <1>6, <1>7 DEF IInv

--------------------------------------------------------------------------------
(* The main thread *)

\* A step of main that moves no thread from or to a place where it has a datagram.
LEMMA MainMovesIInv ==
  ASSUME IInv, pc' \in [Threads \cup {"main"} -> Places],
         \A u \in Threads :
             \/ pc'[u] = pc[u]
             \/ pc[u] = "new" /\ pc'[u] \in {"bind", "loop"},
         UNCHANGED <<readerVars, m_queue, ackerVars>>,
         m_stop_thread' \in [Threads -> BOOLEAN],
         UNCHANGED mainVars,
         ThreadInv'
  PROVE  IInv'
<1>1. UNCHANGED <<m_stop_main_loop, i, m_mutex, kind, m_queue, rmsg, m_tsq, handled>>
  BY Zenon DEF mainVars, readerVars, ackerVars
<1>2. \A u \in Threads, s \in {"push", "pushing", "front", "copy", "pop", "validate"} :
          pc'[u] = s <=> pc[u] = s
  OBVIOUS
<1>3. TypeOK'
  BY <1>1, Zenon DEF IInv, TypeOK
<1>4. InOrder' /\ TsqInv'
  <2>1. UNCHANGED dataVars
    BY <1>1 DEF dataVars
  <2> QED
    BY <1>2, <2>1, OrderKept DEF IInv, Threads
<1>5. FrontNeverWaits' /\ CopyInv' /\ MutexInv'
  BY <1>1, <1>2 DEF IInv, FrontNeverWaits, CopyInv, MutexInv, Threads
<1>6. LoopInv'
  BY <1>1, Zenon DEF IInv, LoopInv
<1> QED
  BY <1>3, <1>4, <1>5, <1>6 DEF IInv

\* main starts the threads, one after the other.
LEMMA MainRunsIInv ==
  ASSUME IInv,
         \/ MainRuns("writer", "run writer", "run reader", "loop")
         \/ MainRuns("reader", "run reader", "run acker", "bind")
         \/ MainRuns("acker", "run acker", "loop", "loop")
  PROVE  IInv'
<1>1. UNCHANGED <<readerVars, m_queue, ackerVars>> /\ UNCHANGED mainVars
  BY Zenon DEF MainRuns
<1>2. m_stop_thread' \in [Threads -> BOOLEAN]
  BY Zenon DEF MainRuns, IInv, TypeOK
<1>3. pc \in [Threads \cup {"main"} -> Places] /\ ThreadInv
  BY Zenon DEF IInv, TypeOK
<1>4. CASE MainRuns("writer", "run writer", "run reader", "loop")
  <2>1. /\ pc["main"] = "run writer"
        /\ pc' = [pc EXCEPT !["main"] = "run reader", !["writer"] = "loop"]
    BY <1>4, Zenon DEF MainRuns
  <2>2. pc["writer"] = "new"
    BY <1>3, <2>1 DEF ThreadInv
  <2>3. ThreadInv' /\ pc' \in [Threads \cup {"main"} -> Places]
    BY <1>3, <2>1 DEF ThreadInv, Threads, Places
  <2> QED
    BY <1>1, <1>2, <1>3, <2>1, <2>2, <2>3, MainMovesIInv DEF Threads
<1>5. CASE MainRuns("reader", "run reader", "run acker", "bind")
  <2>1. /\ pc["main"] = "run reader"
        /\ pc' = [pc EXCEPT !["main"] = "run acker", !["reader"] = "bind"]
    BY <1>5, Zenon DEF MainRuns
  <2>2. pc["reader"] = "new"
    BY <1>3, <2>1 DEF ThreadInv
  <2>3. ThreadInv' /\ pc' \in [Threads \cup {"main"} -> Places]
    BY <1>3, <2>1 DEF ThreadInv, Threads, Places
  <2> QED
    BY <1>1, <1>2, <1>3, <2>1, <2>2, <2>3, MainMovesIInv DEF Threads
<1>6. CASE MainRuns("acker", "run acker", "loop", "loop")
  <2>1. /\ pc["main"] = "run acker"
        /\ pc' = [pc EXCEPT !["main"] = "loop", !["acker"] = "loop"]
    BY <1>6, Zenon DEF MainRuns
  <2>2. pc["acker"] = "new"
    BY <1>3, <2>1 DEF ThreadInv
  <2>3. ThreadInv' /\ pc' \in [Threads \cup {"main"} -> Places]
    BY <1>3, <2>1 DEF ThreadInv, Threads, Places
  <2> QED
    BY <1>1, <1>2, <1>3, <2>1, <2>2, <2>3, MainMovesIInv DEF Threads
<1> QED
  BY <1>4, <1>5, <1>6

\* main goes on to stop or to join another thread.
LEMMA MainGoesIInv ==
  ASSUME IInv, NEW from, NEW to \in Places, Go("main", from, to),
         UNCHANGED <<readerVars, m_queue, ackerVars>>, UNCHANGED mainVars,
         m_stop_thread' \in [Threads -> BOOLEAN],
         to \notin {"run writer", "run reader", "run acker"},
         to \in {"join writer", "join acker", "done"}
             => pc["reader"] = "ended" \/ from \in {"join writer", "join acker"},
         to \in {"join acker", "done"} => pc["writer"] = "ended" \/ from = "join acker",
         to = "done" => pc["acker"] = "ended"
  PROVE  IInv'
<1>1. /\ pc' \in [Threads \cup {"main"} -> Places]
      /\ pc["main"] = from /\ pc'["main"] = to
      /\ \A u \in Threads : pc'[u] = pc[u]
  BY GoMoves DEF IInv, Threads
<1>2. ThreadInv'
  BY <1>1 DEF IInv, ThreadInv, Threads
<1> QED
  BY <1>1, <1>2, MainMovesIInv

LEMMA MainStopsIInv ==
  ASSUME IInv, NEW t \in Threads, NEW here, NEW next \in {"stop writer", "stop acker", "join reader"},
         MainStops(t, here, next)
  PROVE  IInv'
<1>1. Go("main", here, next) /\ UNCHANGED <<readerVars, m_queue, ackerVars>>
      /\ UNCHANGED mainVars
  BY Zenon DEF MainStops
<1>2. m_stop_thread' \in [Threads -> BOOLEAN]
  BY Zenon DEF MainStops, IInv, TypeOK
<1> QED
  BY <1>1, <1>2, MainGoesIInv DEF Places

LEMMA MainJoinsIInv ==
  ASSUME IInv,
         \/ MainJoins("reader", "join reader", "join writer")
         \/ MainJoins("writer", "join writer", "join acker")
         \/ MainJoins("acker", "join acker", "done")
  PROVE  IInv'
<1>1. UNCHANGED <<readerVars, m_queue, ackerVars>> /\ UNCHANGED mainVars
  BY Zenon DEF MainJoins
<1>2. m_stop_thread' \in [Threads -> BOOLEAN]
  BY Zenon DEF MainJoins, IInv, TypeOK
<1>3. \/ Go("main", "join reader", "join writer") /\ pc["reader"] = "ended"
      \/ Go("main", "join writer", "join acker") /\ pc["writer"] = "ended"
      \/ Go("main", "join acker", "done") /\ pc["acker"] = "ended"
  BY Zenon DEF MainJoins
<1> QED
  BY <1>1, <1>2, <1>3, MainGoesIInv DEF Places

LEMMA MainLoopIInv == ASSUME IInv, MainLoop PROVE IInv'
<1>1. pc["main"] = "loop" /\ UNCHANGED <<readerVars, m_queue, ackerVars>> /\ UNCHANGED m_stop_thread
  BY Zenon DEF MainLoop
<1>2. m_stop_thread' \in [Threads -> BOOLEAN]
  BY <1>1, Zenon DEF IInv, TypeOK
<1>3. CASE m_stop_main_loop
  <2>1. Go("main", "loop", "stop reader") /\ UNCHANGED mainVars
    BY <1>1, <1>3 DEF MainLoop, Go, Running
  <2> QED
    BY <1>1, <1>2, <2>1, MainGoesIInv DEF Places
<1>4. CASE ~m_stop_main_loop
  <2>1. /\ m_stop_main_loop' = (i < 1)
        /\ i' = i - 1
        /\ pc' = pc
    BY <1>4, Zenon DEF MainLoop
  <2>2. i \in 0..MainTurns
    <3>1. i \in -1..MainTurns
      BY TypeParts DEF IInv
    <3>2. i >= 0
      BY <1>4, Zenon DEF IInv, LoopInv
    <3> QED
      BY <3>1, <3>2, PipelineAssumption
  <2>3. i' \in -1..MainTurns /\ (i < 1 \/ i' >= 0)
    BY <2>1, <2>2, PipelineAssumption
  <2>4. m_stop_main_loop' \in BOOLEAN /\ LoopInv'
    <3>1. m_stop_main_loop' \in BOOLEAN
      BY <2>1
    <3>2. ~m_stop_main_loop' => ~(i < 1)
      BY <2>1, Zenon
    <3>3. LoopInv'
      BY <2>3, <3>2, Zenon DEF LoopInv
    <3> QED
      BY <3>1, <3>3
  <2>5. UNCHANGED <<m_mutex, kind, m_queue, rmsg, m_tsq, handled>>
    BY <1>1, Zenon DEF readerVars, ackerVars
  <2>6. TypeOK'
    BY <1>2, <2>1, <2>3, <2>4, <2>5, Zenon DEF IInv, TypeOK
  <2>7. InOrder' /\ TsqInv'
    <3>1. UNCHANGED dataVars
      BY <2>5 DEF dataVars
    <3> QED
      BY <2>1, <3>1, OrderKept DEF IInv
  <2>8. FrontNeverWaits' /\ CopyInv' /\ MutexInv' /\ ThreadInv'
    BY <2>1, <2>5 DEF IInv, FrontNeverWaits, CopyInv, MutexInv, ThreadInv
  <2> QED
    BY <2>4, <2>6, <2>7, <2>8 DEF IInv
<1> QED
  BY <1>3, <1>4

--------------------------------------------------------------------------------

LEMMA NextIInv == IInv /\ [Next]_vars => IInv'
<1> SUFFICES ASSUME IInv, [Next]_vars PROVE IInv'
  OBVIOUS
<1>1. CASE Main
  <2>1. CASE MainLoop
    BY <2>1, MainLoopIInv
  <2>2. CASE \/ MainStops("reader", "stop reader", "stop writer")
             \/ MainStops("writer", "stop writer", "stop acker")
             \/ MainStops("acker", "stop acker", "join reader")
    BY <2>2, MainStopsIInv DEF Threads
  <2> QED
    BY <1>1, <2>1, <2>2, MainRunsIInv, MainJoinsIInv, Zenon DEF Main
<1>2. CASE Reader
  <2>1. CASE ChecksStop("reader", "recvfrom")
    BY <2>1, ChecksStopIInv DEF Threads
  <2> QED
    BY <1>2, <2>1, ReaderIdleIInv, ReaderReceivesIInv, ReaderLocksIInv, ReaderPushesIInv, Zenon
    DEF Reader
<1>3. CASE Acker
  <2>1. CASE ChecksStop("acker", "count")
    BY <2>1, ChecksStopIInv DEF Threads
  <2> QED
    BY <1>3, <2>1, AckerCountsIInv, AckerFindsIInv, AckerCopiesIInv, AckerPopsIInv,
       AckerValidatesIInv, AckerCrashesIInv, Zenon DEF Acker
<1>4. CASE Writer
  BY <1>4, WriterIInv
<1>5. CASE UNCHANGED vars
  <2>1. UNCHANGED <<pc, m_stop_thread, m_stop_main_loop, i, m_mutex, kind, m_queue, rmsg,
                    m_tsq, handled>>
    BY <1>5, Zenon DEF vars, mainVars, readerVars, ackerVars
  <2>2. TypeOK' /\ LoopInv'
    BY <2>1, Zenon DEF IInv, TypeOK, LoopInv
  <2>3. InOrder' /\ TsqInv'
    BY <2>1, OrderKept DEF IInv, dataVars
  <2>4. FrontNeverWaits' /\ CopyInv' /\ MutexInv' /\ ThreadInv'
    BY <2>1 DEF IInv, FrontNeverWaits, CopyInv, MutexInv, ThreadInv
  <2> QED
    BY <2>2, <2>3, <2>4 DEF IInv
<1> QED
  BY <1>1, <1>2, <1>3, <1>4, <1>5 DEF Next, Ended

LEMMA PipelineSafe == Spec => []IInv
  BY InitIInv, NextIInv, PTL DEF Spec

\* No datagram is lost, doubled or overtaken between the socket and the acker's
\* queue, for any traffic: push, front and pop of SmqThreadSafeQueue, each in a
\* critical section of its own, hand over what was received.
THEOREM DatagramsInOrder == Spec => []InOrder
<1>1. IInv => InOrder
  BY DEF IInv
<1> QED
  BY <1>1, PipelineSafe, PTL

\* The acker calls front() and pop() only when there is a datagram, or one is just
\* being pushed, so it cannot be caught waiting when run() wants to join it.
THEOREM AckerNeverWaits == Spec => []FrontNeverWaits
<1>1. IInv => FrontNeverWaits
  BY DEF IInv
<1> QED
  BY <1>1, PipelineSafe, PTL

\* When run() has come to its end, its threads have.
THEOREM ThreadsEndFirst == Spec => []ReleasedLast
<1>1. IInv => ReleasedLast
  BY DEF IInv, ThreadInv, ReleasedLast, Threads
<1> QED
  BY <1>1, PipelineSafe, PTL

\* The type invariant: the queues hold no more than was received, and the threads are
\* where their code can be.
THEOREM PipelineTyped == Spec => []TypeOK
<1>1. IInv => TypeOK
  BY DEF IInv
<1> QED
  BY <1>1, PipelineSafe, PTL

--------------------------------------------------------------------------------
(* The sockets *)

\* There is one socket for a family: an address fits one of them, or none.
SocketsInv ==
    /\ DOMAIN sockets \subseteq Nat
    /\ \A x \in DOMAIN sockets :
           sockets[x] \in [family : Families, revents : SUBSET {"POLLIN"}]
    /\ \A x, y \in DOMAIN sockets : sockets[x].family = sockets[y].family => x = y

\* A set of places that is not empty has a first.
LEMMA FirstPlace ==
  ASSUME NEW T, T \subseteq Nat, T # {}
  PROVE  \E n \in T : \A y \in T : n <= y
<1>1. PICK x \in T : \A y \in T : <<y, x>> \notin OpToRel(<, Nat)
  BY WFMin, NatLessThanWellFounded, Zenon
<1>2. \A y \in T : y \in Nat /\ x \in Nat /\ ~ (y < x)
  BY <1>1, Zenon DEF OpToRel
<1>3. \A y \in T : x <= y
  BY <1>2
<1>. QED  BY <1>3

LEMMA AddressPlaces ==
  /\ DOMAIN Passive \subseteq Nat /\ Len(Passive) \in Nat
  /\ \A host \in Hosts : DOMAIN host \subseteq Nat
BY NetworkAssumption, LenProperties

LEMMA ListenSockets ==
  ASSUME ListenOnPort
  PROVE  SocketsInv'
<1>. PICK n \in 0..Len(Passive) : \E opened \in [1..n -> DOMAIN Passive] :
          /\ \A k, l \in 1..n : k < l => opened[k] < opened[l]
          /\ sockets' = [k \in 1..n |-> Added(Passive[opened[k]])]
  BY DEF ListenOnPort
<1>1. PICK opened \in [1..n -> DOMAIN Passive] :
          /\ \A k, l \in 1..n : k < l => opened[k] < opened[l]
          /\ sockets' = [k \in 1..n |-> Added(Passive[opened[k]])]
  OBVIOUS
<1>2. DOMAIN sockets' = 1..n /\ 1..n \subseteq Nat
  BY <1>1, AddressPlaces
<1>3. ASSUME NEW k \in 1..n
      PROVE  /\ sockets'[k].family = Passive[opened[k]]
             /\ sockets'[k] \in [family : Families, revents : SUBSET {"POLLIN"}]
  <2>1. opened[k] \in DOMAIN Passive /\ Passive[opened[k]] \in Families
    BY <1>1 DEF Families
  <2>2. \A f \in Families : /\ Added(f).family = f
                            /\ Added(f) \in [family : Families, revents : SUBSET {"POLLIN"}]
    BY DEF Added
  <2>3. sockets'[k] = Added(Passive[opened[k]])
    BY <1>1
  <2>. QED  BY <2>1, <2>2, <2>3
<1>4. ASSUME NEW k \in 1..n, NEW l \in 1..n, sockets'[k].family = sockets'[l].family
      PROVE  k = l
  <2>1. opened[k] = opened[l]
    <3>1. Passive[opened[k]] = Passive[opened[l]]
      BY <1>3, <1>4
    <3>2. opened[k] \in DOMAIN Passive /\ opened[l] \in DOMAIN Passive
      BY <1>1
    <3>. QED  BY <3>1, <3>2, NetworkAssumption
  <2>2. ~(k < l) /\ ~(l < k)
    <3>. SUFFICES ASSUME k < l \/ l < k PROVE FALSE
      OBVIOUS
    <3>1. opened[k] < opened[l] \/ opened[l] < opened[k]
      BY <1>1
    <3>2. opened[k] \in Nat /\ opened[l] \in Nat
      BY <1>1, AddressPlaces
    <3>. QED  BY <2>1, <3>1, <3>2
  <2>. QED  BY <1>2, <2>2
<1>. QED  BY <1>2, <1>3, <1>4 DEF SocketsInv

LEMMA PollSocketsInv ==
  ASSUME SocketsInv, PollSockets
  PROVE  SocketsInv'
<1>1. DOMAIN sockets' = DOMAIN sockets
      /\ \A k \in DOMAIN sockets : sockets'[k] = MapSelectResults(sockets[k])
  BY DEF PollSockets
<1>2. \A k \in DOMAIN sockets :
          /\ sockets'[k] \in [family : Families, revents : SUBSET {"POLLIN"}]
          /\ sockets'[k].family = sockets[k].family
  BY <1>1 DEF MapSelectResults, SocketsInv
<1>. QED  BY <1>1, <1>2 DEF SocketsInv

\* The delivery to a host where these calls of sendto fail.
Delivers(host, fails) ==
    LET working == {a \in DOMAIN host : Works(host, fails, a)}
        tried == {a \in DOMAIN host : \A w \in working : a <= w}
    IN  sent' = [told   |-> working # {},
                 copies |-> Cardinality({way \in tried \X (DOMAIN sockets) :
                                            way[2] \in Over(host, fails, way[1])})]

\* The addresses that are tried, up to the first that works, make one copy, or none.
LEMMA OneCopy ==
  ASSUME SocketsInv, DeliverMsgDatagram
  PROVE  SentOnceOrTold'
<1>. PICK host \in Hosts :
         \E fails \in SUBSET ((DOMAIN host) \X (DOMAIN sockets)) : Delivers(host, fails)
  BY DEF DeliverMsgDatagram, Delivers
<1>1. PICK fails \in SUBSET ((DOMAIN host) \X (DOMAIN sockets)) : Delivers(host, fails)
  OBVIOUS
<1>. DEFINE working == {a \in DOMAIN host : Works(host, fails, a)}
            tried == {a \in DOMAIN host : \A w \in working : a <= w}
            copies == {way \in tried \X (DOMAIN sockets) : way[2] \in Over(host, fails, way[1])}
<1>2. sent'.told = (working # {}) /\ sent'.copies = Cardinality(copies)
  BY <1>1 DEF Delivers
<1>3. DOMAIN host \subseteq Nat
  BY AddressPlaces
<1>4. ASSUME NEW a \in DOMAIN host, NEW j \in Over(host, fails, a)
      PROVE  /\ j \in DOMAIN sockets /\ Works(host, fails, a)
             /\ Over(host, fails, a) = {j}
  <2>1. j \in Fitting(host, a) /\ j \in DOMAIN sockets
        /\ \A k \in Failing(host, fails, a) : j < k
    BY DEF Over, Fitting
  <2>2. Fitting(host, a) = {j}
    BY <2>1 DEF Fitting, SocketsInv
  <2>3. Failing(host, fails, a) \subseteq {j} /\ Over(host, fails, a) \subseteq {j}
    BY <2>2 DEF Failing, Over
  <2>4. ~ (j < j)
    BY <2>1 DEF SocketsInv
  <2>5. Failing(host, fails, a) = {}
    BY <2>1, <2>3, <2>4
  <2>. QED  BY <2>1, <2>2, <2>3, <2>5 DEF Works
<1>5. ASSUME NEW a \in DOMAIN host, Works(host, fails, a)
      PROVE  Over(host, fails, a) # {}
  BY <1>5 DEF Works, Over
<1>6. CASE working = {}
  <2>1. copies = {}
    BY <1>4, <1>6
  <2>. QED  BY <1>2, <1>6, <2>1, FS_EmptySet DEF SentOnceOrTold
<1>7. CASE working # {}
  <2>1. PICK w \in working : \A v \in working : w <= v
    BY <1>3, <1>7, FirstPlace
  <2>2. PICK j \in DOMAIN sockets : Over(host, fails, w) = {j}
    BY <1>4, <1>5, <2>1
  <2>3. w \in tried
    BY <2>1
  <2>4. \A a \in tried : a \in working => a = w
    BY <1>3, <2>1
  <2>5. copies = {<<w, j>>}
    BY <1>4, <2>2, <2>3, <2>4
  <2>. QED  BY <1>2, <1>7, <2>5, FS_Singleton DEF SentOnceOrTold
<1>. QED  BY <1>6, <1>7

\* deliver_msg_datagram tells the truth: it sent the message once, or not at all.
THEOREM SendsOnceOrTells == NetSpec => []SentOnceOrTold
<1>. DEFINE Inv == SocketsInv /\ SentOnceOrTold
<1>1. NetInit => Inv
  BY EmptySeq DEF NetInit, SocketsInv, SentOnceOrTold
<1>2. Inv /\ [NetNext]_netVars => Inv'
  <2>. SUFFICES ASSUME Inv, [NetNext]_netVars PROVE Inv'
    OBVIOUS
  <2>1. ASSUME UNCHANGED <<sockets, sent>> PROVE Inv'
    BY <2>1 DEF SocketsInv, SentOnceOrTold
  <2>2. CASE ListenOnPort
    BY <2>2, ListenSockets DEF ListenOnPort, SentOnceOrTold
  <2>3. CASE PollSockets
    BY <2>3, PollSocketsInv DEF PollSockets, SentOnceOrTold
  <2>4. CASE DeliverMsgDatagram
    BY <2>4, OneCopy DEF DeliverMsgDatagram, SocketsInv
  <2>5. CASE ReadFirst \/ Arrives \/ Discarded \/ UNCHANGED netVars
    BY <2>1, <2>5 DEF ReadFirst, Arrives, Discarded, netVars
  <2>. QED  BY <2>2, <2>3, <2>4, <2>5 DEF NetNext
<1>3. Inv => SentOnceOrTold
  OBVIOUS
<1>. QED  BY <1>1, <1>2, <1>3, PTL DEF NetSpec

================================================================================
