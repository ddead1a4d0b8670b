----------------------------- MODULE SmqPipeline -----------------------------
(***************************************************************************)
(* The threads of smqueue: SmqManager::run starts a writer, a reader and   *)
(* an acker, lets them work for a while, stops them and joins them.  The   *)
(* reader hands the datagrams of the socket to the acker through an        *)
(* SmqThreadSafeQueue; the acker validates each and keeps it in a queue    *)
(* of its own.                                                             *)
(*                                                                         *)
(* A step is what a thread does between two points at which another can    *)
(* interfere: reading a stop flag, a system call, a critical section of    *)
(* the queue, and copying the front element, which is done after front()   *)
(* has given the mutex back.  count() reads the deque without the mutex:   *)
(* while a push is under way it may return anything.                       *)
(*                                                                         *)
(* Nothing in the program pushes to the writer's queue or takes from the   *)
(* acker's, so the writer has nothing to send.                             *)
(***************************************************************************)
EXTENDS Integers, Sequences

CONSTANTS
    MaxReceived,   \* bound: datagrams the socket ever yields
    MainTurns,     \* the turns of the main loop; 150 in the code
    Kinds          \* the datagrams that come in; see AllKinds

\* What validate_msg finds: all is well; a check other than the last fails; there
\* is no tag to be made; the SIP library cannot parse it.
AllKinds == {"good", "rejected", "untagged", "unparsable"}

ASSUME PipelineAssumption ==
    /\ MaxReceived \in Nat
    /\ MainTurns \in Nat
    /\ Kinds \subseteq AllKinds

Threads == {"writer", "reader", "acker"}

VARIABLES
    pc,               \* where each thread is, and "main"
    m_stop_thread,    \* per thread
    m_stop_main_loop,
    i,                \* turns the main loop has left
    kind,             \* what datagram n is, in the order of their arrival
    m_queue,          \* the reader's queue of raw messages
    m_mutex,          \* "free", or "reader" while a push is under way
    rmsg,             \* the acker's copy of the front of m_queue
    m_tsq,            \* the acker's queue of validated messages
    handled           \* history: the datagrams the acker is done with

mainVars == <<m_stop_main_loop, i>>
readerVars == <<kind, m_mutex>>
ackerVars == <<rmsg, m_tsq, handled>>
vars == <<pc, m_stop_thread, mainVars, readerVars, m_queue, ackerVars>>

Init ==
    /\ pc = [t \in Threads \cup {"main"} |-> IF t = "main" THEN "run writer" ELSE "new"]
    /\ m_stop_thread = [t \in Threads |-> FALSE]
    /\ m_stop_main_loop = FALSE
    /\ i = MainTurns
    /\ kind = << >>
    /\ m_queue = << >>
    /\ m_mutex = "free"
    /\ rmsg = 0
    /\ m_tsq = << >>
    /\ handled = << >>

Running == pc["main"] # "crashed"

Go(t, from, to) ==
    /\ Running
    /\ pc[t] = from
    /\ pc' = [pc EXCEPT ![t] = to]

\* while(!m_stop_thread)
ChecksStop(t, next) ==
    /\ Go(t, "loop", IF m_stop_thread[t] THEN "ended" ELSE next)
    /\ UNCHANGED <<m_stop_thread, mainVars, readerVars, m_queue, ackerVars>>

--------------------------------------------------------------------------------
(* SmqManager::run *)

\* The thread t is started; thread is where it begins.
MainRuns(t, here, next, thread) ==
    /\ pc["main"] = here
    /\ pc' = [pc EXCEPT !["main"] = next, ![t] = thread]
    /\ UNCHANGED <<m_stop_thread, mainVars, readerVars, m_queue, ackerVars>>

MainLoop ==
    /\ pc["main"] = "loop"
    /\ IF m_stop_main_loop
       THEN pc' = [pc EXCEPT !["main"] = "stop reader"] /\ UNCHANGED mainVars
       ELSE /\ m_stop_main_loop' = (i < 1)
            /\ i' = i - 1
            /\ UNCHANGED pc
    /\ UNCHANGED <<m_stop_thread, readerVars, m_queue, ackerVars>>

MainStops(t, here, next) ==
    /\ Go("main", here, next)
    /\ m_stop_thread' = [m_stop_thread EXCEPT ![t] = TRUE]
    /\ UNCHANGED <<mainVars, readerVars, m_queue, ackerVars>>

MainJoins(t, here, next) ==
    /\ Go("main", here, next)
    /\ pc[t] = "ended"
    /\ UNCHANGED <<m_stop_thread, mainVars, readerVars, m_queue, ackerVars>>

Main ==
    \/ MainRuns("writer", "run writer", "run reader", "loop")
    \/ MainRuns("reader", "run reader", "run acker", "bind")
    \/ MainRuns("acker", "run acker", "loop", "loop")
    \/ MainLoop
    \/ MainStops("reader", "stop reader", "stop writer")
    \/ MainStops("writer", "stop writer", "stop acker")
    \/ MainStops("acker", "stop acker", "join reader")
    \/ MainJoins("reader", "join reader", "join writer")
    \/ MainJoins("writer", "join writer", "join acker")
    \/ MainJoins("acker", "join acker", "done")

--------------------------------------------------------------------------------
(* SmqReader::thread *)

ReaderBinds ==
    /\ \E next \in {"loop", "ended"} : Go("reader", "bind", next)
    /\ UNCHANGED <<m_stop_thread, mainVars, readerVars, m_queue, ackerVars>>

ReaderReceives ==
    /\ Go("reader", "recvfrom", "push")
    /\ Len(kind) < MaxReceived
    /\ \E k \in Kinds : kind' = Append(kind, k)
    /\ UNCHANGED <<m_stop_thread, mainVars, m_queue, m_mutex, ackerVars>>

\* EWOULDBLOCK: a sleep.
ReaderSleeps ==
    /\ Go("reader", "recvfrom", "loop")
    /\ UNCHANGED <<m_stop_thread, mainVars, readerVars, m_queue, ackerVars>>

\* Any other error ends the thread.
ReaderFails ==
    /\ Go("reader", "recvfrom", "loop")
    /\ m_stop_thread' = [m_stop_thread EXCEPT !["reader"] = TRUE]
    /\ UNCHANGED <<mainVars, readerVars, m_queue, ackerVars>>

\* push takes the mutex ...
ReaderLocks ==
    /\ Go("reader", "push", "pushing")
    /\ m_mutex = "free"
    /\ m_mutex' = "reader"
    /\ UNCHANGED <<m_stop_thread, mainVars, kind, m_queue, ackerVars>>

\* A faulty push, to the wrong end.
PushInFront ==
    /\ Go("reader", "pushing", "loop")
    /\ m_queue' = <<Len(kind)>> \o m_queue
    /\ m_mutex' = "free"
    /\ UNCHANGED <<m_stop_thread, mainVars, kind, ackerVars>>

\* ... and returns it, the datagram received last being in the queue.
ReaderPushes ==
    /\ Go("reader", "pushing", "loop")
    /\ m_queue' = Append(m_queue, Len(kind))
    /\ m_mutex' = "free"
    /\ UNCHANGED <<m_stop_thread, mainVars, kind, ackerVars>>

Reader ==
    \/ ReaderBinds \/ ChecksStop("reader", "recvfrom")
    \/ ReaderReceives \/ ReaderSleeps \/ ReaderFails
    \/ ReaderLocks \/ ReaderPushes

--------------------------------------------------------------------------------
(* SmqAcker::thread and process_message *)

\* A faulty test for work, which leaves the last datagram in the queue.
MoreThanOne ==
    IF m_mutex = "reader" THEN BOOLEAN ELSE {Len(m_queue) > 1}

\* What queue_count() != 0 may evaluate to.
HasWork ==
    IF m_mutex = "reader" THEN BOOLEAN ELSE {m_queue # << >>}

\* A faulty loop, which relies on front() to wait for a datagram.
AckerAlwaysTakes ==
    /\ Go("acker", "count", "front")
    /\ UNCHANGED <<m_stop_thread, mainVars, readerVars, m_queue, ackerVars>>

AckerCounts ==
    /\ \E work \in HasWork : Go("acker", "count", IF work THEN "front" ELSE "loop")
    /\ UNCHANGED <<m_stop_thread, mainVars, readerVars, m_queue, ackerVars>>

\* front(): with the mutex, wait until there is one; a reference is returned ...
AckerFinds ==
    /\ Go("acker", "front", "copy")
    /\ m_mutex = "free"
    /\ m_queue # << >>
    /\ UNCHANGED <<m_stop_thread, mainVars, readerVars, m_queue, ackerVars>>

\* ... through which queue_front() copies, without the mutex.
AckerCopies ==
    /\ Go("acker", "copy", "pop")
    /\ rmsg' = Head(m_queue)
    /\ UNCHANGED <<m_stop_thread, mainVars, readerVars, m_queue, m_tsq, handled>>

AckerPops ==
    /\ Go("acker", "pop", "validate")
    /\ m_mutex = "free"
    /\ m_queue' = Tail(m_queue)
    /\ UNCHANGED <<m_stop_thread, mainVars, readerVars, ackerVars>>

\* validate_msg returns what set_qtag says, whatever the checks before it found.
Validated(k) == k # "untagged"

AckerValidates ==
    /\ Go("acker", "validate", "loop")
    /\ kind[rmsg] # "unparsable"
    /\ m_tsq' = IF Validated(kind[rmsg]) THEN Append(m_tsq, rmsg) ELSE m_tsq
    /\ handled' = Append(handled, rmsg)
    /\ UNCHANGED <<m_stop_thread, mainVars, readerVars, m_queue, rmsg>>

\* validate_msg goes on after parse() has failed, and dereferences a null pointer.
AckerCrashes ==
    /\ Running
    /\ pc["acker"] = "validate"
    /\ kind[rmsg] = "unparsable"
    /\ pc' = [pc EXCEPT !["main"] = "crashed"]
    /\ UNCHANGED <<m_stop_thread, mainVars, readerVars, m_queue, ackerVars>>

Acker ==
    \/ ChecksStop("acker", "count") \/ AckerCounts \/ AckerFinds
    \/ AckerCopies \/ AckerPops \/ AckerValidates \/ AckerCrashes

--------------------------------------------------------------------------------
(* SmqWriter::thread; its queue is empty *)

WriterSleeps ==
    /\ Go("writer", "count", "loop")
    /\ UNCHANGED <<m_stop_thread, mainVars, readerVars, m_queue, ackerVars>>

Writer == ChecksStop("writer", "count") \/ WriterSleeps

--------------------------------------------------------------------------------

\* The program has ended.
Ended == pc["main"] \in {"done", "crashed"} /\ UNCHANGED vars

Next == Main \/ Reader \/ Acker \/ Writer \/ Ended

Spec == Init /\ [][Next]_vars

\* The operating system runs every thread that can run.  The main loop sleeps, for as
\* long as the others may need: nothing is assumed of when it ends.
FairSpec ==
    /\ Spec
    /\ WF_vars(Reader) /\ WF_vars(Acker) /\ WF_vars(Writer)
    /\ WF_vars(pc["main"] # "loop" /\ Main)

--------------------------------------------------------------------------------
(* Properties *)

Places ==
    {"new", "loop", "ended", "bind", "recvfrom", "push", "pushing",
     "count", "front", "copy", "pop", "validate",
     "run writer", "run reader", "run acker", "stop reader", "stop writer", "stop acker",
     "join reader", "join writer", "join acker", "done", "crashed"}

TypeOK ==
    /\ pc \in [Threads \cup {"main"} -> Places]
    /\ m_stop_thread \in [Threads -> BOOLEAN]
    /\ m_stop_main_loop \in BOOLEAN
    /\ i \in -1..MainTurns
    /\ kind \in Seq(AllKinds)
    /\ m_queue \in Seq(Nat)
    /\ m_mutex \in {"free", "reader"}
    /\ rmsg \in Nat
    /\ m_tsq \in Seq(Nat)
    /\ handled \in Seq(Nat)

\* How many datagrams have left the reader's queue, and the one in its hands.
Taken == IF pc["acker"] = "validate" THEN Len(handled) + 1 ELSE Len(handled)
Held == IF pc["reader"] \in {"push", "pushing"} THEN 1 ELSE 0

\* Between the socket and the acker no datagram is lost, doubled or overtaken,
\* although the front is looked at, copied and popped in separate critical
\* sections: the datagrams handled, the one in the acker's hands, those queued and
\* the one in the reader's hands are those received, in the order of their arrival;
\* and the acker queues none twice.
InOrder ==
    /\ \A k \in 1..Len(handled) : handled[k] = k
    /\ pc["acker"] = "validate" => rmsg = Taken
    /\ \A k \in 1..Len(m_queue) : m_queue[k] = Taken + k
    /\ Len(kind) = Taken + Len(m_queue) + Held
    /\ \A j, k \in 1..Len(m_tsq) : j < k => m_tsq[j] < m_tsq[k]

\* "FIXME: Add a timeout": front() waits for ever and pop() of an empty deque is
\* undefined, so the acker calls them only with a datagram there or being pushed,
\* although it has looked at the deque without the mutex.
FrontNeverWaits ==
    /\ pc["acker"] = "front" => m_queue # << >> \/ m_mutex = "reader"
    /\ pc["acker"] \in {"copy", "pop"} => m_queue # << >>

\* run() releases the SIP library and returns when no thread is left to use it.
ReleasedLast == pc["main"] = "done" => \A t \in Threads : pc[t] = "ended"

\* run() comes to its end: no join waits for a thread that waits for ever.
ShutsDown == pc["main"] = "stop reader" ~> pc["main"] \in {"done", "crashed"}

\* A datagram that was received is handled, unless the acker is stopped first.
ReceivedIsHandled ==
    \A n \in 1..MaxReceived :
        Len(kind) >= n ~> \/ Len(handled) >= n
                         \/ m_stop_thread["acker"]
                         \/ pc["main"] = "crashed"

================================================================================
