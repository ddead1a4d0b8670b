---------------------------- MODULE MCInterthread ----------------------------
(***************************************************************************)
(* Small instances of Interthread and LockMultiple for TLC.  The two share *)
(* no state; a behaviour is one of either.                                 *)
(***************************************************************************)
EXTENDS Interthread, LockMultiple

CONSTANTS r1, r2, r3, w

VARIABLE part

\* Two readers, one of which may have a timeout; one who waits for the queue to fall,
\* or for either queue, with and without a timeout; and a writer, who also clears.
SmallDoes ==
    [t \in Threads |->
        CASE t = r1 -> {"read"}
          [] t = r2 -> {"read", "readTimed", "readNoBlock"}
          [] t = r3 -> {"wait", "iqWaitForEither", "iqWaitForEitherTimed"}
          [] t = w  -> {"write", "write_front", "clear"}]

\* LockTest.cpp: three threads with a mutex each, that they may own, and the main
\* thread, that owns two.
SmallMutexes == {"a", "b", "c"}
Three(x, y, z) == [p \in 0..2 |-> CASE p = 0 -> x [] p = 1 -> y [] p = 2 -> z]
SmallArgs ==
    [t \in Holders |->
        CASE t = r2 -> Three("b", "a", "c")
          [] t = r3 -> Three("c", "a", "b")
          [] OTHER  -> Three("a", "b", "c")]
SmallOwned ==
    [t \in Holders |-> IF t = w THEN {{0, 1}} ELSE {{}, {0}}]

MCInit ==
    /\ Init
    /\ LockInit
    /\ part \in {"containers", "locks"}
    /\ part # "containers" => kind = "queue"

MCNext ==
    /\ UNCHANGED part
    /\ \/ part = "containers" /\ Next /\ UNCHANGED lockVars
       \/ part = "locks" /\ LockNext /\ UNCHANGED vars

MCSpec ==
    MCInit /\ [][MCNext]_<<part, vars, lockVars>> /\ Fairness

================================================================================
