----------------------------- MODULE LockMultiple -----------------------------
(***************************************************************************)
(* ScopedLockMultiple of CommonLibs/Threads: a thread takes three mutexes, *)
(* of which it may own some already.  It waits for one and tries the       *)
(* others; if it does not get them it gives up the first two of the three  *)
(* and starts with another one.                                            *)
(***************************************************************************)
EXTENDS Naturals

CONSTANTS
    Holders,
    NoHolder,   \* no thread
    Mutexes,
    Args,   \* the three mutexes a thread gives, in its order
    Owned   \* the sets of places among them that it may own already: the owner bits

Slots == 0..2

ASSUME LockAssumption ==
    /\ NoHolder \notin Holders
    /\ Args \in [Holders -> [Slots -> Mutexes]]
    /\ \A t \in Holders : \A p, q \in Slots : Args[t][p] = Args[t][q] => p = q
    /\ Owned \in [Holders -> SUBSET SUBSET Slots]

VARIABLES
    owner,  \* the thread that has each mutex
    own,    \* the places a thread owned when it called
    state,  \* the places it has locked
    round,  \* the attempt of _lockAll, 0..2
    place   \* where it is

lockVars == <<owner, own, state, round, place>>

\* The order of an attempt: the one that is waited for, then those that are tried.
Order == << <<0, 1, 2>>, <<1, 0, 2>>, <<2, 0, 1>> >>
Place(t, n) == Order[round[t] + 1][n]

LockInit ==
    /\ owner = [m \in Mutexes |-> NoHolder]
    /\ own = [t \in Holders |-> {}]
    /\ state = [t \in Holders |-> {}]
    /\ round = [t \in Holders |-> 0]
    /\ place = [t \in Holders |-> "out"]

Free(t, p) == owner[Args[t][p]] = NoHolder
Give(t, P) == owner' = [m \in Mutexes |-> IF \E p \in P : Args[t][p] = m THEN NoHolder ELSE owner[m]]
Grab(t, p) ==
    /\ owner' = [owner EXCEPT ![Args[t][p]] = t]
    /\ state' = [state EXCEPT ![t] = @ \cup {p}]

\* Before the call: what the caller owns, locked one at a time.
Begin(t) ==
    /\ place[t] = "out"
    /\ \E P \in Owned[t] : own' = [own EXCEPT ![t] = P]
    /\ place' = [place EXCEPT ![t] = "owning"]
    /\ UNCHANGED <<owner, state, round>>

OwnNext(t) == CHOOSE p \in own[t] \ state[t] : \A q \in own[t] \ state[t] : p <= q

OwnOne(t) ==
    /\ place[t] = "owning" /\ own[t] # state[t]
    /\ Free(t, OwnNext(t))
    /\ Grab(t, OwnNext(t))
    /\ UNCHANGED <<own, round, place>>

CallLockAll(t) ==
    /\ place[t] = "owning" /\ own[t] = state[t]
    /\ place' = [place EXCEPT ![t] = "lock"]
    /\ round' = [round EXCEPT ![t] = 0]
    /\ UNCHANGED <<owner, own, state>>

\* _lock: nothing to do for one that is locked.
Lock(t) ==
    /\ place[t] = "lock"
    /\ LET p == Place(t, 1)
       IN  IF p \in state[t] THEN UNCHANGED <<owner, state>>
           ELSE Free(t, p) /\ Grab(t, p)
    /\ place' = [place EXCEPT ![t] = "try1"]
    /\ UNCHANGED <<own, round>>

\* _trylock, of the second and then of the third.
Try(t, here, n, next) ==
    /\ place[t] = here
    /\ LET p == Place(t, n)
       IN  \/ p \in state[t] /\ place' = [place EXCEPT ![t] = next] /\ UNCHANGED <<owner, state>>
           \/ p \notin state[t] /\ Free(t, p) /\ Grab(t, p) /\ place' = [place EXCEPT ![t] = next]
           \/ /\ p \notin state[t] /\ ~Free(t, p)
              /\ place' = [place EXCEPT ![t] = "back"]
              /\ UNCHANGED <<owner, state>>
    /\ UNCHANGED <<own, round>>

\* A faulty retreat, that keeps the mutex it waited for.
BackKeepsFirst(t) ==
    /\ place[t] = "back"
    /\ LET P == {Place(t, 2)} \cap state[t]
       IN  Give(t, P) /\ state' = [state EXCEPT ![t] = @ \ P]
    /\ round' = [round EXCEPT ![t] = (@ + 1) % 3]
    /\ place' = [place EXCEPT ![t] = "lock"]
    /\ UNCHANGED own

\* The second and the first are unlocked; the next attempt follows.
Back(t) ==
    /\ place[t] = "back"
    /\ LET P == {Place(t, 1), Place(t, 2)} \cap state[t]
       IN  Give(t, P) /\ state' = [state EXCEPT ![t] = @ \ P]
    /\ round' = [round EXCEPT ![t] = (@ + 1) % 3]
    /\ place' = [place EXCEPT ![t] = "lock"]
    /\ UNCHANGED own

\* ~ScopedLockMultiple: "Leave state of each lock the way we found it."
Restore(t) ==
    /\ place[t] = "all"
    /\ Give(t, Slots \ own[t]) /\ state' = [state EXCEPT ![t] = own[t]]
    /\ place' = [place EXCEPT ![t] = "restored"]
    /\ UNCHANGED <<own, round>>

\* The caller unlocks what it owned.
End(t) ==
    /\ place[t] = "restored"
    /\ Give(t, own[t]) /\ state' = [state EXCEPT ![t] = {}]
    /\ own' = [own EXCEPT ![t] = {}]
    /\ place' = [place EXCEPT ![t] = "out"]
    /\ UNCHANGED round

Step(t) ==
    \/ Begin(t) \/ OwnOne(t) \/ CallLockAll(t) \/ Lock(t)
    \/ Try(t, "try1", 2, "try2") \/ Try(t, "try2", 3, "all")
    \/ Back(t) \/ Restore(t) \/ End(t)

LockNext == \E t \in Holders : Step(t)

LockSpec == LockInit /\ [][LockNext]_lockVars

--------------------------------------------------------------------------------
(* Properties *)

LockTypeOK ==
    /\ owner \in [Mutexes -> Holders \cup {NoHolder}]
    /\ own \in [Holders -> SUBSET Slots]
    /\ state \in [Holders -> SUBSET Slots]
    /\ round \in [Holders -> Slots]
    /\ place \in [Holders -> {"out", "owning", "lock", "try1", "try2", "back", "all", "restored"}]

\* "Do not return until we have locked all three mutexes": a thread that is in the scope
\* of the lock has them, and has back what it owned when the scope has ended.
HasAll ==
    \A t \in Holders :
        /\ place[t] = "all" => \A p \in Slots : owner[Args[t][p]] = t
        /\ place[t] = "restored" => \A p \in own[t] : owner[Args[t][p]] = t

\* The thread that keeps `t` from going on, or NoHolder.
Blocker(t) ==
    IF place[t] = "lock" /\ Place(t, 1) \notin state[t] THEN owner[Args[t][Place(t, 1)]]
    ELSE IF place[t] = "owning" /\ own[t] # state[t] THEN owner[Args[t][OwnNext(t)]]
    ELSE NoHolder

\* "... the mutexes may be temporarily surrendered during this call as the methodology to avoid
\* deadlock": no two threads, and no three, wait for each other.
NoCircularWait ==
    \A S \in (SUBSET Holders) \ {{}} : \E t \in S : Blocker(t) \notin S

================================================================================
