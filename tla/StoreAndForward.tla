---------------------------- MODULE StoreAndForward ----------------------------
(***************************************************************************)
(* What a store-and-forward queue promises of the messages it takes in,    *)
(* without the list, the timers, the lookups or the answers by which it    *)
(* keeps the promise.  Messages are numbered as they come in; answers use  *)
(* up numbers, too.                                                        *)
(*                                                                         *)
(* A message is held until it has been delivered, which takes a copy of it *)
(* that was forwarded, or until its end has been decided.  It is forwarded *)
(* a limited number of times.  While it is held it may be returned to its  *)
(* sender, in a message of its own, unless it is itself such a return.     *)
(* What was delivered never comes back.                                    *)
(***************************************************************************)
EXTENDS Naturals

CONSTANTS
    Ids,    \* the numbers of messages and answers
    Limit   \* how often a message may be forwarded, 0 if there is no limit

VARIABLES
    seen,       \* the highest number in use
    held,       \* the messages in the queue
    ended,      \* those of them whose end has been decided
    returned,   \* those of them that are returns
    copies,     \* how often each has been forwarded
    delivered   \* the messages that were delivered

vars == <<seen, held, ended, returned, copies, delivered>>

Init ==
    /\ seen = 0
    /\ held = {}
    /\ ended = {}
    /\ returned = {}
    /\ copies = [id \in Ids |-> 0]
    /\ delivered = {}

\* An answer comes in, which is held nowhere.
Hear ==
    /\ seen' = seen + 1
    /\ UNCHANGED <<held, ended, returned, copies, delivered>>

\* The next number is taken by a message.
Enter(new) ==
    /\ new = seen + 1
    /\ seen' = new
    /\ held' = held \cup {new}

\* A message comes in, or the queue makes one itself: at the end of another, or
\* on behalf of one that it goes on with.
Accept(new) ==
    /\ Enter(new)
    /\ \/ ended' = ended
       \/ \E id \in held : ended' = ended \cup {id}
    /\ UNCHANGED <<returned, copies, delivered>>

\* The message id is returned to its sender; this is its end.
Return(id, new) ==
    /\ id \notin returned
    /\ Enter(new)
    /\ returned' = returned \cup {new}
    /\ ended' = ended \cup {id}
    /\ UNCHANGED <<copies, delivered>>

Forward(id) ==
    /\ Limit > 0 => copies[id] < Limit
    /\ id \notin ended
    /\ copies' = [copies EXCEPT ![id] = @ + 1]
    /\ UNCHANGED <<seen, held, ended, returned, delivered>>

End(id) ==
    /\ ended' = ended \cup {id}
    /\ UNCHANGED <<seen, held, returned, copies, delivered>>

\* An answer sends the message elsewhere, although its end had been decided.
Resume(id) ==
    /\ copies[id] > 0
    /\ ended' = ended \ {id}
    /\ UNCHANGED <<seen, held, returned, copies, delivered>>

Leave(id) ==
    /\ held' = held \ {id}
    /\ ended' = ended \ {id}
    /\ returned' = returned \ {id}
    /\ copies' = [copies EXCEPT ![id] = 0]
    /\ UNCHANGED seen

Discard(id) == id \in ended /\ Leave(id) /\ UNCHANGED delivered

Deliver(id) == copies[id] > 0 /\ Leave(id) /\ delivered' = delivered \cup {id}

Next ==
    \/ Hear
    \/ \E new \in Ids : Accept(new)
    \/ \E id \in held :
           \/ \E new \in Ids : Return(id, new)
           \/ Forward(id) \/ End(id) \/ Resume(id) \/ Discard(id) \/ Deliver(id)

Spec == Init /\ [][Next]_vars

================================================================================
