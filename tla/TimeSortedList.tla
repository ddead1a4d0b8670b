---------------------------- MODULE TimeSortedList ----------------------------
(***************************************************************************)
(* The operations of SmqManager on time_sorted_list, a std::list: a        *)
(* sequence of message identifiers, front first.  msg[id].due is the time  *)
(* until the message's next_action_time, negative once that has passed.    *)
(***************************************************************************)
EXTENDS Integers, SequencesExt

\* A faulty loop, that stops at the first element that is not later.
StopsAtNotLater(q, msg, t, i) ==
    /\ i \in DOMAIN q => msg[q[i]].due <= t
    /\ \A j \in 1..(i - 1) : msg[q[j]].due > t

\* The loop of SmqManager::set_state stops at the first element x with
\* x.next_action_time >= the new time, or at the end.
StopsAt(q, msg, t, i) ==
    /\ i \in DOMAIN q => msg[q[i]].due >= t
    /\ \A j \in 1..(i - 1) : msg[q[j]].due < t

InsertPos(q, msg, t) == CHOOSE i \in 1..(Len(q) + 1) : StopsAt(q, msg, t, i)

\* Splice id, which is not in q, in by its time.
InsertByTime(q, msg, id) == InsertAt(q, InsertPos(q, msg, msg[id].due), id)

\* The positions of the messages that carry a tag, and the first of them: what
\* find_queued_msg_by_tag returns.
Tagged(q, msg, tag) == {i \in DOMAIN q : msg[q[i]].qtag = tag}

\* A faulty search, that compares the hashes of the tags, and they all collide.
FirstByHash(q, msg, tag) == 1

FirstTagged(q, msg, tag) ==
    CHOOSE i \in Tagged(q, msg, tag) : \A j \in Tagged(q, msg, tag) : i <= j

\* No message is linked into the list twice.
Distinct(q) == \A i, j \in DOMAIN q : q[i] = q[j] => i = j

================================================================================
