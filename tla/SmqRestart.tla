------------------------------ MODULE SmqRestart ------------------------------
(***************************************************************************)
(* The queue of SmqManager in a process that saves it to a file, stops or  *)
(* crashes, starts again and reads the file: save_queue_to_file and        *)
(* read_queue_from_file.  The queue is saved while it is served (its       *)
(* mutex is held, so no handler runs meanwhile) and after a short code has *)
(* stopped it; it is read before anything is served.  A crash may come     *)
(* between any two steps, also between two writes to the file, which is    *)
(* truncated first: endl flushes a record after its header line, and again *)
(* after the text of the message.                                          *)
(***************************************************************************)
EXTENDS SmqManager

CONSTANTS
    MaxStarts,  \* bound: how often the process starts
    TimesFit    \* TRUE: a next_action_time fits into the unsigned it is read back into

ASSUME RestartAssumption == MaxStarts \in Nat \ {0} /\ TimesFit \in BOOLEAN

VARIABLES
    file,       \* the records of the save file
    pos,        \* the place in the list that is saved next, or in the file that is read
    phase,      \* "serve", "save", "stop", "down", "load"
    starts      \* how often the process has started

restartVars == <<file, pos, phase, starts>>
allVars == <<vars, restartVars>>

\* A header line, the message it belongs to, and whether the text follows.
Record == [id : Ids, m : Message, whole : BOOLEAN]

RestartInit ==
    /\ Init
    /\ file = << >>
    /\ pos = 0
    /\ phase = "serve"
    /\ starts = 1

--------------------------------------------------------------------------------
(* Service *)

Serve ==
    /\ phase = "serve"
    /\ Next
    /\ file' = IF Tick
               THEN [i \in DOMAIN file |->
                        IF file[i].m.due > -MaxLate
                        THEN [file[i] EXCEPT !.m.due = @ - 1] ELSE file[i]]
               ELSE file
    /\ UNCHANGED <<pos, phase, starts>>

--------------------------------------------------------------------------------
(* save_queue_to_file *)

\* A faulty loop, that moves on before it has written anything.
SaveBeginsLate ==
    /\ phase = "serve"
    /\ mode \in {"run", "stopped"}
    /\ phase' = "save"
    /\ file' = << >>
    /\ pos' = IF time_sorted_list = << >> THEN 0 ELSE Len(time_sorted_list) - 1
    /\ UNCHANGED <<vars, starts>>

\* The file is opened, which truncates it.
SaveBegins ==
    /\ phase = "serve"
    /\ mode \in {"run", "stopped"}
    /\ phase' = "save"
    /\ file' = << >>
    /\ pos' = Len(time_sorted_list)
    /\ UNCHANGED <<vars, starts>>

Torn == file # << >> /\ ~file[Len(file)].whole

\* "We save in reverse timestamp order": from the back of the list.
SaveHeader ==
    /\ phase = "save" /\ pos > 0 /\ ~Torn
    /\ LET id == time_sorted_list[pos]
       IN  file' = Append(file, [id |-> id, m |-> msg[id], whole |-> FALSE])
    /\ pos' = pos - 1
    /\ UNCHANGED <<vars, phase, starts>>

SaveText ==
    /\ phase = "save" /\ Torn
    /\ file' = [file EXCEPT ![Len(file)].whole = TRUE]
    /\ UNCHANGED <<vars, pos, phase, starts>>

SaveEnds ==
    /\ phase = "save" /\ pos = 0 /\ ~Torn
    /\ phase' = IF mode = "stopped" THEN "stop" ELSE "serve"
    /\ UNCHANGED <<vars, file, pos, starts>>

Save == SaveBegins \/ SaveHeader \/ SaveText \/ SaveEnds

--------------------------------------------------------------------------------
(* The process ends and starts *)

\* Nothing in memory is left; the file, and what peers may still answer, is.
Ends ==
    /\ time_sorted_list' = << >>
    /\ Delete(Ids)
    /\ elapsed' = 0
    /\ mode' = "run"
    /\ phase' = "down"
    /\ UNCHANGED <<created, sent, acked, file, pos, starts>>

Stop == phase = "stop" /\ Ends

\* Also the end of a process that dereferenced a null pointer. Once the queue has been saved
\* at a stop it makes no difference.
Crash ==
    /\ phase \in {"serve", "save", "load"}
    /\ Ends

Start ==
    /\ phase = "down"
    /\ starts < MaxStarts
    /\ starts' = starts + 1
    /\ phase' = "load"
    /\ pos' = 1
    /\ UNCHANGED <<vars, file>>

--------------------------------------------------------------------------------
(* read_queue_from_file *)

\* What the record restores: attempts and linktag are not in the file, the qtag is
\* computed again from the text.
Restored(m) ==
    [New(m.kind, m.qtag, m.from, NoTag, m.status) EXCEPT
        !.state = m.state, !.due = m.due, !.need_repack = m.need_repack]

\* A time that does not fit into the variable it is read into sets failbit: nothing more
\* is read, the address stays empty and does not parse, and the loop, which looks at
\* eofbit only, goes on for ever without changing anything.
Reading == phase = "load" /\ pos <= Len(file) /\ TimesFit

\* A faulty insertion, at the back of the list.
LoadRequestAtBack ==
    /\ Reading
    /\ file[pos].whole
    /\ file[pos].m.kind # "RESPONSE"
    /\ LET id == file[pos].id
           m == Restored(file[pos].m)
       IN  /\ time_sorted_list' = Append(time_sorted_list, id)
           /\ msg' = [msg EXCEPT ![id] = m]
           /\ depth' = [depth EXCEPT ![id] = IF m.from = "user" THEN 0 ELSE 1]
    /\ pos' = pos + 1
    /\ UNCHANGED <<created, sent, elapsed, mode, sends, waited, acked>>
    /\ UNCHANGED <<file, phase, starts>>

\* A whole request goes to the front of the list.
LoadRequest ==
    /\ Reading
    /\ file[pos].whole
    /\ file[pos].m.kind # "RESPONSE"
    /\ LET id == file[pos].id
           m == Restored(file[pos].m)
       IN  /\ time_sorted_list' = <<id>> \o time_sorted_list
           /\ msg' = [msg EXCEPT ![id] = m]
           /\ depth' = [depth EXCEPT ![id] = IF m.from = "user" THEN 0 ELSE 1]
    /\ pos' = pos + 1
    /\ UNCHANGED <<created, sent, elapsed, mode, sends, waited, acked>>
    /\ UNCHANGED <<file, phase, starts>>

\* A faulty skip, that does not read on.
LoadBadStays ==
    /\ Reading
    /\ ~file[pos].whole \/ file[pos].m.kind = "RESPONSE"
    /\ UNCHANGED allVars

\* A response, or a record that fails validation, is skipped.
LoadBad ==
    /\ Reading
    /\ ~file[pos].whole \/ file[pos].m.kind = "RESPONSE"
    /\ pos' = pos + 1
    /\ UNCHANGED <<vars, file, phase, starts>>

LoadEnds ==
    /\ phase = "load" /\ pos > Len(file)
    /\ phase' = "serve"
    /\ UNCHANGED <<vars, file, pos, starts>>

Load == LoadRequest \/ LoadBad \/ LoadEnds

RestartNext == Serve \/ Save \/ Stop \/ Crash \/ Start \/ Load

RestartSpec == RestartInit /\ [][RestartNext]_allVars /\ WF_allVars(Load)

--------------------------------------------------------------------------------
(* Properties *)

\* The requests that the queue has, or will have again once the file has been read.
ToBeRead == {i \in DOMAIN file : file[i].whole /\ (phase = "load" => i >= pos)}
Kept ==
    {id \in Queued : msg[id].kind # "RESPONSE"}
        \cup (IF phase \in {"down", "load"}
              THEN {file[i].id : i \in {j \in ToBeRead : file[j].m.kind # "RESPONSE"}}
              ELSE {})

\* "Save the queue to a file; read it back from a file": a message is lost in a crash,
\* or it leaves because it is done; an orderly stop and a start lose none.
SurvivesRestart ==
    [][\A id \in Kept \ Kept' :
           \/ Crash
           \/ id \in Queued /\ msg[id].state \in {"NO_STATE", "DELETE_ME_STATE"}
           \/ msg[id].qtag \in acked']_allVars

\* What was sorted when it was saved is sorted when it has been read: the records come
\* in reverse order and each goes to the front.
FileSorted ==
    \A i, j \in DOMAIN file : i < j /\ file[j].m.due > 0 => file[j].m.due <= file[i].m.due
ReloadedInOrder == phase = "load" /\ FileSorted => Sorted

\* A process that starts gets to serve the queue.
StartsServing == phase = "load" ~> phase \in {"serve", "down"}

================================================================================
