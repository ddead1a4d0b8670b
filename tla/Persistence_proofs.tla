-------------------------- MODULE Persistence_proofs --------------------------
(***************************************************************************)
(* What is kept on disk.  Of the queue (SmqRestart), over a save, the end  *)
(* of the process, and a load: its own invariant, Safe, holds in every     *)
(* incarnation of the process, no message is lost at an orderly stop, and  *)
(* the list is in order again.  Of the registry (SubscriberRegistry): no   *)
(* sync of memory and disk changes or forgets an address.                  *)
(***************************************************************************)
EXTENDS SmqRestart, SmqManager_proofs, SubscriberRegistry, FiniteSetTheorems

--------------------------------------------------------------------------------
(* The inductive invariant *)

\* A record is of a message of its own, which was entered and had a tag.
FileInv ==
    /\ file \in Seq(Record)
    /\ pos \in Nat
    /\ \A i, j \in DOMAIN file : file[i].id = file[j].id => i = j
    /\ \A i \in DOMAIN file : file[i].id \in 1..created /\ file[i].m.qtag # NoTag

\* While the queue is saved the file holds the back of the list, in reverse order.
SaveInv ==
    phase = "save" =>
        /\ pos + Len(file) = Len(time_sorted_list)
        /\ \A i \in DOMAIN file :
               /\ file[i].id = time_sorted_list[Len(time_sorted_list) + 1 - i]
               /\ file[i].m = msg[file[i].id]
               /\ i < Len(file) => file[i].whole

\* When the process stops, all of the queue is in the file.
StopInv ==
    phase = "stop" =>
        \A id \in Queued :
            \E i \in DOMAIN file :
                file[i].id = id /\ file[i].whole /\ file[i].m.kind = msg[id].kind

\* A process that is down has no queue.
DownInv == phase = "down" => time_sorted_list = << >>

\* While the file is read the list holds messages of the records read so far, the one
\* read last in front.
LoadInv ==
    phase = "load" =>
        /\ pos > 0
        /\ \A id \in Queued :
               \E i \in DOMAIN file :
                   i < pos /\ file[i].id = id /\ msg[id].due = file[i].m.due
        /\ \A k, l \in DOMAIN time_sorted_list : \A i, j \in DOMAIN file :
               /\ k < l
               /\ file[i].id = time_sorted_list[k]
               /\ file[j].id = time_sorted_list[l]
               => j < i

RestartInv == Safe /\ FileInv /\ SaveInv /\ StopInv /\ DownInv /\ LoadInv

--------------------------------------------------------------------------------
(* What a step of the queue leaves on the list *)

\* No message but the one that enters has another tag now.
KeepsTags == \A id \in Queued : msg'[id].qtag = msg[id].qtag

LEMMA QueuedIsOld ==
    ASSUME Safe
    PROVE  /\ created \in Nat /\ Queued \subseteq Ids
           /\ \A id \in Queued : id # created + 1
           /\ created < MaxMsgs => created + 1 \in Ids
<1>1. created \in Nat /\ Queued \subseteq 1..created
    BY ManagerAssumption DEF Safe, TypeOK, ListInv
<1>. QED  BY <1>1, ManagerAssumption DEF Safe, ListInv, ListComplete, Ids

LEMMA RequeueKeepsTags ==
    ASSUME Safe, NonEmpty, NEW m \in Message, m.qtag = msg[qmsg].qtag, Requeue(m)
    PROVE  KeepsTags
BY RequeueList, FrontQueued DEF Safe, KeepsTags

LEMMA SetStateTag == \A m \in Message : \A s : SetState(m, s).qtag = m.qtag
BY DEF Message, SetState

LEMMA MoveToKeepsTags ==
    ASSUME Safe, NonEmpty, NEW s \in sm_state, MoveTo(s)
    PROVE  KeepsTags
<1>1. SetState(msg[qmsg], s) \in Message /\ SetState(msg[qmsg], s).qtag = msg[qmsg].qtag
    BY FrontType, SetStateIsMessage, SetStateTag DEF Safe
<1>. QED  BY <1>1, RequeueKeepsTags DEF MoveTo

LEMMA OriginateKeepsTags ==
    ASSUME Safe, NonEmpty, NEW m, NEW first, NEW moved,
           moved.qtag = msg[qmsg].qtag, OriginateAndRequeue(m, first, moved)
    PROVE  KeepsTags
<1>1. created + 1 \in Ids /\ qmsg \in Ids /\ Queued \subseteq Ids
      /\ \A id \in Queued : id # created + 1
    BY QueuedIsOld, FrontType DEF OriginateAndRequeue, Safe
<1>2. msg' = [msg EXCEPT ![created + 1] = SetState(m, first), ![qmsg] = moved]
    BY DEF OriginateAndRequeue
<1>3. \A id \in Queued : id # qmsg => msg'[id] = msg[id]
    BY <1>1, <1>2 DEF Safe, TypeOK
<1>4. msg'[qmsg] = moved
    BY <1>1, <1>2 DEF Safe, TypeOK
<1>. QED  BY <1>3, <1>4 DEF KeepsTags

LEMMA RegisterHandsetKeepsTags ==
    ASSUME Safe, NonEmpty, NEW m \in Message, m.qtag = msg[qmsg].qtag, RegisterHandset(m)
    PROVE  KeepsTags
<1>1. \A s \in sm_state : SetState(m, s) \in Message /\ SetState(m, s).qtag = msg[qmsg].qtag
    BY SetStateIsMessage, SetStateTag
<1>2. "DELETE_ME_STATE" \in sm_state /\ "ASKED_TO_REGISTER_HANDSET" \in sm_state
    BY DEF sm_state
<1>. QED  BY <1>1, <1>2, RequeueKeepsTags, OriginateKeepsTags DEF RegisterHandset

LEMMA ArriveKeepsTags ==
    ASSUME Safe, NEW m, Arrive(m)
    PROVE  KeepsTags
BY QueuedIsOld DEF Arrive, Safe, TypeOK, KeepsTags

LEMMA ShortCodeKeepsTags ==
    ASSUME Safe, HandleShortCode
    PROVE  KeepsTags
<1>1. NonEmpty
    BY DEF HandleShortCode, ShortCodeReply, ShortCodeError, ShortCodeDone, ShortCodeAwait,
           ShortCodeRegister, ShortCodeRestart, ShortCodeRetry, ShortCodeQuit,
           ShortCode, Due, NonEmpty
<1>2. msg[qmsg] \in Message
    BY <1>1, FrontType DEF Safe
<1>3. /\ SetState(msg[qmsg], "DELETE_ME_STATE") \in Message
      /\ SetState(msg[qmsg], "DELETE_ME_STATE").qtag = msg[qmsg].qtag
    BY <1>2, SetStateIsMessage, SetStateTag DEF sm_state
<1>4. ASSUME ShortCodeReply PROVE KeepsTags
    BY <1>1, <1>3, <1>4, OriginateKeepsTags, MoveToKeepsTags DEF ShortCodeReply, sm_state
<1>5. ASSUME ShortCodeError \/ ShortCodeDone \/ ShortCodeAwait \/ ShortCodeRestart
      PROVE  KeepsTags
    BY <1>1, <1>5, MoveToKeepsTags
       DEF ShortCodeError, ShortCodeDone, ShortCodeAwait, ShortCodeRestart, sm_state
<1>6. ASSUME ShortCodeRegister PROVE KeepsTags
    BY <1>1, <1>2, <1>6, RegisterHandsetKeepsTags DEF ShortCodeRegister
<1>7. ASSUME ShortCodeRetry PROVE KeepsTags
    <2>. DEFINE m == [msg[qmsg] EXCEPT !.retries = @ + 1]
    <2>1. m \in Message /\ m.qtag = msg[qmsg].qtag
        BY <1>2 DEF Message
    <2>2. SetState(m, "REQUEST_FROM_ADDRESS_LOOKUP") \in Message
          /\ SetState(m, "REQUEST_FROM_ADDRESS_LOOKUP").qtag = msg[qmsg].qtag
        BY <2>1, SetStateIsMessage, SetStateTag DEF sm_state
    <2>. QED  BY <1>1, <1>7, <2>2, RequeueKeepsTags DEF ShortCodeRetry
<1>8. ASSUME ShortCodeQuit PROVE KeepsTags
    BY <1>1, <1>3, <1>8, RequeueKeepsTags DEF ShortCodeQuit
<1>. QED  BY <1>4, <1>5, <1>6, <1>7, <1>8 DEF HandleShortCode

LEMMA AttemptKeepsTags ==
    ASSUME Safe, PackFails \/ DropAfterRetries \/ RateLimit \/ Deliver
    PROVE  KeepsTags
<1>1. NonEmpty /\ qmsg \in Ids /\ msg[qmsg] \in Message
    BY FrontType DEF Safe, PackFails, DropAfterRetries, RateLimit, Deliver, Delivering, Due,
                     NonEmpty
<1>2. /\ Attempt \in Message /\ Packed \in Message
      /\ Attempt.qtag = msg[qmsg].qtag /\ Packed.qtag = msg[qmsg].qtag
    BY <1>1, AttemptType, AttemptContinues DEF Safe, Continues
<1>3. /\ SetState(Attempt, "NO_STATE") \in Message
      /\ SetState(Attempt, "NO_STATE").qtag = msg[qmsg].qtag
      /\ \A s \in {"DELETE_ME_STATE", "ASKED_FOR_MSG_DELIVERY"} :
             SetState(Packed, s) \in Message /\ SetState(Packed, s).qtag = msg[qmsg].qtag
    BY <1>2, SetStateIsMessage, SetStateTag DEF sm_state
<1>4. ASSUME RateLimit PROVE KeepsTags
    <2>1. \A id \in Ids :
              msg'[id] = IF id = qmsg THEN [Packed EXCEPT !.due = @ + msSMSRateLimit]
                         ELSE msg[id]
        BY <1>4 DEF RateLimit, Safe, TypeOK
    <2>2. [Packed EXCEPT !.due = @ + msSMSRateLimit].qtag = Packed.qtag
        BY <1>2 DEF Message
    <2>. QED  BY <1>2, <2>1, <2>2, QueuedIsOld DEF KeepsTags
<1>. QED  BY <1>1, <1>3, <1>4, RequeueKeepsTags DEF PackFails, DropAfterRetries, Deliver

\* Only three handlers take a message off the list.
LEMMA TagsKeptBy ==
    ASSUME Safe, [Next]_vars, ~HandleResponse, ~DeleteMessage
    PROVE  KeepsTags
<1>1. ASSUME ReceiveRequest \/ ReceiveResponse PROVE KeepsTags
    BY <1>1, ArriveKeepsTags DEF ReceiveRequest, ReceiveResponse
<1>2. ASSUME \/ RejectMethod \/ OrdinaryMessage \/ LookupUriHostport \/ NoAnswer
             \/ AwaitRegister \/ NoRegisterAnswer
      PROVE  KeepsTags
    BY <1>2, MoveToKeepsTags
       DEF RejectMethod, OrdinaryMessage, LookupUriHostport, NoAnswer, AwaitRegister,
           NoRegisterAnswer, Delivering, Due, NonEmpty, sm_state
<1>3. ASSUME LookupFromAddress PROVE KeepsTags
    <2>1. NonEmpty /\ msg[qmsg] \in Message
        BY <1>3, FrontType DEF LookupFromAddress, Due, NonEmpty, Safe
    <2>2. \A s \in sm_state : SetState(msg[qmsg], s) \in Message
        BY <2>1, SetStateIsMessage
    <2>3. "INITIAL_STATE" \in sm_state /\ "NO_STATE" \in sm_state
          /\ "REQUEST_DESTINATION_IMSI" \in sm_state
        BY DEF sm_state
    <2>4. PICK m \in Message, s \in sm_state : m.qtag = msg[qmsg].qtag /\ Requeue(SetState(m, s))
        <3>1. PICK s \in {"NO_STATE", "REQUEST_DESTINATION_IMSI"} :
                  \/ Requeue(SetState(SetState(msg[qmsg], "INITIAL_STATE"), s))
                  \/ Requeue(SetState(msg[qmsg], s))
            BY <1>3 DEF LookupFromAddress
        <3>. QED  BY <2>1, <2>2, <2>3, <3>1, SetStateTag
    <2>5. SetState(m, s) \in Message /\ SetState(m, s).qtag = msg[qmsg].qtag
        BY <2>4, SetStateIsMessage, SetStateTag
    <2>. QED  BY <2>1, <2>4, <2>5, RequeueKeepsTags
<1>4. ASSUME LookupUriImsi PROVE KeepsTags
    <2>1. NonEmpty /\ msg[qmsg] \in Message
        BY <1>4, FrontType DEF LookupUriImsi, Due, NonEmpty, Safe
    <2>2. SetState(msg[qmsg], "DELETE_ME_STATE").qtag = msg[qmsg].qtag
        BY <2>1, SetStateTag
    <2>. QED  BY <1>4, <2>1, <2>2, MoveToKeepsTags, OriginateKeepsTags
              DEF LookupUriImsi, sm_state
<1>5. ASSUME Register PROVE KeepsTags
    <2>1. NonEmpty /\ msg[qmsg] \in Message
        BY <1>5, FrontType DEF Register, Due, NonEmpty, Safe
    <2>2. SetState(msg[qmsg], "REGISTER_HANDSET") \in Message
          /\ SetState(msg[qmsg], "REGISTER_HANDSET").qtag = msg[qmsg].qtag
        BY <2>1, SetStateIsMessage, SetStateTag DEF sm_state
    <2>. QED  BY <1>5, <2>1, <2>2, RegisterHandsetKeepsTags DEF Register
<1>6. ASSUME Tick PROVE KeepsTags
    <2>1. \A id \in Ids : msg'[id] = [msg[id] EXCEPT !.due = @ - 1] \/ msg'[id] = msg[id]
        BY <1>6 DEF Tick
    <2>2. \A m \in Message : [m EXCEPT !.due = @ - 1].qtag = m.qtag
        BY DEF Message
    <2>. QED  BY <2>1, <2>2, QueuedIsOld DEF Safe, TypeOK, KeepsTags
<1>7. ASSUME CrashInLookup \/ UNCHANGED vars PROVE KeepsTags
    BY <1>7 DEF CrashInLookup, vars, KeepsTags
<1>. QED  BY <1>1, <1>2, <1>3, <1>4, <1>5, <1>6, <1>7, ShortCodeKeepsTags, AttemptKeepsTags
          DEF Next, ProcessTimeout

\* A message leaves the list that is a response, in error or done, or delivered; one that
\* stays is of the kind that it was.
LEMMA LeavesStep ==
    ASSUME Safe, [Next]_vars, NEW id \in Queued
    PROVE  \/ id \in Queued' /\ msg'[id].kind = msg[id].kind
           \/ /\ id \notin Queued'
              /\ \/ msg[id].kind = "RESPONSE"
                 \/ msg[id].state \in {"NO_STATE", "DELETE_ME_STATE"}
                 \/ msg[id].qtag \in acked'
<1>. USE DEF Safe
<1>1. id \in Ids /\ msg[id] \in Message /\ msg[id].qtag # NoTag
    BY QueuedIsOld DEF TypeOK, ListInv, ListComplete
<1>2. CASE id \in Queued'
    BY <1>1, <1>2, StepShape DEF Shape, Remains, Gone, Entered, Sent, Continues
<1>3. CASE id \notin Queued'
    <2>1. msg'[id].qtag # msg[id].qtag
        BY <1>1, <1>3, SafeStep DEF ListInv, ListComplete
    <2>2. HandleResponse \/ DeleteMessage
        BY <2>1, TagsKeptBy DEF KeepsTags
    <2>3. ASSUME DeleteMessage
          PROVE  msg[id].state \in {"NO_STATE", "DELETE_ME_STATE"}
        BY <1>1, <2>1, <2>3 DEF DeleteMessage, Due, Delete, Cleared
    <2>4. ASSUME HandleResponse
          PROVE  msg[id].kind = "RESPONSE" \/ msg[id].qtag \in acked'
        <3>1. NonEmpty /\ qmsg \in Ids /\ msg[qmsg].kind = "RESPONSE"
            BY <2>4, FrontType
               DEF HandleResponse, IgnoreResponse, ResponseDefers, ResponseRedirects,
                   ResponseDelivered, ResponseBounces, Response, Due, NonEmpty
        <3>2. ASSUME Matches # {}
              PROVE  SentId \in Ids /\ msg[SentId] \in Message
                     /\ msg[SentId].qtag = msg[qmsg].qtag
            BY <3>1, <3>2, SentType, FrontType, FirstTaggedIsTagged
               DEF Matches, SentId, SentPos, TypeOK
        <3>3. ASSUME NEW m \in Message, Matches # {}, m.qtag = msg[SentId].qtag, Answered(m)
              PROVE  id = qmsg
            <4>1. msg' = [msg EXCEPT ![qmsg] = Nobody, ![SentId] = m]
                BY <3>3 DEF Answered
            <4>. QED  BY <1>1, <2>1, <3>1, <3>2, <3>3, <4>1 DEF TypeOK
        <3>4. ASSUME IgnoreResponse PROVE id = qmsg
            BY <1>1, <2>1, <3>4 DEF IgnoreResponse, Delete, Cleared
        <3>5. ASSUME ResponseDefers \/ ResponseRedirects PROVE id = qmsg
            <4>1. Matches # {}
                BY <3>5 DEF ResponseDefers, ResponseRedirects
            <4>2. /\ IncreaseTimeout(msg[SentId]) \in Message
                  /\ IncreaseTimeout(msg[SentId]).qtag = msg[SentId].qtag
                BY <3>2, <4>1, IncreaseTimeoutIsMessage DEF IncreaseTimeout, Message
            <4>3. /\ SetState(msg[SentId], "REQUEST_DESTINATION_IMSI") \in Message
                  /\ SetState(msg[SentId], "REQUEST_DESTINATION_IMSI").qtag
                         = msg[SentId].qtag
                BY <3>2, <4>1, SetStateIsMessage, SetStateTag DEF sm_state
            <4>. QED  BY <3>3, <3>5, <4>1, <4>2, <4>3 DEF ResponseDefers, ResponseRedirects
        <3>6. ASSUME ResponseDelivered PROVE msg[id].qtag \in acked'
            <4>1. Matches # {} /\ msg[qmsg].qtag \in acked'
                BY <3>6 DEF ResponseDelivered
            <4>2. \/ id \in {qmsg, SentId}
                  \/ msg'[id] = SetState(msg[id], "INITIAL_STATE")
                  \/ msg'[id] = msg[id]
                BY <1>1, <3>6 DEF ResponseDelivered
            <4>3. id \in {qmsg, SentId}
                BY <1>1, <2>1, <4>2, SetStateTag
            <4>. QED  BY <3>2, <4>1, <4>3
        <3>7. ASSUME ResponseBounces PROVE id = qmsg
            <4>1. Matches # {}
                BY <3>7 DEF ResponseBounces
            <4>2. /\ \A s \in {"NO_STATE", "DELETE_ME_STATE"} :
                         /\ SetState(msg[SentId], s) \in Message
                         /\ SetState(msg[SentId], s).qtag = msg[SentId].qtag
                BY <3>2, <4>1, SetStateIsMessage, SetStateTag DEF sm_state
            <4>3. CASE Answered(SetState(msg[SentId], "NO_STATE"))
                BY <3>3, <4>1, <4>2, <4>3
            <4>4. CASE \E tag \in NewTags, first \in BounceStates :
                           /\ created < MaxMsgs
                           /\ msg' = [msg EXCEPT ![qmsg] = Nobody,
                                                 ![created + 1] = SetState(Bounce(tag), first),
                                                 ![SentId] = SetState(msg[SentId],
                                                                      "DELETE_ME_STATE")]
                <5>1. id # created + 1 /\ created + 1 \in Ids
                    BY <4>4, QueuedIsOld
                <5>. QED  BY <1>1, <2>1, <3>1, <3>2, <4>1, <4>2, <4>4, <5>1 DEF TypeOK
            <4>. QED  BY <3>7, <4>3, <4>4 DEF ResponseBounces
        <3>. QED  BY <2>4, <3>1, <3>4, <3>5, <3>6, <3>7 DEF HandleResponse
    <2>. QED  BY <1>3, <2>2, <2>3, <2>4
<1>. QED  BY <1>2, <1>3

\* The number of messages entered never falls.
LEMMA CreatedGrows ==
    ASSUME [Next]_vars
    PROVE  created' = created \/ created' = created + 1
<1>1. ASSUME HandleShortCode PROVE created' = created \/ created' = created + 1
    BY <1>1 DEF HandleShortCode, ShortCodeReply, ShortCodeError, ShortCodeDone,
                ShortCodeAwait, ShortCodeRegister, ShortCodeRestart, ShortCodeRetry,
                ShortCodeQuit, MoveTo, OriginateAndRequeue, RegisterHandset
<1>2. ASSUME HandleResponse \/ DeleteMessage
      PROVE  created' = created \/ created' = created + 1
    BY <1>2 DEF HandleResponse, DeleteMessage, IgnoreResponse, ResponseDefers,
                ResponseRedirects, ResponseDelivered, ResponseBounces, Answered
<1>3. ASSUME ReceiveRequest \/ ReceiveResponse \/ Tick \/ UNCHANGED vars
      PROVE  created' = created \/ created' = created + 1
    BY <1>3 DEF ReceiveRequest, ReceiveResponse, Arrive, Tick, vars
<1>4. ASSUME RejectMethod \/ OrdinaryMessage \/ LookupFromAddress \/ LookupUriImsi
             \/ CrashInLookup \/ LookupUriHostport
      PROVE  created' = created \/ created' = created + 1
    BY <1>4 DEF RejectMethod, OrdinaryMessage, LookupFromAddress, LookupUriImsi,
                CrashInLookup, LookupUriHostport, MoveTo, OriginateAndRequeue
<1>5. ASSUME PackFails \/ DropAfterRetries \/ RateLimit \/ Deliver \/ NoAnswer
             \/ AwaitRegister \/ Register \/ NoRegisterAnswer
      PROVE  created' = created \/ created' = created + 1
    BY <1>5 DEF PackFails, DropAfterRetries, RateLimit, Deliver, NoAnswer, AwaitRegister,
                Register, NoRegisterAnswer, MoveTo, OriginateAndRequeue, RegisterHandset
<1>. QED  BY <1>1, <1>2, <1>3, <1>4, <1>5 DEF Next, ProcessTimeout

--------------------------------------------------------------------------------
(* Service *)

LEMMA RecordLater ==
    ASSUME NEW r \in Record
    PROVE  LET s == [r EXCEPT !.m.due = @ - 1]
           IN  s \in Record /\ s.id = r.id /\ s.m.qtag = r.m.qtag
BY DEF Record, Message

LEMMA RecordFields ==
    ASSUME FileInv
    PROVE  /\ DOMAIN file = 1..Len(file) /\ Len(file) \in Nat
           /\ \A i \in DOMAIN file :
                  /\ file[i] \in Record /\ file[i].id \in Ids /\ file[i].m \in Message
                  /\ file[i].whole \in BOOLEAN
<1>1. \A i \in DOMAIN file : file[i] \in Record
    BY ElementOfSeq, LenProperties DEF FileInv
<1>. QED  BY <1>1, LenProperties DEF FileInv, Record

LEMMA ServeInv ==
    ASSUME RestartInv, Serve
    PROVE  RestartInv'
<1>1. Safe'
    BY SafeStep DEF Serve, RestartInv
<1>2. FileInv'
    <2>. USE DEF RestartInv
    <2>1. DOMAIN file = 1..Len(file) /\ Len(file) \in Nat
          /\ \A i \in DOMAIN file : file[i] \in Record
        BY RecordFields
    <2>2. DOMAIN file' = DOMAIN file
          /\ \A i \in DOMAIN file :
                 \/ file'[i] = file[i]
                 \/ file'[i] = [file[i] EXCEPT !.m.due = @ - 1]
        BY DEF Serve
    <2>3. \A i \in DOMAIN file :
              file'[i] \in Record /\ file'[i].id = file[i].id
                  /\ file'[i].m.qtag = file[i].m.qtag
        BY <2>1, <2>2, RecordLater
    <2>4. file' \in [1..Len(file) -> Record]
        <3>1. file' = [i \in 1..Len(file) |-> file'[i]]
            BY <2>1, LenProperties DEF Serve, FileInv
        <3>. QED  BY <2>1, <2>3, <3>1
    <2>5. file' \in Seq(Record)
        BY <2>1, <2>4, SeqDef
    <2>6. created \in Nat /\ created' \in Nat /\ created <= created'
        BY <1>1, CreatedGrows, QueuedIsOld, ManagerAssumption DEF Serve, Safe, TypeOK
    <2>7. pos' = pos
        BY DEF Serve
    <2>. QED  BY <2>2, <2>3, <2>5, <2>6, <2>7 DEF FileInv
<1>3. phase' = "serve"
    BY DEF Serve
<1>. QED  BY <1>1, <1>2, <1>3 DEF RestartInv, SaveInv, StopInv, DownInv, LoadInv

--------------------------------------------------------------------------------
(* Saving *)

\* What does not touch the queue leaves its invariant.
LEMMA SafeStays ==
    ASSUME Safe, UNCHANGED vars
    PROVE  Safe'
BY SafeStep

LEMMA SaveBeginsInv ==
    ASSUME RestartInv, SaveBegins
    PROVE  RestartInv'
<1>1. Safe'
    BY SafeStays DEF SaveBegins, RestartInv
<1>2. file' = << >> /\ DOMAIN file' = {} /\ Len(file') = 0 /\ file' \in Seq(Record)
    BY EmptySeq DEF SaveBegins
<1>3. pos' = Len(time_sorted_list') /\ pos' \in Nat /\ phase' = "save"
    BY LenProperties DEF SaveBegins, RestartInv, Safe, TypeOK, vars
<1>. QED  BY <1>1, <1>2, <1>3 DEF RestartInv, FileInv, SaveInv, StopInv, DownInv, LoadInv

LEMMA SaveHeaderInv ==
    ASSUME RestartInv, SaveHeader
    PROVE  RestartInv'
<1>. USE DEF RestartInv
<1>1. Safe' /\ UNCHANGED <<time_sorted_list, msg, created>>
    BY SafeStays DEF SaveHeader, vars
<1>. DEFINE n == Len(time_sorted_list)
            id == time_sorted_list[pos]
            r == [id |-> id, m |-> msg[id], whole |-> FALSE]
<1>2. /\ n \in Nat /\ DOMAIN time_sorted_list = 1..n /\ Distinct(time_sorted_list)
      /\ \A k \in 1..n : time_sorted_list[k] \in Ids /\ time_sorted_list[k] \in Queued
    BY LenProperties, ElementOfSeq DEF Safe, TypeOK, ListInv, ListComplete, Queued, ToSet
<1>3. /\ pos > 0 /\ pos \in Nat /\ ~Torn /\ phase = "save"
      /\ file' = Append(file, r) /\ pos' = pos - 1 /\ phase' = "save"
    BY DEF SaveHeader, FileInv
<1>4. /\ file \in Seq(Record) /\ DOMAIN file = 1..Len(file) /\ Len(file) \in Nat
      /\ pos + Len(file) = n
    BY <1>3, RecordFields DEF FileInv, SaveInv
<1>5. pos \in 1..n /\ id \in Ids /\ id \in Queued
    BY <1>2, <1>3, <1>4
<1>6. /\ r \in Record /\ r.id = id /\ r.m = msg[id] /\ r.m.qtag # NoTag
      /\ id \in 1..created
    BY <1>5 DEF Record, Safe, TypeOK, ListInv, ListComplete
<1>. HIDE DEF r
<1>7. /\ file' \in Seq(Record) /\ Len(file') = Len(file) + 1
      /\ DOMAIN file' = 1..(Len(file) + 1)
      /\ \A i \in 1..Len(file) : file'[i] = file[i]
      /\ file'[Len(file) + 1] = r
    BY <1>3, <1>4, <1>6, AppendProperties
<1>8. pos = n + 1 - (Len(file) + 1)
    BY <1>2, <1>4, <1>3
<1>9. \A i \in 1..Len(file) : file[i].whole
    BY <1>3, <1>4 DEF Torn, SaveInv
<1>10. \A i \in 1..Len(file) :
           file[i].id = time_sorted_list[n + 1 - i] /\ file[i].m = msg[file[i].id]
    BY <1>3, <1>4 DEF SaveInv
<1>11. \A i \in 1..Len(file) : file[i].id # id
    <2>. SUFFICES ASSUME NEW i \in 1..Len(file), file[i].id = id PROVE FALSE
        OBVIOUS
    <2>1. time_sorted_list[n + 1 - i] = time_sorted_list[pos]
        BY <1>10
    <2>2. n + 1 - i \in 1..n /\ n + 1 - i # pos
        BY <1>2, <1>3, <1>4
    <2>. QED  BY <1>2, <1>5, <2>1, <2>2 DEF Distinct
<1>12. FileInv'
    <2>1. \A i \in DOMAIN file' : file'[i].id \in 1..created' /\ file'[i].m.qtag # NoTag
        BY <1>1, <1>4, <1>6, <1>7 DEF FileInv
    <2>2. \A i, j \in DOMAIN file' : file'[i].id = file'[j].id => i = j
        BY <1>4, <1>6, <1>7, <1>11 DEF FileInv
    <2>. QED  BY <1>3, <1>7, <2>1, <2>2 DEF FileInv
<1>13. SaveInv'
    <2>1. pos' + Len(file') = Len(time_sorted_list')
        BY <1>1, <1>3, <1>4, <1>7
    <2>2. \A i \in DOMAIN file' :
              /\ file'[i].id = time_sorted_list[n + 1 - i]
              /\ file'[i].m = msg[file'[i].id]
              /\ i < Len(file') => file'[i].whole
        <3>. SUFFICES ASSUME NEW i \in 1..(Len(file) + 1)
                      PROVE  /\ file'[i].id = time_sorted_list[n + 1 - i]
                             /\ file'[i].m = msg[file'[i].id]
                             /\ i < Len(file') => file'[i].whole
            BY <1>7
        <3>1. CASE i = Len(file) + 1
            BY <1>4, <1>6, <1>7, <1>8, <3>1
        <3>2. CASE i # Len(file) + 1
            <4>1. i \in 1..Len(file)
                BY <1>4, <3>2
            <4>. QED  BY <1>7, <1>9, <1>10, <4>1
        <3>. QED  BY <3>1, <3>2
    <2>. QED  BY <1>1, <2>1, <2>2 DEF SaveInv
<1>. QED  BY <1>1, <1>3, <1>12, <1>13 DEF StopInv, DownInv, LoadInv

LEMMA SaveTextInv ==
    ASSUME RestartInv, SaveText
    PROVE  RestartInv'
<1>. USE DEF RestartInv
<1>1. Safe' /\ UNCHANGED <<time_sorted_list, msg, created, pos, phase>> /\ phase = "save"
    BY SafeStays DEF SaveText, vars
<1>2. /\ DOMAIN file = 1..Len(file) /\ Len(file) \in Nat /\ file \in Seq(Record)
      /\ \A i \in DOMAIN file : file[i] \in Record
    BY RecordFields DEF FileInv
<1>3. Len(file) \in 1..Len(file)
    BY <1>2, EmptySeq DEF SaveText, Torn
<1>. DEFINE last == [file[Len(file)] EXCEPT !.whole = TRUE]
<1>4. /\ last \in Record /\ last.id = file[Len(file)].id /\ last.m = file[Len(file)].m
      /\ last.whole
    BY <1>2, <1>3 DEF Record
<1>5. file' = [file EXCEPT ![Len(file)] = last]
    BY DEF SaveText
<1>. HIDE DEF last
<1>6. /\ file' \in Seq(Record) /\ Len(file') = Len(file) /\ DOMAIN file' = DOMAIN file
      /\ \A i \in DOMAIN file : file'[i] = IF i = Len(file) THEN last ELSE file[i]
    BY <1>2, <1>3, <1>4, <1>5, ExceptSeq
<1>7. \A i \in DOMAIN file : file'[i].id = file[i].id /\ file'[i].m = file[i].m
                             /\ (file[i].whole => file'[i].whole)
    BY <1>4, <1>6
<1>8. FileInv'
    BY <1>1, <1>6, <1>7 DEF FileInv
<1>9. SaveInv'
    BY <1>1, <1>6, <1>7 DEF SaveInv
<1>. QED  BY <1>1, <1>8, <1>9 DEF StopInv, DownInv, LoadInv

\* The loop has come to the front of the list: all of it is in the file.
LEMMA SaveEndsInv ==
    ASSUME RestartInv, SaveEnds
    PROVE  RestartInv'
<1>. USE DEF RestartInv
<1>1. /\ Safe' /\ UNCHANGED <<time_sorted_list, msg, created, pos, file>>
      /\ phase = "save" /\ pos = 0 /\ ~Torn /\ phase' \in {"stop", "serve"}
    BY SafeStays DEF SaveEnds, vars
<1>2. FileInv'
    BY <1>1 DEF FileInv
<1>. DEFINE n == Len(time_sorted_list)
<1>3. n \in Nat /\ DOMAIN time_sorted_list = 1..n
    BY LenProperties DEF Safe, TypeOK
<1>4. /\ DOMAIN file = 1..n /\ Len(file) = n
      /\ \A i \in 1..n : /\ file[i].id = time_sorted_list[n + 1 - i]
                         /\ file[i].m = msg[file[i].id]
                         /\ i < n => file[i].whole
    BY <1>1, <1>3, RecordFields DEF SaveInv
<1>5. \A i \in 1..n : file[i].whole
    BY <1>1, <1>3, <1>4, EmptySeq DEF Torn
<1>6. ASSUME NEW id \in Queued
      PROVE  \E i \in DOMAIN file :
                 file[i].id = id /\ file[i].whole /\ file[i].m.kind = msg[id].kind
    <2>1. PICK k \in 1..n : time_sorted_list[k] = id
        BY <1>3 DEF Queued, ToSet
    <2>2. n + 1 - k \in 1..n /\ n + 1 - (n + 1 - k) = k
        BY <1>3
    <2>3. file[n + 1 - k].id = id /\ file[n + 1 - k].whole
          /\ file[n + 1 - k].m = msg[id]
        BY <1>4, <1>5, <2>1, <2>2
    <2>. QED  BY <1>4, <2>2, <2>3
<1>7. StopInv'
    BY <1>1, <1>6 DEF StopInv, Queued
<1>. QED  BY <1>1, <1>2, <1>7 DEF SaveInv, DownInv, LoadInv

--------------------------------------------------------------------------------
(* The process ends and starts *)

LEMMA EndsInv ==
    ASSUME RestartInv, Ends
    PROVE  RestartInv'
<1>. USE DEF RestartInv
<1>1. /\ time_sorted_list' = << >> /\ time_sorted_list' \in Seq(Ids)
      /\ DOMAIN time_sorted_list' = {} /\ Queued' = {}
    BY EmptySeq DEF Ends, Queued, ToSet
<1>2. \A id \in Ids : msg'[id] = Nobody /\ sends'[id] = 0 /\ depth'[id] = 0
    BY DEF Ends, Delete, Cleared
<1>3. TypeOK'
    <2>1. Nobody \in Message
        BY NewIsMessage DEF Nobody, Tags, AllStatuses
    <2>2. ResendGap \in Nat
        BY TicksInNat DEF ResendGap, Delays
    <2>. QED  BY <1>1, <2>1, <2>2 DEF Ends, Delete, Cleared, Safe, TypeOK
<1>4. ListInv'
    <2>1. \A id \in Ids : msg'[id].qtag = NoTag
        BY <1>2 DEF Nobody, New
    <2>2. sent' = sent
        BY DEF Ends
    <2>3. Distinct(time_sorted_list')
        BY <1>1 DEF Distinct
    <2>. QED  BY <1>1, <2>1, <2>2, <2>3 DEF Safe, ListInv, ListComplete
<1>5. SendsInv' /\ DepthInv'
    BY <1>1, <1>2, RateLimitInNat DEF SendsInv, DepthInv, Nobody, New, max_retries
<1>6. FileInv'
    BY DEF Ends, FileInv
<1>7. phase' = "down"
    BY DEF Ends
<1>. QED  BY <1>1, <1>3, <1>4, <1>5, <1>6, <1>7
          DEF Safe, SaveInv, StopInv, DownInv, LoadInv

LEMMA StartInv ==
    ASSUME RestartInv, Start
    PROVE  RestartInv'
<1>. USE DEF RestartInv
<1>1. Safe' /\ time_sorted_list' = << >> /\ file' = file /\ created' = created
    BY SafeStays DEF Start, DownInv, vars
<1>2. Queued' = {} /\ DOMAIN time_sorted_list' = {}
    BY <1>1 DEF Queued, ToSet
<1>3. phase' = "load" /\ pos' = 1
    BY DEF Start
<1>4. FileInv'
    BY <1>1, <1>3 DEF FileInv
<1>. QED  BY <1>1, <1>2, <1>3, <1>4 DEF SaveInv, StopInv, DownInv, LoadInv

--------------------------------------------------------------------------------
(* Loading *)

LEMMA RestoredFields ==
    ASSUME NEW m \in Message
    PROVE  LET r == Restored(m)
           IN  /\ r \in Message
               /\ r.kind = m.kind /\ r.qtag = m.qtag /\ r.from = m.from /\ r.due = m.due
               /\ r.retries = 0
<1>. DEFINE n == New(m.kind, m.qtag, m.from, NoTag, m.status)
<1>1. n \in Message
    <2>1. /\ m.kind \in {"MESSAGE", "OTHER", "REGISTER", "RESPONSE"} /\ m.qtag \in Tags
          /\ m.from \in {"user", "Bounce.Code"} /\ NoTag \in Tags
          /\ m.status \in AllStatuses \cup {"none"}
        BY DEF Message, Tags
    <2>. QED  BY <2>1, NewIsMessage
<1>2. n.kind = m.kind /\ n.qtag = m.qtag /\ n.from = m.from /\ n.retries = 0
    BY DEF New
<1>3. Restored(m) = [n EXCEPT !.state = m.state, !.due = m.due, !.need_repack = m.need_repack]
    BY DEF Restored
<1>. HIDE DEF n
<1>. QED  BY <1>1, <1>2, <1>3 DEF Message

\* What the load of the record at pos does to the queue.
LEMMA LoadRequestQueue ==
    ASSUME RestartInv, LoadRequest
    PROVE  LET id == file[pos].id
           IN  /\ pos \in DOMAIN file /\ id \in Ids /\ id \notin Queued
               /\ Safe'
               /\ Queued' = Queued \cup {id}
               /\ \A x \in Ids : msg'[x] = IF x = id THEN Restored(file[pos].m) ELSE msg[x]
<1>. USE DEF RestartInv
<1>. DEFINE id == file[pos].id
            m == Restored(file[pos].m)
<1>1. /\ phase = "load" /\ pos \in Nat /\ pos > 0 /\ pos <= Len(file)
      /\ time_sorted_list' = <<id>> \o time_sorted_list
      /\ msg' = [msg EXCEPT ![id] = m]
      /\ depth' = [depth EXCEPT ![id] = IF m.from = "user" THEN 0 ELSE 1]
      /\ UNCHANGED <<created, sent, elapsed, mode, sends, waited, acked>>
    BY DEF LoadRequest, Reading, FileInv, LoadInv
<1>2. /\ pos \in DOMAIN file /\ id \in Ids /\ id \in 1..created
      /\ file[pos].m \in Message /\ file[pos].m.qtag # NoTag
    BY <1>1, RecordFields DEF FileInv
<1>3. id \notin Queued
    <2>. SUFFICES ASSUME id \in Queued PROVE FALSE
        OBVIOUS
    <2>1. PICK i \in DOMAIN file : i < pos /\ file[i].id = id
        BY <1>1 DEF LoadInv
    <2>. QED  BY <1>1, <1>2, <2>1, RecordFields DEF FileInv
<1>4. /\ m \in Message /\ m.qtag = file[pos].m.qtag /\ m.retries = 0
      /\ m.from \in {"user", "Bounce.Code"}
    BY <1>2, RestoredFields DEF Message
<1>. HIDE DEF m, id
<1>5. /\ <<id>> \o time_sorted_list \in Seq(Ids)
      /\ ToSet(<<id>> \o time_sorted_list) = ToSet(time_sorted_list) \cup {id}
      /\ Distinct(<<id>> \o time_sorted_list)
    BY <1>2, <1>3, ConsElements DEF Safe, TypeOK, ListInv, ListComplete, Queued
<1>6. Queued' = Queued \cup {id}
    BY <1>1, <1>5 DEF Queued
<1>7. \A x \in Ids : /\ msg'[x] = IF x = id THEN m ELSE msg[x]
                     /\ depth'[x] = IF x = id THEN IF m.from = "user" THEN 0 ELSE 1
                                    ELSE depth[x]
    BY <1>1, <1>2 DEF Safe, TypeOK
<1>8. TypeOK'
    <2>1. msg' \in [Ids -> Message] /\ depth' \in [Ids -> Nat]
        BY <1>1, <1>4 DEF Safe, TypeOK
    <2>. QED  BY <1>1, <1>5, <2>1 DEF Safe, TypeOK
<1>9. ListInv'
    <2>1. \A x \in Ids : x \in Queued' <=> msg'[x].qtag # NoTag
        BY <1>2, <1>4, <1>6, <1>7 DEF Safe, ListInv, ListComplete
    <2>2. Queued' \subseteq Ids
        BY <1>2, <1>6 DEF Safe, ListInv, ListComplete
    <2>. QED  BY <1>1, <1>2, <1>5, <1>6, <2>1, <2>2 DEF Safe, ListInv, ListComplete
<1>10. SendsInv'
    <2>. SUFFICES ASSUME NEW x \in Ids
                  PROVE  /\ sends[x] <= msg'[x].retries
                         /\ max_retries > 0 => sends[x] <= max_retries
                         /\ x \notin Queued' \/ msg'[x].kind = "RESPONSE" => sends[x] = 0
        BY <1>1 DEF SendsInv, max_retries
    <2>1. /\ sends[x] \in Nat
          /\ sends[x] <= msg[x].retries
          /\ max_retries > 0 => sends[x] <= max_retries
          /\ x \notin Queued \/ msg[x].kind = "RESPONSE" => sends[x] = 0
        BY DEF Safe, TypeOK, SendsInv
    <2>. QED  BY <1>3, <1>4, <1>6, <1>7, <2>1
<1>11. DepthInv'
    <2>. SUFFICES ASSUME NEW x \in Ids
                  PROVE  /\ depth'[x] <= 1
                         /\ x \notin Queued' \/ msg'[x].from = "user" => depth'[x] = 0
        BY DEF DepthInv
    <2>1. depth[x] <= 1 /\ (x \notin Queued \/ msg[x].from = "user" => depth[x] = 0)
        BY DEF Safe, DepthInv
    <2>. QED  BY <1>6, <1>7, <2>1
<1>. QED  BY <1>2, <1>3, <1>6, <1>7, <1>8, <1>9, <1>10, <1>11 DEF Safe, m, id

LEMMA LoadRequestInv ==
    ASSUME RestartInv, LoadRequest
    PROVE  RestartInv'
<1>. USE DEF RestartInv
<1>. DEFINE id == file[pos].id
<1>1. /\ pos \in DOMAIN file /\ id \in Ids /\ id \notin Queued
      /\ Safe'
      /\ Queued' = Queued \cup {id}
      /\ \A x \in Ids : msg'[x] = IF x = id THEN Restored(file[pos].m) ELSE msg[x]
    BY LoadRequestQueue
<1>2. /\ phase = "load" /\ phase' = "load" /\ pos \in Nat /\ pos > 0 /\ pos' = pos + 1
      /\ file' = file /\ created' = created
      /\ time_sorted_list' = <<id>> \o time_sorted_list
    BY DEF LoadRequest, Reading, FileInv, LoadInv
<1>3. FileInv'
    BY <1>2 DEF FileInv
<1>4. DOMAIN file \subseteq Nat /\ Queued \subseteq Ids
    BY RecordFields, QueuedIsOld
<1>5. \A x \in Queued' :
          \E i \in DOMAIN file' : i < pos' /\ file'[i].id = x /\ msg'[x].due = file'[i].m.due
    <2>. SUFFICES ASSUME NEW x \in Queued'
                  PROVE  \E i \in DOMAIN file :
                             i < pos + 1 /\ file[i].id = x /\ msg'[x].due = file[i].m.due
        BY <1>2
    <2>1. CASE x = id
        <3>1. Restored(file[pos].m).due = file[pos].m.due
            BY <1>1, RecordFields, RestoredFields
        <3>. QED  BY <1>1, <1>2, <2>1, <3>1
    <2>2. CASE x # id
        <3>1. x \in Queued /\ msg'[x] = msg[x]
            BY <1>1, <1>4, <2>2
        <3>2. PICK i \in DOMAIN file : i < pos /\ file[i].id = x /\ msg[x].due = file[i].m.due
            BY <1>2, <3>1 DEF LoadInv
        <3>. QED  BY <1>2, <1>4, <3>1, <3>2
    <2>. QED  BY <2>1, <2>2
<1>6. ASSUME NEW k \in DOMAIN time_sorted_list', NEW l \in DOMAIN time_sorted_list',
             NEW i \in DOMAIN file, NEW j \in DOMAIN file, k < l,
             file[i].id = time_sorted_list'[k], file[j].id = time_sorted_list'[l]
      PROVE  j < i
    <2>. DEFINE q == time_sorted_list
    <2>1. q \in Seq(Ids) /\ Len(q) \in Nat /\ DOMAIN q = 1..Len(q)
        BY LenProperties DEF Safe, TypeOK
    <2>. HIDE DEF q, id
    <2>2. /\ DOMAIN time_sorted_list' = 1..(Len(q) + 1)
          /\ time_sorted_list'[1] = id
          /\ \A x \in 2..(Len(q) + 1) : time_sorted_list'[x] = q[x - 1]
        <3>1. <<id>> \in Seq(Ids) /\ Len(<<id>>) = 1 /\ <<id>>[1] = id
            BY <1>1
        <3>2. /\ time_sorted_list' \in Seq(Ids)
              /\ Len(time_sorted_list') = Len(q) + 1
              /\ \A x \in 1..(Len(q) + 1) :
                     time_sorted_list'[x] = IF x <= 1 THEN <<id>>[x] ELSE q[x - 1]
            BY <1>2, <2>1, <3>1, ConcatProperties DEF q
        <3>3. DOMAIN time_sorted_list' = 1..(Len(q) + 1)
            BY <3>2, LenProperties
        <3>4. 1 \in 1..(Len(q) + 1) /\ 1 <= 1
            BY <2>1
        <3>5. time_sorted_list'[1] = id
            BY <3>1, <3>2, <3>4
        <3>6. \A x \in 2..(Len(q) + 1) : x \in 1..(Len(q) + 1) /\ ~ (x <= 1)
            BY <2>1
        <3>. QED  BY <3>2, <3>3, <3>5, <3>6
    <2>3. l \in 2..(Len(q) + 1) /\ l - 1 \in DOMAIN q
        BY <1>6, <2>1, <2>2
    <2>4. file[j].id = q[l - 1]
        BY <1>6, <2>2, <2>3
    <2>5. j < pos
        <3>1. file[j].id \in Queued
            BY <2>3, <2>4 DEF q, Queued, ToSet
        <3>2. PICK y \in DOMAIN file : y < pos /\ file[y].id = file[j].id
            BY <1>2, <3>1 DEF LoadInv
        <3>. QED  BY <3>2 DEF FileInv
    <2>6. CASE k = 1
        <3>1. file[i].id = file[pos].id
            BY <1>6, <2>2, <2>6 DEF id
        <3>2. i = pos
            BY <1>1, <3>1 DEF FileInv
        <3>. QED  BY <2>5, <3>2
    <2>7. CASE k # 1
        <3>1. k \in 2..(Len(q) + 1) /\ k - 1 \in DOMAIN q /\ k - 1 < l - 1
            BY <1>6, <2>1, <2>2, <2>3, <2>7
        <3>2. file[i].id = q[k - 1]
            BY <1>6, <2>2, <3>1
        <3>. QED  BY <1>2, <2>3, <2>4, <3>1, <3>2 DEF LoadInv, q
    <2>. QED  BY <2>6, <2>7
<1>7. LoadInv'
    <2>1. pos' > 0
        BY <1>2
    <2>2. \A k, l \in DOMAIN time_sorted_list' : \A i, j \in DOMAIN file' :
              /\ k < l
              /\ file'[i].id = time_sorted_list'[k]
              /\ file'[j].id = time_sorted_list'[l]
              => j < i
        BY <1>2, <1>6
    <2>. QED  BY <1>5, <2>1, <2>2 DEF LoadInv
<1>. QED  BY <1>1, <1>2, <1>3, <1>7 DEF SaveInv, StopInv, DownInv

LEMMA LoadBadInv ==
    ASSUME RestartInv, LoadBad
    PROVE  RestartInv'
<1>. USE DEF RestartInv
<1>1. /\ Safe' /\ UNCHANGED <<time_sorted_list, msg, created, file>>
      /\ phase = "load" /\ phase' = "load" /\ pos \in Nat /\ pos' = pos + 1
    BY SafeStays DEF LoadBad, Reading, vars, FileInv
<1>2. FileInv'
    BY <1>1 DEF FileInv
<1>3. DOMAIN file \subseteq Nat
    BY RecordFields
<1>4. LoadInv'
    <2>1. pos' > 0 /\ \A i \in DOMAIN file : i < pos => i < pos'
        BY <1>1, <1>3
    <2>2. Queued' = Queued
        BY <1>1 DEF Queued
    <2>. QED  BY <1>1, <2>1, <2>2 DEF LoadInv
<1>. QED  BY <1>1, <1>2, <1>4 DEF SaveInv, StopInv, DownInv

LEMMA LoadEndsInv ==
    ASSUME RestartInv, LoadEnds
    PROVE  RestartInv'
<1>. USE DEF RestartInv
<1>1. Safe' /\ UNCHANGED <<created, file, pos>> /\ phase' = "serve"
    BY SafeStays DEF LoadEnds, vars
<1>2. FileInv'
    BY <1>1 DEF FileInv
<1>. QED  BY <1>1, <1>2 DEF SaveInv, StopInv, DownInv, LoadInv

--------------------------------------------------------------------------------
(* The theorems *)

LEMMA RestartStep ==
    ASSUME RestartInv, [RestartNext]_allVars
    PROVE  RestartInv'
<1>1. ASSUME UNCHANGED allVars PROVE RestartInv'
    <2>1. Safe' /\ UNCHANGED <<time_sorted_list, msg, created, file, pos, phase>>
        BY <1>1, SafeStays DEF RestartInv, allVars, vars, restartVars
    <2>2. Queued' = Queued
        BY <2>1 DEF Queued
    <2>. QED  BY <2>1, <2>2 DEF RestartInv, FileInv, SaveInv, StopInv, DownInv, LoadInv
<1>. QED  BY <1>1, ServeInv, SaveBeginsInv, SaveHeaderInv, SaveTextInv, SaveEndsInv,
             EndsInv, StartInv, LoadRequestInv, LoadBadInv, LoadEndsInv
          DEF RestartNext, Save, Stop, Crash, Load

LEMMA RestartInitInv == RestartInit => RestartInv
<1>. SUFFICES ASSUME RestartInit PROVE RestartInv
    OBVIOUS
<1>1. Safe
    BY InitSafe DEF RestartInit
<1>2. file = << >> /\ DOMAIN file = {} /\ file \in Seq(Record) /\ pos = 0 /\ phase = "serve"
    BY EmptySeq DEF RestartInit
<1>. QED  BY <1>1, <1>2 DEF RestartInv, FileInv, SaveInv, StopInv, DownInv, LoadInv

LEMMA RestartInvariant == RestartSpec => []RestartInv
<1>1. RestartInv /\ [RestartNext]_allVars => RestartInv'
    BY RestartStep
<1>. QED  BY <1>1, RestartInitInv, PTL DEF RestartSpec

\* Crashes, saves and loads leave the list as the handlers expect it: it is complete and
\* has no message twice, and the limits on sends and on bounces hold.
THEOREM SafeAfterRestart == RestartSpec => []Safe
<1>1. RestartInv => Safe
    BY DEF RestartInv
<1>. QED  BY <1>1, RestartInvariant, PTL

\* What was in order when it was saved is in order when it has been read.
THEOREM OrderedAfterRestart == RestartSpec => []ReloadedInOrder
<1>1. RestartInv => ReloadedInOrder
    <2>. USE DEF RestartInv
    <2>. SUFFICES ASSUME RestartInv, phase = "load", FileSorted,
                         NEW k \in DOMAIN time_sorted_list,
                         NEW l \in DOMAIN time_sorted_list, k < l
                  PROVE  ~Later(time_sorted_list[k], time_sorted_list[l])
        BY DEF ReloadedInOrder, Sorted
    <2>1. time_sorted_list[k] \in Queued /\ time_sorted_list[l] \in Queued
        BY DEF Queued, ToSet
    <2>2. PICK i \in DOMAIN file : /\ file[i].id = time_sorted_list[k]
                                   /\ msg[time_sorted_list[k]].due = file[i].m.due
        BY <2>1 DEF LoadInv
    <2>3. PICK j \in DOMAIN file : /\ file[j].id = time_sorted_list[l]
                                   /\ msg[time_sorted_list[l]].due = file[j].m.due
        BY <2>1 DEF LoadInv
    <2>4. j < i
        BY <2>2, <2>3 DEF LoadInv
    <2>5. file[i].m.due > 0 => file[i].m.due <= file[j].m.due
        BY <2>4 DEF FileSorted
    <2>6. file[i].m.due \in Int /\ file[j].m.due \in Int
        BY RecordFields DEF Message
    <2>. QED  BY <2>2, <2>3, <2>5, <2>6 DEF Later
<1>. QED  BY <1>1, RestartInvariant, PTL

\* What a step may do to a request that the queue has, or will have again.
Lasts(id) ==
    \/ id \in Kept'
    \/ Crash
    \/ id \in Queued /\ msg[id].state \in {"NO_STATE", "DELETE_ME_STATE"}
    \/ msg[id].qtag \in acked'

LEMMA ServeLasts ==
    ASSUME RestartInv, Serve, NEW id \in Kept
    PROVE  Lasts(id)
<1>1. id \in Queued /\ msg[id].kind # "RESPONSE" /\ phase' = "serve"
    BY DEF Serve, Kept
<1>2. \/ id \in Queued' /\ msg'[id].kind = msg[id].kind
      \/ msg[id].state \in {"NO_STATE", "DELETE_ME_STATE"}
      \/ msg[id].qtag \in acked'
    BY <1>1, LeavesStep DEF Serve, RestartInv
<1>. QED  BY <1>1, <1>2 DEF Lasts, Kept

LEMMA StopLasts ==
    ASSUME RestartInv, Stop, NEW id \in Kept
    PROVE  Lasts(id)
<1>1. id \in Queued /\ msg[id].kind # "RESPONSE" /\ phase = "stop"
    BY DEF Stop, Kept
<1>2. PICK i \in DOMAIN file :
          file[i].id = id /\ file[i].whole /\ file[i].m.kind = msg[id].kind
    BY <1>1 DEF RestartInv, StopInv
<1>3. phase' = "down" /\ file' = file
    BY DEF Stop, Ends
<1>4. i \in ToBeRead'
    BY <1>2, <1>3 DEF ToBeRead
<1>. QED  BY <1>1, <1>2, <1>3, <1>4 DEF Lasts, Kept

\* No message is lost but in a crash: it is handled until it is done, saved when the
\* process stops, and in the list again when the next one has read the file.
THEOREM NothingLostAtRestart == RestartSpec => SurvivesRestart
<1>1. ASSUME RestartInv, [RestartNext]_allVars, NEW id \in Kept
      PROVE  Lasts(id)
    <2>. USE DEF RestartInv
    <2>1. CASE Save \/ UNCHANGED allVars
        <3>1. UNCHANGED <<time_sorted_list, msg>>
            BY <2>1 DEF Save, SaveBegins, SaveHeader, SaveText, SaveEnds, allVars, vars
        <3>2. \/ phase \in {"serve", "save"} /\ phase' \in {"serve", "save", "stop"}
              \/ UNCHANGED <<file, pos, phase>>
            BY <2>1 DEF Save, SaveBegins, SaveHeader, SaveText, SaveEnds, allVars,
                        restartVars
        <3>. QED  BY <1>1, <3>1, <3>2 DEF Lasts, Kept, Queued, ToBeRead
    <2>2. CASE Start
        <3>1. /\ UNCHANGED <<time_sorted_list, msg, file>>
              /\ phase = "down" /\ phase' = "load" /\ pos' = 1
            BY <2>2 DEF Start, vars
        <3>2. \A i \in DOMAIN file : i >= 1
            BY <1>1, RecordFields
        <3>3. ToBeRead' = ToBeRead
            BY <3>1, <3>2 DEF ToBeRead
        <3>. QED  BY <1>1, <3>1, <3>3 DEF Lasts, Kept, Queued
    <2>3. CASE LoadRequest
        <3>. DEFINE new == file[pos].id
        <3>1. /\ pos \in DOMAIN file /\ new \in Ids /\ new \notin Queued
              /\ Queued' = Queued \cup {new}
              /\ \A x \in Ids : msg'[x] = IF x = new THEN Restored(file[pos].m) ELSE msg[x]
            BY <1>1, <2>3, LoadRequestQueue
        <3>2. /\ phase = "load" /\ phase' = "load" /\ file' = file /\ pos' = pos + 1
              /\ file[pos].m.kind # "RESPONSE" /\ pos \in Nat
            BY <1>1, <2>3 DEF LoadRequest, Reading, FileInv
        <3>3. CASE id \in Queued /\ msg[id].kind # "RESPONSE"
            <4>1. msg'[id] = msg[id]
                BY <1>1, <3>1, <3>3, QueuedIsOld
            <4>. QED  BY <3>1, <3>3, <4>1 DEF Lasts, Kept
        <3>4. CASE \E i \in ToBeRead : file[i].m.kind # "RESPONSE" /\ file[i].id = id
            <4>1. PICK i \in DOMAIN file : /\ file[i].whole /\ i >= pos
                                           /\ file[i].m.kind # "RESPONSE" /\ file[i].id = id
                BY <3>2, <3>4 DEF ToBeRead
            <4>2. CASE i = pos
                <5>1. Restored(file[pos].m).kind = file[pos].m.kind
                    BY <1>1, <3>1, RecordFields, RestoredFields
                <5>. QED  BY <3>1, <3>2, <4>1, <4>2, <5>1 DEF Lasts, Kept
            <4>3. CASE i # pos
                <5>1. i \in Nat
                    BY <1>1, RecordFields
                <5>2. i \in ToBeRead'
                    BY <3>2, <4>1, <4>3, <5>1 DEF ToBeRead
                <5>. QED  BY <3>2, <4>1, <5>2 DEF Lasts, Kept
            <4>. QED  BY <4>2, <4>3
        <3>. QED  BY <1>1, <3>2, <3>3, <3>4 DEF Kept
    <2>4. CASE LoadBad
        <3>1. /\ UNCHANGED <<time_sorted_list, msg, file>> /\ pos' = pos + 1 /\ pos \in Nat
              /\ phase = "load" /\ phase' = "load"
              /\ ~file[pos].whole \/ file[pos].m.kind = "RESPONSE"
            BY <1>1, <2>4 DEF LoadBad, Reading, vars, FileInv
        <3>2. DOMAIN file \subseteq Nat
            BY <1>1, RecordFields
        <3>3. \A i \in ToBeRead : file[i].m.kind # "RESPONSE" => i \in ToBeRead'
            BY <3>1, <3>2 DEF ToBeRead
        <3>. QED  BY <1>1, <3>1, <3>3 DEF Lasts, Kept, Queued
    <2>5. CASE LoadEnds
        <3>1. /\ UNCHANGED <<time_sorted_list, msg>> /\ phase = "load" /\ phase' = "serve"
              /\ pos > Len(file) /\ pos \in Nat
            BY <1>1, <2>5 DEF LoadEnds, vars, FileInv
        <3>2. ToBeRead = {}
            BY <1>1, <3>1, RecordFields DEF ToBeRead
        <3>. QED  BY <1>1, <3>1, <3>2 DEF Lasts, Kept, Queued
    <2>. QED  BY <1>1, <2>1, <2>2, <2>3, <2>4, <2>5, ServeLasts, StopLasts
              DEF RestartNext, Load, Lasts
<1>2. RestartInv /\ [RestartNext]_allVars =>
          [\A id \in Kept \ Kept' :
               \/ Crash
               \/ id \in Queued /\ msg[id].state \in {"NO_STATE", "DELETE_ME_STATE"}
               \/ msg[id].qtag \in acked']_allVars
    BY <1>1 DEF Lasts
<1>. QED  BY <1>2, RestartInvariant, PTL DEF RestartSpec, SurvivesRestart

--------------------------------------------------------------------------------
(* The registry of the subscribers *)

InMem == [ipaddr : Addresses, dirty : BOOLEAN]

RegType ==
    /\ disk \in Seq(Rows)
    /\ mem \in [Users -> InMem \cup {Absent}]

\* Between the statement that saves the dirty rows and the one that marks them clean, every row
\* of a dirty user has what is in memory, or was added since.
SavedInv ==
    sync = "clean" =>
        \A i \in DOMAIN disk : LET u == disk[i].username IN
            u \in Dirty => disk[i].ipaddr \in {mem[u].ipaddr, Local}

RegInv == RegType /\ SavedInv

\* The first of the rows of a user is one of them, and no other is before it.
LEMMA FirstRow ==
    ASSUME NEW rows \in Seq(Rows), NEW u, NEW k \in DOMAIN rows, rows[k].username = u
    PROVE  /\ FirstOf(rows, u) \in DOMAIN rows
           /\ rows[FirstOf(rows, u)].username = u
           /\ \A j \in 1..(FirstOf(rows, u) - 1) : rows[j].username # u
<1> DEFINE T == {i \in DOMAIN rows : rows[i].username = u}
<1>1. DOMAIN rows = 1..Len(rows) /\ Len(rows) \in Nat
    OBVIOUS
<1>2. PICK i \in T : \A j \in T : i <= j
    <2>1. T # {} /\ T \subseteq Nat
        BY <1>1
    <2> HIDE DEF T
    <2> QED BY <2>1, LeastNatural
<1>3. i \in DOMAIN rows /\ rows[i].username = u
    BY <1>2
<1>4. \A j \in 1..(i - 1) : rows[j].username # u
    <2> SUFFICES ASSUME NEW j \in 1..(i - 1), rows[j].username = u PROVE FALSE
        OBVIOUS
    <2>1. j \in T
        BY <1>1, <1>3
    <2> QED BY <2>1, <1>1, <1>2
<1> HIDE DEF T
<1> QED BY <1>3, <1>4 DEF FirstOf

\* It is found whatever rows come behind it, and whatever else the rows have.
LEMMA FirstRowStays ==
    ASSUME NEW rows \in Seq(Rows), NEW others \in Seq(Rows), NEW u,
           NEW k \in DOMAIN rows, rows[k].username = u,
           DOMAIN rows \subseteq DOMAIN others,
           \A i \in DOMAIN rows : others[i].username = rows[i].username
    PROVE  FirstOf(others, u) = FirstOf(rows, u)
<1> DEFINE f == FirstOf(rows, u)
           g == FirstOf(others, u)
<1>1. f \in DOMAIN rows /\ rows[f].username = u /\ \A j \in 1..(f - 1) : rows[j].username # u
    BY FirstRow
<1>2. g \in DOMAIN others /\ others[g].username = u /\ \A j \in 1..(g - 1) : others[j].username # u
    <2>1. k \in DOMAIN others /\ others[k].username = u
        OBVIOUS
    <2> QED BY <2>1, FirstRow
<1> HIDE DEF f, g
<1>3. DOMAIN rows = 1..Len(rows) /\ DOMAIN others = 1..Len(others)
    /\ Len(rows) \in Nat /\ Len(others) \in Nat
    OBVIOUS
<1>4. ~(f < g)
    BY <1>1, <1>2, <1>3
<1>5. ~(g < f)
    <2> SUFFICES ASSUME g < f PROVE FALSE
        OBVIOUS
    <2>1. g \in 1..(f - 1) /\ g \in DOMAIN rows
        BY <1>1, <1>2, <1>3
    <2> QED BY <2>1, <1>1, <1>2
<1>6. f \in Nat /\ g \in Nat
    BY <1>1, <1>2, <1>3
<1>7. f = g
    BY <1>4, <1>5, <1>6
<1> QED BY <1>7 DEF f, g

\* imsiGet finds the address of one of the rows.
LEMMA ImsiGetIsOfARow ==
    ASSUME disk \in Seq(Rows), NEW u \in OnDisk
    PROVE  /\ \E i \in DOMAIN disk : disk[i].username = u /\ ImsiGet(u) = disk[i].ipaddr
           /\ ImsiGet(u) \in Addresses
<1>1. PICK k \in DOMAIN disk : disk[k].username = u
    BY DEF OnDisk
<1> DEFINE f == FirstOf(disk, u)
<1>2. f \in DOMAIN disk /\ disk[f].username = u
    BY <1>1, FirstRow
<1>3. ImsiGet(u) = disk[f].ipaddr
    BY DEF ImsiGet
<1> HIDE DEF f
<1>4. disk[f].ipaddr \in Addresses
    <2>1. disk[f] \in Rows
        BY <1>2
    <2> QED BY <2>1 DEF Rows
<1> QED BY <1>2, <1>3, <1>4

--------------------------------------------------------------------------------

LEMMA LoadedType ==
    ASSUME RegType, NEW missing \in SUBSET OnDisk
    PROVE  Loaded(missing) \in [Users -> InMem \cup {Absent}]
<1>1. \A u \in missing : ImsiGet(u) \in Addresses
    BY ImsiGetIsOfARow DEF RegType
<1> QED BY <1>1 DEF RegType, InMem, Loaded

\* The rows that ToDisk leaves.
LEMMA ToDiskSaves ==
    ASSUME RegType, ToDisk
    PROVE  /\ disk' \in Seq(Rows)
           /\ DOMAIN disk' = DOMAIN disk
           /\ \A i \in DOMAIN disk :
                 /\ disk'[i].username = disk[i].username
                 /\ disk'[i].ipaddr = IF disk[i].username \in Dirty
                                      THEN mem[disk[i].username].ipaddr ELSE disk[i].ipaddr
<1>1. \A i \in DOMAIN disk : disk[i] \in Rows
    BY DEF RegType
<1>2. \A u \in Dirty : mem[u].ipaddr \in Addresses
    BY DEF RegType, Dirty, InMemory, InMem
<1>3. \A i \in DOMAIN disk :
         /\ disk'[i] \in Rows
         /\ disk'[i].username = disk[i].username
         /\ disk'[i].ipaddr = IF disk[i].username \in Dirty
                              THEN mem[disk[i].username].ipaddr ELSE disk[i].ipaddr
    <2> SUFFICES ASSUME NEW i \in DOMAIN disk
                 PROVE  /\ disk'[i] \in Rows
                        /\ disk'[i].username = disk[i].username
                        /\ disk'[i].ipaddr = IF disk[i].username \in Dirty
                                             THEN mem[disk[i].username].ipaddr ELSE disk[i].ipaddr
        OBVIOUS
    <2> DEFINE row == disk[i]
    <2>1. row \in [username : Users, ipaddr : Addresses]
        BY <1>1 DEF Rows
    <2>2. disk'[i] = IF row.username \in Dirty THEN [row EXCEPT !.ipaddr = mem[row.username].ipaddr]
                     ELSE row
        BY DEF ToDisk
    <2> HIDE DEF row
    <2>3. CASE row.username \in Dirty
        BY <2>1, <2>2, <2>3, <1>2 DEF Rows, row
    <2>4. CASE row.username \notin Dirty
        BY <2>1, <2>2, <2>4 DEF Rows, row
    <2> QED BY <2>3, <2>4
<1>4. DOMAIN disk' = DOMAIN disk /\ DOMAIN disk = 1..Len(disk) /\ Len(disk) \in Nat
    BY DEF ToDisk, RegType
<1>5. disk' \in Seq(Rows)
    <2>1. disk' = [i \in 1..Len(disk) |-> disk'[i]]
        BY <1>4 DEF ToDisk
    <2>2. \A i \in 1..Len(disk) : disk'[i] \in Rows
        BY <1>3, <1>4
    <2> QED BY <2>1, <2>2, <1>4
<1> QED BY <1>3, <1>4, <1>5

\* The rows that are left when a user is deleted.
LEMMA DeleteLeaves ==
    ASSUME RegType, NEW u \in Users, DeleteUser(u)
    PROVE  /\ disk' \in Seq(Rows)
           /\ \A i \in DOMAIN disk' : \E j \in DOMAIN disk : disk'[i] = disk[j]
<1> DEFINE others == {i \in DOMAIN disk : disk[i].username # u}
<1>1. DOMAIN disk = 1..Len(disk) /\ Len(disk) \in Nat /\ \A i \in DOMAIN disk : disk[i] \in Rows
    BY DEF RegType
<1>2. Cardinality(others) \in Nat
    <2>1. IsFiniteSet(1..Len(disk))
        BY <1>1, FS_Interval
    <2>2. others \subseteq 1..Len(disk)
        BY <1>1
    <2> HIDE DEF others
    <2>3. IsFiniteSet(others)
        BY <2>1, <2>2, FS_Subset
    <2> QED BY <2>3, FS_CardinalityType
<1>3. PICK row \in [1..Cardinality(others) -> others] : disk' = [k \in DOMAIN row |-> disk[row[k]]]
    BY DEF DeleteUser
<1>4. \A k \in 1..Cardinality(others) : row[k] \in DOMAIN disk
    BY <1>3
<1> HIDE DEF others
<1>5. disk' = [k \in 1..Cardinality(others) |-> disk[row[k]]]
    BY <1>3
<1>6. disk' \in Seq(Rows)
    BY <1>1, <1>2, <1>4, <1>5
<1> QED BY <1>4, <1>5, <1>6

\* Where no row changes but in its address, everyone is found where he was.
LEMMA SyncMoves ==
    ASSUME RegType, SavedInv, SyncSteps, NEW u \in Users
    PROVE  Found(u)' = Found(u) \/ (sync = "clean" /\ Found(u)' = Local)
<1>1. CASE UNCHANGED <<disk, mem>>
    BY <1>1 DEF Found, OnDisk, Dirty, InMemory, ImsiGet
<1>2. CASE ToDisk
    <2>1. /\ disk' \in Seq(Rows)
          /\ DOMAIN disk' = DOMAIN disk
          /\ \A i \in DOMAIN disk :
                /\ disk'[i].username = disk[i].username
                /\ disk'[i].ipaddr = IF disk[i].username \in Dirty
                                     THEN mem[disk[i].username].ipaddr ELSE disk[i].ipaddr
        BY <1>2, ToDiskSaves
    <2>2. OnDisk' = OnDisk
        BY <2>1 DEF OnDisk
    <2>3. mem' = mem /\ Dirty' = Dirty
        BY <1>2 DEF ToDisk, Dirty, InMemory
    <2>4. CASE u \in OnDisk \ Dirty
        <3>1. PICK k \in DOMAIN disk : disk[k].username = u
            BY <2>4 DEF OnDisk
        <3> DEFINE f == FirstOf(disk, u)
        <3>2. f \in DOMAIN disk /\ disk[f].username = u
            BY <3>1, FirstRow DEF RegType
        <3>3. ImsiGet(u)' = disk'[f].ipaddr
            <4>1. FirstOf(disk', u) = f
                BY <2>1, <3>1, FirstRowStays DEF RegType
            <4> QED BY <4>1, <2>2, <2>4 DEF ImsiGet
        <3>4. ImsiGet(u) = disk[f].ipaddr
            BY <2>4 DEF ImsiGet
        <3> HIDE DEF f
        <3>5. ImsiGet(u)' = ImsiGet(u)
            BY <2>1, <2>4, <3>2, <3>3, <3>4
        <3> QED BY <2>2, <2>3, <2>4, <3>5 DEF Found
    <2>5. CASE u \notin OnDisk \ Dirty
        BY <2>2, <2>3, <2>5 DEF Found
    <2> QED BY <2>4, <2>5
<1>3. CASE Clean
    <2>1. disk' = disk /\ OnDisk' = OnDisk /\ ImsiGet(u)' = ImsiGet(u) /\ sync = "clean"
        BY <1>3 DEF Clean, OnDisk, ImsiGet
    <2>2. CASE UNCHANGED mem
        BY <2>2, <2>1, <1>1
    <2>3. CASE mem' = [v \in Users |-> IF mem[v] = Absent THEN Absent ELSE [mem[v] EXCEPT !.dirty = FALSE]]
        <3>1. u \notin Dirty'
            <4>1. CASE mem[u] = Absent
                BY <2>3, <4>1 DEF Dirty, InMemory
            <4>2. CASE mem[u] # Absent
                <5>1. mem[u] \in InMem
                    BY <4>2 DEF RegType
                <5>2. mem'[u].dirty = FALSE
                    BY <2>3, <4>2, <5>1 DEF InMem
                <5> QED BY <5>2 DEF Dirty
            <4> QED BY <4>1, <4>2
        <3>2. CASE u \in Dirty /\ u \in OnDisk
            <4>1. PICK i \in DOMAIN disk : disk[i].username = u /\ ImsiGet(u) = disk[i].ipaddr
                BY <3>2, ImsiGetIsOfARow DEF RegType
            <4>2. ImsiGet(u) \in {mem[u].ipaddr, Local}
                BY <2>1, <3>2, <4>1 DEF SavedInv
            <4> QED BY <2>1, <3>1, <3>2, <4>2 DEF Found
        <3>3. CASE ~(u \in Dirty /\ u \in OnDisk)
            BY <2>1, <3>1, <3>3 DEF Found
        <3> QED BY <3>2, <3>3
    <2> QED BY <1>3, <2>2, <2>3 DEF Clean
<1>4. CASE Add
    <2>1. disk' = disk /\ OnDisk' = OnDisk /\ ImsiGet(u)' = ImsiGet(u) /\ mem' = Loaded(Missing)
        BY <1>4 DEF Add, OnDisk, ImsiGet
    <2>2. CASE u \in Missing
        <3>1. u \notin Dirty /\ u \notin Dirty'
            BY <2>1, <2>2 DEF Missing, Dirty, InMemory, Loaded
        <3> QED BY <2>1, <3>1 DEF Found
    <2>3. CASE u \notin Missing
        <3>1. mem'[u] = mem[u]
            BY <2>1, <2>3 DEF Loaded
        <3> QED BY <2>1, <3>1 DEF Found, Dirty, InMemory
    <2> QED BY <2>2, <2>3
<1>5. CASE Prune
    <2>1. disk' = disk /\ OnDisk' = OnDisk /\ ImsiGet(u)' = ImsiGet(u)
        BY <1>5 DEF Prune, OnDisk, ImsiGet
    <2>2. u \in OnDisk => mem'[u] = mem[u]
        BY <1>5 DEF Prune
    <2> QED BY <2>1, <2>2 DEF Found, Dirty, InMemory
<1> QED
    BY <1>1, <1>2, <1>3, <1>4, <1>5
    DEF SyncSteps, Generate, GenerateFails, ToDiskFails, AddFails, PruneFails

--------------------------------------------------------------------------------

LEMMA RegStep ==
    ASSUME RegInv, [RegNext]_regVars
    PROVE  RegInv'
<1> USE DEF RegInv
<1>1. CASE UNCHANGED regVars
    BY <1>1 DEF regVars, RegType, SavedInv, Dirty, InMemory
<1>2. CASE Open
    <2>1. OnDisk \in SUBSET OnDisk
        OBVIOUS
    <2>2. mem' \in [Users -> InMem \cup {Absent}]
        BY <1>2, <2>1, LoadedType DEF Open, RegType
    <2>3. disk' = disk /\ sync' = sync
        BY <1>2 DEF Open
    <2>4. SavedInv'
        <3> SUFFICES ASSUME sync = "clean", NEW i \in DOMAIN disk, disk[i].username \in Dirty'
                     PROVE  disk[i].ipaddr \in {mem'[disk[i].username].ipaddr, Local}
            BY <2>3 DEF SavedInv
        <3> DEFINE u == disk[i].username
        <3>1. u \in OnDisk /\ u \in Users
            <4>1. disk[i] \in Rows
                BY DEF RegType
            <4> QED BY <4>1 DEF OnDisk, Rows
        <3>2. mem' = mem \/ mem'[u].dirty = FALSE
            BY <1>2, <3>1 DEF Open, Loaded
        <3>3. mem' = mem /\ u \in Dirty
            BY <3>2 DEF Dirty, InMemory
        <3> QED BY <3>3 DEF SavedInv
    <2> QED BY <2>2, <2>3, <2>4 DEF RegType
<1>3. CASE Exit
    BY <1>3 DEF Exit, RegType, SavedInv
<1>4. CASE ToDisk
    <2>1. /\ disk' \in Seq(Rows)
          /\ DOMAIN disk' = DOMAIN disk
          /\ \A i \in DOMAIN disk :
                /\ disk'[i].username = disk[i].username
                /\ disk'[i].ipaddr = IF disk[i].username \in Dirty
                                     THEN mem[disk[i].username].ipaddr ELSE disk[i].ipaddr
        BY <1>4, ToDiskSaves
    <2>2. mem' = mem /\ Dirty' = Dirty
        BY <1>4 DEF ToDisk, Dirty, InMemory
    <2> QED BY <2>1, <2>2 DEF RegType, SavedInv
<1>5. CASE Clean
    <2>1. disk' = disk /\ sync' = "add"
        BY <1>5 DEF Clean
    <2>2. mem' \in [Users -> InMem \cup {Absent}]
        BY <1>5 DEF Clean, RegType, InMem
    <2> QED BY <2>1, <2>2 DEF RegType, SavedInv
<1>6. CASE Add
    <2>1. Missing \in SUBSET OnDisk
        BY DEF Missing
    <2>2. mem' \in [Users -> InMem \cup {Absent}]
        BY <1>6, <2>1, LoadedType DEF Add
    <2> QED BY <1>6, <2>2 DEF Add, RegType, SavedInv
<1>7. CASE Prune
    BY <1>7 DEF Prune, RegType, SavedInv
<1>8. CASE Generate \/ GenerateFails \/ ToDiskFails \/ AddFails \/ PruneFails
    <2>1. mem' = mem /\ disk' = disk /\ sync' # "clean"
        BY <1>8 DEF Generate, GenerateFails, ToDiskFails, AddFails, PruneFails
    <2> QED BY <2>1 DEF RegType, SavedInv
<1>9. ASSUME NEW u \in Users, AddUser(u)
      PROVE  RegInv'
    <2> DEFINE new == [username |-> u, ipaddr |-> Local]
    <2>1. disk' = Append(disk, new) /\ mem' = mem /\ sync' = sync
        BY <1>9 DEF AddUser
    <2>2. new \in Rows
        BY RegistryAssumption DEF Rows
    <2>3. disk' \in Seq(Rows)
        BY <2>1, <2>2 DEF RegType
    <2>4. \A i \in DOMAIN disk' : (i \in DOMAIN disk /\ disk'[i] = disk[i]) \/ disk'[i].ipaddr = Local
        <3> SUFFICES ASSUME NEW i \in DOMAIN disk'
                     PROVE  (i \in DOMAIN disk /\ disk'[i] = disk[i]) \/ disk'[i].ipaddr = Local
            OBVIOUS
        <3>1. i = Len(disk) + 1 \/ i \in 1..Len(disk)
            BY <2>1 DEF RegType
        <3>2. CASE i = Len(disk) + 1
            BY <2>1, <3>2 DEF RegType
        <3>3. CASE i \in 1..Len(disk)
            BY <2>1, <3>3 DEF RegType
        <3> QED BY <3>1, <3>2, <3>3
    <2>5. Dirty' = Dirty
        BY <2>1 DEF Dirty, InMemory
    <2> HIDE DEF new
    <2> QED BY <2>1, <2>3, <2>4, <2>5 DEF RegType, SavedInv
<1>10. ASSUME NEW u \in Users, DeleteUser(u)
       PROVE  RegInv'
    <2>1. disk' \in Seq(Rows) /\ \A i \in DOMAIN disk' : \E j \in DOMAIN disk : disk'[i] = disk[j]
        BY <1>10, DeleteLeaves
    <2>2. mem' = mem /\ sync' = sync /\ Dirty' = Dirty
        BY <1>10 DEF DeleteUser, Dirty, InMemory
    <2> QED BY <2>1, <2>2 DEF RegType, SavedInv
<1>11. ASSUME NEW u \in Users, NEW a \in Addresses, ProcessRegister(u, a)
       PROVE  RegInv'
    <2>1. disk' = disk /\ sync' = sync /\ sync # "clean"
        BY <1>11 DEF ProcessRegister, ImsiSet, Locked
    <2>2. mem' \in [Users -> InMem \cup {Absent}]
        BY <1>11 DEF ProcessRegister, ImsiSet, RegType, InMem
    <2> QED BY <2>1, <2>2 DEF RegType, SavedInv
<1> QED
    BY <1>1, <1>2, <1>3, <1>4, <1>5, <1>6, <1>7, <1>8, <1>9, <1>10, <1>11 DEF RegNext, SyncSteps

\* The invariant of the registry: its types, and between saving and cleaning no dirty user has
\* a row on disk with another address than the one in memory, or Local.
THEOREM RegistryCorrect == RegSpec => []RegInv
<1>1. RegInit => RegInv
    BY DEF RegInit, RegInv, RegType, SavedInv
<1> QED BY <1>1, RegStep, PTL DEF RegSpec

\* No statement of a sync, refused or not, changes or forgets the address of a subscriber
\* (syncMemoryDB), for any number of subscribers, rows and other processes.
THEOREM SyncsKeepAddresses == RegSpec => SyncKeepsAddresses
<1>1. RegInv /\ [RegNext]_regVars =>
         [SyncSteps => \A u \in Users :
             Found(u)' = Found(u) \/ (sync = "clean" /\ Found(u)' = Local)]_regVars
    BY SyncMoves DEF RegInv
<1> QED BY <1>1, RegistryCorrect, PTL DEF RegSpec, SyncKeepsAddresses
================================================================================
