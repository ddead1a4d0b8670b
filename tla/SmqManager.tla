------------------------------ MODULE SmqManager ------------------------------
(***************************************************************************)
(* The store-and-forward queue of SmqManager: time_sorted_list, the        *)
(* short messages in it, and the handlers that move a message through its  *)
(* states (smqmanager.h, smqmanager.cpp, shortmsgpending.cpp).             *)
(*                                                                         *)
(* Every handler runs under sortedListMutex, from process_timeout or from  *)
(* insert_new_message, so a handler is one step.  What a handler asks of   *)
(* the HLR, of the SIP library and of the peers is a choice of the step.   *)
(* Datagrams may be lost, delayed, duplicated and reordered: a response    *)
(* may arrive at any time after a send, any number of times, or never.     *)
(*                                                                         *)
(* Time is relative: msg[id].due is next_action_time - msgettime(), counted *)
(* down by Tick.                                                           *)
(***************************************************************************)
EXTENDS SmqTimeouts, TimeSortedList

CONSTANTS
    MaxMsgs,          \* bound: messages ever entered into the list
    MaxLate,          \* bound: how late a message is remembered to be, in ticks
    Retires,          \* the value of the configuration key "max_retires" ...
    Unset,            \* ... or this value when the file lacks the key
    RequestKinds,     \* methods of the incoming requests
    Statuses,         \* classes of the incoming responses' status codes
    ShortCodeActions, \* what the functions in short_code_map may ask for
    FreshTags,        \* TRUE: no two requests have the same qtag
    SerialResponses   \* TRUE: no response arrives while one to the same tag is queued

Ids == 1..MaxMsgs
NoTag == 0
Tags == Ids \cup {NoTag}

AllStatuses == {"1xx", "2xx", "3xx", "480", "4xx", "5xx", "6xx", "other"}
AllShortCodeActions ==
    {"REPLY", "INTERNAL_ERROR", "QUIT_SMQUEUE", "DONE", "RETRY_AFTER_DELAY",
     "AWAIT_REGISTER", "REGISTER", "RESTART_PROCESSING"}

ASSUME ManagerAssumption ==
    /\ MaxMsgs \in Nat
    /\ MaxLate \in Nat
    /\ Retires \in Nat \cup {Unset}
    /\ Unset \notin Nat
    /\ RequestKinds \subseteq {"MESSAGE", "OTHER"}
    /\ Statuses \subseteq AllStatuses
    /\ ShortCodeActions \subseteq AllShortCodeActions
    /\ FreshTags \in BOOLEAN
    /\ SerialResponses \in BOOLEAN

\* The retry limit, and the rate limit, which reads the same key.
max_retries == IF Retires = Unset THEN 3 ELSE Retires
msSMSRateLimit == IF Retires = Unset THEN 0 ELSE Retires * Ticks[1000]

VARIABLES
    time_sorted_list,  \* the list, front first
    msg,               \* the message behind an identifier
    created,           \* the number of messages entered so far
    sent,              \* <<qtag, From>> of every datagram sent
    elapsed,           \* spacingTimer.elapsed(), up to just above the rate limit
    mode,              \* "run", "stopped" by a short code, or "crashed"
    sends,             \* history: datagrams sent for a queued message
    waited,            \* history: ticks since the last of them to where the message
                       \* goes now, up to ResendGap
    depth,             \* history: 1 + depth of the message a bounce answers
    acked              \* history: the qtags whose 2xx has been handled

history == <<sends, waited, depth, acked>>
vars == <<time_sorted_list, msg, created, sent, elapsed, mode,
          sends, waited, depth, acked>>

--------------------------------------------------------------------------------
(* Messages *)

Message ==
    [ kind    : {"MESSAGE", "OTHER", "REGISTER", "RESPONSE"},
      qtag    : Tags,
      linktag : Tags,
      from    : {"user", "Bounce.Code"},
      status  : AllStatuses \cup {"none"},
      state   : sm_state,
      due     : Int,
      retries : Nat,
      need_repack : BOOLEAN ]

\* A newly constructed ShortMsgPending.
New(kind, tag, from, linktag, status) ==
    [ kind |-> kind, qtag |-> tag, linktag |-> linktag, from |-> from,
      status |-> status, state |-> "NO_STATE", due |-> 0, retries |-> 0,
      need_repack |-> kind # "REGISTER" ]

Nobody == New("OTHER", NoTag, "user", NoTag, "none")

\* A faulty set_state, that starts the count of the attempts again.
SetStateRecounts(m, newstate) ==
    [m EXCEPT !.state = newstate, !.due = Ticks[Timeout(m.state, newstate)],
              !.retries = IF newstate = "REQUEST_MSG_DELIVERY" THEN 0 ELSE @]

\* ShortMsgPending::set_state(newstate): the delay is that of the old state's row.
SetState(m, newstate) ==
    [m EXCEPT !.state = newstate, !.due = Ticks[Timeout(m.state, newstate)]]

\* increase_acked_msg_timeout: the time changes, the state stays.
IncreaseTimeout(m) == [m EXCEPT !.due = Ticks[60000]]

\* The tag a request may carry: the sender's CSeq and From tag, or a random
\* CSeq.  A tag is as good as any other, so tags are numbered as they appear.
NewTags == IF FreshTags THEN {created + 1} ELSE 1..(created + 1)

\* The ticks that must separate two copies of a message: see ResendSpaced.
ResendGap == Ticks[15000] + Ticks[60000]

Cleared(f, gone, value) == [id \in Ids |-> IF id \in gone THEN value ELSE f[id]]

\* The messages in gone are taken off the list and deleted.
Delete(gone) ==
    /\ msg' = Cleared(msg, gone, Nobody)
    /\ sends' = Cleared(sends, gone, 0)
    /\ waited' = Cleared(waited, gone, ResendGap)
    /\ depth' = Cleared(depth, gone, 0)

Init ==
    /\ time_sorted_list = << >>
    /\ msg = [id \in Ids |-> Nobody]
    /\ created = 0
    /\ sent = {}
    /\ elapsed = 0
    /\ mode = "run"
    /\ sends = [id \in Ids |-> 0]
    /\ waited = [id \in Ids |-> ResendGap]
    /\ depth = [id \in Ids |-> 0]
    /\ acked = {}

--------------------------------------------------------------------------------
(* Arrival of datagrams: insert_new_message(smp) *)

Arrive(m) ==
    /\ mode = "run"
    /\ created < MaxMsgs
    /\ created' = created + 1
    /\ msg' = [msg EXCEPT ![created + 1] = SetState(m, "INITIAL_STATE")]
    /\ time_sorted_list' = <<created + 1>> \o time_sorted_list
    /\ UNCHANGED <<sent, elapsed, mode, sends, waited, acked>>

ReceiveRequest ==
    /\ \E kind \in RequestKinds, tag \in NewTags :
           Arrive(New(kind, tag, "user", NoTag, "none"))
    /\ UNCHANGED depth

\* A peer answers a datagram it was sent; CSeq and From are copied, so the
\* response has the qtag of the request.
ReceiveResponse ==
    \E s \in sent, status \in Statuses :
        /\ SerialResponses =>
               \A i \in Tagged(time_sorted_list, msg, s[1]) :
                   msg[time_sorted_list[i]].kind # "RESPONSE"
        /\ Arrive(New("RESPONSE", s[1], s[2], NoTag, status))
        /\ depth' = [depth EXCEPT ![created + 1] = IF s[2] = "user" THEN 0 ELSE 1]

--------------------------------------------------------------------------------
(* process_timeout: the front of the list, once its time has come *)

qmsg == Head(time_sorted_list)
Rest == Tail(time_sorted_list)

Due(kinds, states) ==
    /\ mode = "run"
    /\ time_sorted_list # << >>
    /\ msg[qmsg].due <= 0
    /\ msg[qmsg].kind \in kinds
    /\ msg[qmsg].state \in states

Requests == {"MESSAGE", "OTHER", "REGISTER"}

\* The front message becomes m and is put back by its new time.
Requeue(m) ==
    LET after == [msg EXCEPT ![qmsg] = m]
    IN  /\ msg' = after
        /\ time_sorted_list' = InsertByTime(Rest, after, qmsg)

\* SmqManager::set_state(qmsg, newstate), and nothing else.
MoveTo(newstate) ==
    /\ Requeue(SetState(msg[qmsg], newstate))
    /\ UNCHANGED <<created, sent, elapsed, mode, sends, waited, depth, acked>>

\* A faulty order: the front message is put back first, which unlinks the new one.
OriginateIsLost(m, first, moved) ==
    LET id == created + 1
        after == [msg EXCEPT ![id] = SetState(m, first), ![qmsg] = moved]
    IN  /\ created < MaxMsgs
        /\ created' = id
        /\ msg' = after
        /\ time_sorted_list' = InsertByTime(Rest, after, qmsg)
        /\ UNCHANGED <<sent, elapsed, mode, sends, waited, acked>>

\* A new request m is inserted in state first, ahead of everything; then the
\* front message becomes moved and is put back by its new time.
OriginateAndRequeue(m, first, moved) ==
    LET id == created + 1
        after == [msg EXCEPT ![id] = SetState(m, first), ![qmsg] = moved]
    IN  /\ created < MaxMsgs
        /\ created' = id
        /\ msg' = after
        /\ time_sorted_list' = InsertByTime(<<id>> \o Rest, after, qmsg)
        /\ UNCHANGED <<sent, elapsed, mode, sends, waited, acked>>

BounceSameTag(tag) == New("MESSAGE", msg[qmsg].qtag, "Bounce.Code", NoTag, "none")

\* bounce_message for the message id.  A bounce is never bounced.
MayBounce(id) == msg[id].from # "Bounce.Code"
Bounce(tag) == New("MESSAGE", tag, "Bounce.Code", NoTag, "none")
BounceStates == {"REQUEST_DESTINATION_IMSI", "REQUEST_DESTINATION_SIPURL"}

\* register_handset: a REGISTER is queued that is linked to the front message,
\* or the message is given up.
RegisterHandset(m) ==
    /\ UNCHANGED depth
    /\ \/ \E tag \in NewTags :
              OriginateAndRequeue(New("REGISTER", tag, "user", m.qtag, "none"),
                                  "REQUEST_MSG_DELIVERY",
                                  SetState(m, "ASKED_TO_REGISTER_HANDSET"))
       \/ /\ Requeue(SetState(m, "DELETE_ME_STATE"))
          /\ UNCHANGED <<created, sent, elapsed, mode, sends, waited, acked>>

--------------------------------------------------------------------------------
(* INITIAL_STATE: a request *)

RejectMethod ==
    /\ Due({"OTHER", "REGISTER"}, {"INITIAL_STATE"})
    /\ MoveTo("NO_STATE")

\* The addressee is no short code, or its function declines (TREAT_AS_ORDINARY).
OrdinaryMessage ==
    /\ Due({"MESSAGE"}, {"INITIAL_STATE"})
    /\ MoveTo("REQUEST_FROM_ADDRESS_LOOKUP")

ShortCode(action) ==
    /\ action \in ShortCodeActions
    /\ Due({"MESSAGE"}, {"INITIAL_STATE"})

\* The reply is queued and the message is done, or the reply fails.
ShortCodeReply ==
    /\ ShortCode("REPLY")
    /\ \/ /\ \E tag \in NewTags :
                 OriginateAndRequeue(New("MESSAGE", tag, "user", NoTag, "none"),
                                     "REQUEST_DESTINATION_SIPURL",
                                     SetState(msg[qmsg], "DELETE_ME_STATE"))
          /\ UNCHANGED depth
       \/ MoveTo("NO_STATE")

ShortCodeError == ShortCode("INTERNAL_ERROR") /\ MoveTo("NO_STATE")
ShortCodeDone == ShortCode("DONE") /\ MoveTo("DELETE_ME_STATE")
ShortCodeAwait == ShortCode("AWAIT_REGISTER") /\ MoveTo("AWAITING_REGISTER_HANDSET")
ShortCodeRegister == ShortCode("REGISTER") /\ RegisterHandset(msg[qmsg])
ShortCodeRestart == ShortCode("RESTART_PROCESSING") /\ MoveTo("INITIAL_STATE")

ShortCodeRetry ==
    /\ ShortCode("RETRY_AFTER_DELAY")
    /\ Requeue(SetState([msg[qmsg] EXCEPT !.retries = @ + 1],
                        "REQUEST_FROM_ADDRESS_LOOKUP"))
    /\ UNCHANGED <<created, sent, elapsed, mode, sends, waited, depth, acked>>

\* m_stop_main_loop is set; the list is not processed again.
ShortCodeQuit ==
    /\ ShortCode("QUIT_SMQUEUE")
    /\ Requeue(SetState(msg[qmsg], "DELETE_ME_STATE"))
    /\ mode' = "stopped"
    /\ UNCHANGED <<created, sent, elapsed, sends, waited, depth, acked>>

HandleShortCode ==
    \/ ShortCodeReply \/ ShortCodeError \/ ShortCodeDone \/ ShortCodeAwait
    \/ ShortCodeRegister \/ ShortCodeRestart \/ ShortCodeRetry \/ ShortCodeQuit

--------------------------------------------------------------------------------
(* INITIAL_STATE: a response -- handle_response *)

Matches == Tagged(Rest, msg, msg[qmsg].qtag)
SentPos == FirstTagged(Rest, msg, msg[qmsg].qtag)
SentId == Rest[SentPos]

Response(statuses) ==
    /\ Due({"RESPONSE"}, {"INITIAL_STATE"})
    /\ msg[qmsg].status \in statuses

\* The response is deleted; the matching message becomes m where it stands.
Answered(m) ==
    /\ time_sorted_list' = Rest
    /\ msg' = [msg EXCEPT ![qmsg] = Nobody, ![SentId] = m]
    /\ depth' = [depth EXCEPT ![qmsg] = 0]
    /\ UNCHANGED <<created, sent, elapsed, mode, sends, acked>>

IgnoreResponse ==
    /\ Response(AllStatuses)
    /\ Matches = {} \/ msg[qmsg].status = "other"
    /\ time_sorted_list' = Rest
    /\ Delete({qmsg})
    /\ UNCHANGED <<created, sent, elapsed, mode, acked>>

ResponseDefers ==
    /\ Response({"1xx", "480", "5xx"})
    /\ Matches # {}
    /\ Answered(IncreaseTimeout(msg[SentId]))
    /\ UNCHANGED waited

ResponseRedirects ==
    /\ Response({"3xx", "6xx"})
    /\ Matches # {}
    /\ Answered(SetState(msg[SentId], "REQUEST_DESTINATION_IMSI"))
    /\ waited' = [waited EXCEPT ![SentId] = ResendGap]

\* 2xx: the message is deleted with its response; the SMS behind a REGISTER is
\* to be processed again, where it stands in the list.
Linked == Tagged(Rest, msg, msg[SentId].linktag)
LinkedId == Rest[FirstTagged(Rest, msg, msg[SentId].linktag)]
Reruns ==
    /\ msg[SentId].kind = "REGISTER"
    /\ Linked # {}
    /\ msg[LinkedId].state \in Registering

ResponseDelivered ==
    /\ Response({"2xx"})
    /\ Matches # {}
    /\ time_sorted_list' = RemoveAt(Rest, SentPos)
    /\ acked' = acked \cup {msg[qmsg].qtag}
    /\ LET gone == {qmsg, SentId}
           rerun == IF Reruns THEN {LinkedId} ELSE {}
       IN  /\ msg' = [id \in Ids |->
                         IF id \in gone THEN Nobody
                         ELSE IF id \in rerun THEN SetState(msg[id], "INITIAL_STATE")
                         ELSE msg[id]]
           /\ sends' = Cleared(sends, gone, 0)
           /\ waited' = Cleared(waited, gone, ResendGap)
           /\ depth' = Cleared(depth, gone, 0)
    /\ UNCHANGED <<created, sent, elapsed, mode>>

\* 4xx but 480 and 486: the message is bounced, or the bounce fails.
ResponseBounces ==
    /\ Response({"4xx"})
    /\ Matches # {}
    /\ \/ \E tag \in NewTags, first \in BounceStates :
              LET id == created + 1
              IN  /\ MayBounce(SentId)
                  /\ created < MaxMsgs
                  /\ created' = id
                  /\ time_sorted_list' = <<id>> \o Rest
                  /\ msg' = [msg EXCEPT ![qmsg] = Nobody,
                                        ![id] = SetState(Bounce(tag), first),
                                        ![SentId] = SetState(msg[SentId], "DELETE_ME_STATE")]
                  /\ depth' = [depth EXCEPT ![qmsg] = 0, ![id] = depth[SentId] + 1]
                  /\ UNCHANGED <<sent, elapsed, mode, sends, waited, acked>>
       \/ /\ Answered(SetState(msg[SentId], "NO_STATE"))
          /\ UNCHANGED waited

HandleResponse ==
    \/ IgnoreResponse \/ ResponseDefers \/ ResponseRedirects
    \/ ResponseDelivered \/ ResponseBounces

--------------------------------------------------------------------------------
(* The other states *)

\* An error (NO_STATE), or the end of a message.
DeleteMessage ==
    /\ Due(Requests \cup {"RESPONSE"}, {"NO_STATE", "DELETE_ME_STATE"})
    /\ time_sorted_list' = Rest
    /\ Delete({qmsg})
    /\ UNCHANGED <<created, sent, elapsed, mode, acked>>

\* lookup_from_address; a state that process_timeout has no case for is made
\* INITIAL_STATE and treated in the same way.
Unexpected ==
    {"ASKED_FOR_FROM_ADDRESS_LOOKUP", "AWAITING_TRY_DESTINATION_IMSI",
     "ASKED_FOR_DESTINATION_IMSI", "AWAITING_TRY_DESTINATION_SIPURL",
     "ASKED_FOR_DESTINATION_SIPURL"}

LookupFromAddress ==
    /\ Due(Requests, {"REQUEST_FROM_ADDRESS_LOOKUP"} \cup Unexpected)
    /\ LET m == IF msg[qmsg].state \in Unexpected
                THEN SetState(msg[qmsg], "INITIAL_STATE") ELSE msg[qmsg]
       IN  \E newstate \in {"NO_STATE", "REQUEST_DESTINATION_IMSI"} :
               Requeue(SetState(m, newstate))
    /\ UNCHANGED <<created, sent, elapsed, mode, sends, waited, depth, acked>>

\* lookup_uri_imsi.  The request URI of a REGISTER has no user name.
LookupUriImsi ==
    /\ Due(Requests, {"REQUEST_DESTINATION_IMSI"})
    /\ \/ MoveTo("NO_STATE")
       \/ /\ msg[qmsg].kind # "REGISTER"
          /\ MoveTo("REQUEST_DESTINATION_SIPURL")
       \/ /\ msg[qmsg].kind # "REGISTER"
          /\ MayBounce(qmsg)
          /\ \E tag \in NewTags, first \in BounceStates :
                 OriginateAndRequeue(Bounce(tag), first,
                                     SetState(msg[qmsg], "DELETE_ME_STATE"))
          /\ depth' = [depth EXCEPT ![created + 1] = depth[qmsg] + 1]

\* A response has no request URI: lookup_uri_imsi dereferences a null pointer.
CrashInLookup ==
    /\ Due({"RESPONSE"}, {"REQUEST_DESTINATION_IMSI"})
    /\ mode' = "crashed"
    /\ UNCHANGED <<time_sorted_list, msg, created, sent, elapsed,
                   sends, waited, depth, acked>>

\* lookup_uri_hostport.
LookupUriHostport ==
    /\ Due(Requests, {"REQUEST_DESTINATION_SIPURL"})
    /\ \E newstate \in {"NO_STATE", "REQUEST_MSG_DELIVERY"} : MoveTo(newstate)

Delivering ==
    Due(Requests, {"AWAITING_TRY_MSG_DELIVERY", "REQUEST_MSG_DELIVERY"})

\* A faulty count of attempts, downwards.
AttemptCountsDown ==
    LET m == IF msg[qmsg].state = "AWAITING_TRY_MSG_DELIVERY"
             THEN SetState(msg[qmsg], "REQUEST_MSG_DELIVERY") ELSE msg[qmsg]
    IN  [m EXCEPT !.retries = @ - 1]

\* The front message on its way out: the attempt is counted before anything else.
Attempt ==
    LET m == IF msg[qmsg].state = "AWAITING_TRY_MSG_DELIVERY"
             THEN SetState(msg[qmsg], "REQUEST_MSG_DELIVERY") ELSE msg[qmsg]
    IN  [m EXCEPT !.retries = @ + 1]

\* pack_sms_for_delivery has recoded it, now or on an earlier attempt.
Packed == [Attempt EXCEPT !.need_repack = FALSE]

\* A faulty limit, that is one too low.
RetriesExceededEarly == max_retries > 0 /\ Attempt.retries >= max_retries

RetriesExceeded == max_retries > 0 /\ Attempt.retries > max_retries
TooSoon == msSMSRateLimit > 0 /\ msSMSRateLimit >= elapsed

PackFails ==
    /\ Delivering
    /\ Attempt.need_repack
    /\ Requeue(SetState(Attempt, "NO_STATE"))
    /\ UNCHANGED <<created, sent, elapsed, mode, sends, waited, depth, acked>>

\* A faulty limit, at which the message is put off instead of dropped.
PutOffAfterRetries ==
    /\ Delivering
    /\ RetriesExceeded
    /\ MoveTo("AWAITING_TRY_MSG_DELIVERY")

DropAfterRetries ==
    /\ Delivering
    /\ RetriesExceeded
    /\ Requeue(SetState(Packed, "DELETE_ME_STATE"))
    /\ UNCHANGED <<created, sent, elapsed, mode, sends, waited, depth, acked>>

\* The message is put off: its time grows where it stands.
RateLimit ==
    /\ Delivering
    /\ ~RetriesExceeded
    /\ TooSoon
    /\ msg' = [msg EXCEPT ![qmsg] = [Packed EXCEPT !.due = @ + msSMSRateLimit]]
    /\ time_sorted_list' =
           IF msg[qmsg].state = "REQUEST_MSG_DELIVERY" THEN time_sorted_list
           ELSE InsertByTime(Rest, [msg EXCEPT ![qmsg] = Packed], qmsg)
    /\ UNCHANGED <<created, sent, elapsed, mode, sends, waited, depth, acked>>

\* deliver_msg_datagram; whether it fails makes no difference.
Deliver ==
    /\ Delivering
    /\ ~RetriesExceeded
    /\ ~TooSoon
    /\ Requeue(SetState(Packed, "ASKED_FOR_MSG_DELIVERY"))
    /\ sent' = sent \cup {<<msg[qmsg].qtag, msg[qmsg].from>>}
    /\ elapsed' = IF msSMSRateLimit > 0 THEN 0 ELSE elapsed
    /\ sends' = [sends EXCEPT ![qmsg] = @ + 1]
    /\ waited' = [waited EXCEPT ![qmsg] = 0]
    /\ UNCHANGED <<created, mode, depth, acked>>

\* A faulty timeout, after which the message is sent again without a wait.
NoAnswerResends ==
    /\ Due(Requests, {"ASKED_FOR_MSG_DELIVERY"})
    /\ MoveTo("REQUEST_MSG_DELIVERY")

NoAnswer ==
    /\ Due(Requests, {"ASKED_FOR_MSG_DELIVERY"})
    /\ MoveTo("AWAITING_TRY_MSG_DELIVERY")

\* Until the HLR knows the handset, wait; then register it.
AwaitRegister ==
    /\ Due(Requests, {"AWAITING_REGISTER_HANDSET"})
    /\ MoveTo("AWAITING_REGISTER_HANDSET")

Register ==
    /\ Due(Requests, {"AWAITING_REGISTER_HANDSET", "REGISTER_HANDSET"})
    /\ RegisterHandset(SetState(msg[qmsg], "REGISTER_HANDSET"))

\* A faulty timeout, which keeps waiting for the HLR.
NoRegisterAnswerWaits ==
    /\ Due(Requests, {"ASKED_TO_REGISTER_HANDSET"})
    /\ MoveTo("ASKED_TO_REGISTER_HANDSET")

NoRegisterAnswer ==
    /\ Due(Requests, {"ASKED_TO_REGISTER_HANDSET"})
    /\ MoveTo("AWAITING_REGISTER_HANDSET")

ProcessTimeout ==
    \/ RejectMethod \/ OrdinaryMessage \/ HandleShortCode \/ HandleResponse
    \/ DeleteMessage
    \/ LookupFromAddress \/ LookupUriImsi \/ CrashInLookup \/ LookupUriHostport
    \/ PackFails \/ DropAfterRetries \/ RateLimit \/ Deliver
    \/ NoAnswer
    \/ AwaitRegister \/ Register \/ NoRegisterAnswer

--------------------------------------------------------------------------------
(* Time, and the specification *)

Queued == ToSet(time_sorted_list)

Tick ==
    /\ mode = "run"
    /\ msg' = [id \in Ids |->
                  IF id \in Queued /\ msg[id].due > -MaxLate
                  THEN [msg[id] EXCEPT !.due = @ - 1] ELSE msg[id]]
    /\ waited' = [id \in Ids |->
                     IF id \in Queued /\ waited[id] < ResendGap
                     THEN waited[id] + 1 ELSE waited[id]]
    /\ elapsed' = IF msSMSRateLimit > 0 /\ elapsed <= msSMSRateLimit
                   THEN elapsed + 1 ELSE elapsed
    /\ UNCHANGED <<time_sorted_list, created, sent, mode, sends, depth, acked>>

Next == ReceiveRequest \/ ReceiveResponse \/ ProcessTimeout \/ Tick

Spec == Init /\ [][Next]_vars

\* The driver calls process_timeout whenever no datagram comes in for a while.
FairSpec == Spec /\ WF_vars(ProcessTimeout) /\ WF_vars(Tick)

--------------------------------------------------------------------------------
(* Properties *)

TypeOK ==
    /\ time_sorted_list \in Seq(Ids)
    /\ msg \in [Ids -> Message]
    /\ created \in 0..MaxMsgs
    /\ sent \subseteq Tags \X {"user", "Bounce.Code"}
    /\ elapsed \in Nat
    /\ mode \in {"run", "stopped", "crashed"}
    /\ sends \in [Ids -> Nat]
    /\ waited \in [Ids -> Nat]
    /\ depth \in [Ids -> Nat]
    /\ acked \subseteq Tags

\* Splicing messages in and out of the list (set_state, insert_new_message,
\* handle_response) neither links one twice nor loses one: the messages that are
\* not in the list are the deleted ones and those still to come.
ListComplete ==
    /\ Distinct(time_sorted_list)
    /\ Queued = {id \in Ids : msg[id].qtag # NoTag}

\* A message that was never sent is not taken for delivered, and no SMS is lost:
\* a request leaves the list only in error, done, or sent and answered by a 2xx.
LeavesWhenDone ==
    [][\A id \in Queued \ Queued' :
           \/ msg[id].kind = "RESPONSE"
           \/ msg[id].state \in {"NO_STATE", "DELETE_ME_STATE"}
           \/ sends[id] > 0 /\ msg[id].qtag \in acked']_vars

\* "make sure messages eventually get discarded": no message is sent more often
\* than the retry limit allows, whatever responses, redirections and reruns do
\* to it in between.
SendsWithinLimit ==
    max_retries > 0 => \A id \in Queued : sends[id] <= max_retries

\* The limit is on attempts to send: a message dropped for it was sent that often.
DroppedAfterAllSends ==
    Delivering /\ RetriesExceeded => sends[qmsg] = max_retries

\* "Don't bounce a message from us - it makes endless loops."
BouncesNeverBounce == \A id \in Queued : depth[id] <= 1

\* "Must wait awhile to avoid flooding the network or the user with dups": two
\* copies of a message to one destination are 15 s + 60 s apart at least.
ResendSpaced ==
    [][\A id \in Ids : sends'[id] > sends[id] => waited[id] >= ResendGap]_vars

\* A response is consumed, never routed: the state machine of requests is not
\* run on it, which would dereference the request URI it does not have.
ResponsesAreConsumed ==
    \A id \in Queued : msg[id].kind = "RESPONSE" => msg[id].state = "INITIAL_STATE"

\* "Extract original msg from queue, and toss it": once a 2xx for it has been
\* handled, a message is neither in the list nor sent again.
DeliveredIsGone ==
    \A id \in Queued : msg[id].kind # "RESPONSE" => msg[id].qtag \notin acked

\* process_timeout looks at the front only: b has to wait for a, which stands before it and is
\* due later.  Times in the past count as now.
Later(a, b) == msg[a].due > 0 /\ msg[a].due > msg[b].due
Blocks(a, b) ==
    \E i, j \in DOMAIN time_sorted_list :
        i < j /\ time_sorted_list[i] = a /\ time_sorted_list[j] = b /\ Later(a, b)
HeldUp == {b \in Queued : \E a \in Queued : Blocks(a, b)}

\* No message waits for another.
Sorted ==
    \A i, j \in DOMAIN time_sorted_list :
        i < j => ~Later(time_sorted_list[i], time_sorted_list[j])

\* The messages whose time the next step may change where they stand: the one that the response
\* at the front answers, and the SMS behind a REGISTER; and the front, by the rate limit.
AnsweredNow ==
    IF time_sorted_list = << >> \/ msg[qmsg].kind # "RESPONSE" \/ Matches = {} THEN {}
    ELSE {SentId} \cup (IF Reruns THEN {LinkedId} ELSE {})
PutOffNow == IF Delivering /\ ~RetriesExceeded /\ TooSoon THEN {qmsg} ELSE {}

\* "sorted by time of next action (assuming nothing arrives to change our mind ...)": a message
\* comes to wait for one that is due later only where a response has just been handled
\* that answers one of the two, or the rate limit has put the other off; in any list, in order
\* or not, and whatever the handlers splice in and out.
OnlyMovedHoldUp ==
    \A b \in HeldUp' \ HeldUp :
        \/ b \in AnsweredNow
        \/ \E a \in AnsweredNow \cup PutOffNow : Blocks(a, b)'
OrderKept == [][OnlyMovedHoldUp]_vars

\* Every message leaves the list -- delivered, bounced, dropped or in error -- unless
\* it has to wait for the registration of its handset, which may never succeed.
EveryMessageLeaves ==
    \A id \in Ids : id \in Queued ~> id \notin Queued \/ msg[id].state \in Registering

\* A handset whose REGISTER stays unanswered is not forgotten.
RegistrationGoesOn ==
    \A id \in Ids : msg[id].state = "ASKED_TO_REGISTER_HANDSET"
                        ~> msg[id].state # "ASKED_TO_REGISTER_HANDSET"

================================================================================
