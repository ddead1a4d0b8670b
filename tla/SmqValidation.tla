----------------------------- MODULE SmqValidation -----------------------------
(***************************************************************************)
(* Which messages are let into the queue and under which name: the checks  *)
(* of the acker (SmqAcker::validate_msg) and those of the messages that    *)
(* smqueue makes itself or reads from its file (validate_short_msg), the   *)
(* tag that set_qtag makes of the CSeq and the From header, by which an    *)
(* answer finds its message, and what the handlers and the packing for     *)
(* delivery change in between.                                             *)
(***************************************************************************)
EXTENDS Naturals, Sequences, FiniteSets

CONSTANTS
    Arrivals,      \* the SIP messages that may come
    RelayContents,      \* what globalrelay_type may ask for
    Randoms,       \* what new_random_number may return, in its low 16 bits
    MaxMessages,     \* bounds: messages, Call-IDs made, REGISTERs
    MaxCallIds,
    MaxRegisters

\* What the parser (osip) makes of the text of a message, as far as the checks tell it apart;
\* 0: there is no tag, no Call-ID. parses is that of osip, and tpdu what there is in the body
\* of a VND_3GPP_SMS: "DELIVER" stands for all that parseTPDU does not take.
Tree ==
    [kind : {"request", "response"}, parses : BOOLEAN, version : {"none", "2.0", "other"},
     scheme : {"none", "sip", "other"},
     host : {"none", "here", "cell", "relay", "registry", "other"},
     method : {"none", "MESSAGE", "REGISTER", "other"}, user : {"none", "imsi", "number"},
     type : {"none", "TEXT_PLAIN", "VND_3GPP_SMS", "other"}, tpdu : {"none", "SUBMIT", "DELIVER"},
     length : {"none", "zero", "positive"}, bodies : Nat, reason : BOOLEAN,
     cseq : {"none", "MESSAGE", "REGISTER", "other"}, number : Nat, call : Nat,
     from : {"none", "nourl", "imsi", "number"}, fromtag : Nat,
     mime : {"none", "1.0", "other"}, to : {"none", "sip", "other"}]

\* The parser makes one body of what is no multipart.
ASSUME ValidationAssumption ==
    /\ Arrivals \subseteq Tree
    /\ \A t \in Arrivals : t.type \in {"TEXT_PLAIN", "VND_3GPP_SMS"} => t.bodies <= 1
    /\ RelayContents \subseteq {"TEXT_PLAIN", "VND_3GPP_SMS"}
    /\ Randoms \subseteq Nat \ {0}
    /\ {MaxMessages, MaxCallIds, MaxRegisters} \subseteq Nat \ {0}

VARIABLES
    queued,             \* the messages of the queue
    register_call_id,   \* 0: have_register_call_id is false
    register_call_seq,
    callIds,            \* how many Call-IDs new_call_number has made
    alive,              \* the process runs
    answers,            \* the answers to what was sent, each with the message it answers
    refused,            \* history: messages of its own that smqueue did not accept
    ids                 \* how many messages there have been

validationVars ==
    <<queued, register_call_id, register_call_seq, callIds, alive, answers, refused, ids>>

--------------------------------------------------------------------------------
(* The checks. A check is a condition with the code for a message that does not meet it. *)

\* The code of the first check that is not met, 0 if all are.
Verdict(checks) ==
    LET failed == {i \in DOMAIN checks : ~checks[i][1]}
    IN  IF failed = {} THEN 0 ELSE checks[CHOOSE i \in failed : \A j \in failed : i <= j][2]

\* A response ("ack" to the code).
AckChecks(t) ==
    << <<t.reason, 400>>, <<t.length \in {"none", "zero"}, 400>>, <<t.bodies = 0, 400>> >>

UriChecks(t) ==
    << <<t.scheme # "none", 400>>, <<t.scheme = "sip", 416>>, <<t.host # "none", 484>>,
       <<t.method # "none", 405>> >>

\* A length that is no number counts as none.
MessageChecks(t) ==
    << <<t.user # "none", 484>>, <<t.type \in {"TEXT_PLAIN", "VND_3GPP_SMS"}, 415>>,
       <<t.length = "positive" => t.bodies = 1, 413>>, <<t.cseq = "MESSAGE", 400>> >>

RegisterChecks(t) == << <<t.cseq = "REGISTER", 400>> >>

MethodChecks(t) ==
    CASE t.method = "MESSAGE"  -> MessageChecks(t)
      [] t.method = "REGISTER" -> RegisterChecks(t)
      [] OTHER                 -> << <<FALSE, 405>> >>

KindChecks(t) == IF t.kind = "response" THEN AckChecks(t) ELSE UriChecks(t) \o MethodChecks(t)

HeaderChecks(t) ==
    << <<t.call # 0, 400>>, <<t.from \notin {"none", "nourl"}, 400>>,
       <<t.mime \in {"none", "1.0"}, 415>>, <<t.to = "sip", 400>> >>

\* set_qtag needs a tag in From, although it is "optional": strlen(fromtag) of a null pointer.
QtagChecks(t) ==
    << <<t.from # "none", 400>>, <<t.call # 0, 401>>, <<t.cseq # "none", 402>> >>
SetQtagEnds(t) == Verdict(QtagChecks(t)) = 0 => t.fromtag # 0

\* A faulty tag, of a build with USE_CALL_ID_TAG.
QtagWithCallId(t) == <<t.number, t.call, t.fromtag>>
\* set_qtag, without USE_CALL_ID_TAG; taghash_of looks at the first character.
Qtag(t) == <<t.number, t.fromtag>>

\* ShortMsg::parse takes the message: osip does, and parseTPDU what it finds in the body
\* ("Handle just the uplink cases").
IsTaken(t) == t.parses /\ (t.type = "VND_3GPP_SMS" => t.tpdu # "DELIVER")

\* validate_short_msg; what does not parse comes to nothing else.
ShortMsgChecks(t) ==
    << <<IsTaken(t), 400>>, <<t.version = "2.0", 400>> >>
        \o KindChecks(t) \o HeaderChecks(t) \o QtagChecks(t)
ValidateShortMsg(t) == Verdict(ShortMsgChecks(t))

\* SmqAcker::validate_msg: each check overwrites the result of those before, and the last is
\* that of set_qtag; what the checks look for and do not find is then used all the same, and
\* a TPDU that parse refuses is forgotten too.
ValidateMsgEnds(t) == t.parses /\ t.from # "none" /\ t.to # "none" /\ SetQtagEnds(t)
ValidateMsg(t) == Verdict(QtagChecks(t))

--------------------------------------------------------------------------------
(* Messages that smqueue makes *)

\* originate_half_sm: a tree without a version, since it was not parsed.
HalfMsg(method, number, call) ==
    [kind |-> "request", parses |-> TRUE, version |-> "none", scheme |-> "none", host |-> "none",
     method |-> method, user |-> "none", type |-> "none", tpdu |-> "none", length |-> "none",
     bodies |-> 0, reason |-> FALSE, cseq |-> method, number |-> number, call |-> call,
     from |-> "none", fromtag |-> 0, mime |-> "none", to |-> "none"]

\* originate_sm: a reply or a bounce. "For the tag, we cheat and reuse the cseq number."
OriginatedSm(number, call, user) ==
    [HalfMsg("MESSAGE", number, call) EXCEPT
        !.from = "number", !.fromtag = number, !.to = "sip", !.scheme = "sip", !.host = "here",
        !.user = user, !.type = "TEXT_PLAIN", !.bodies = 1]

\* register_handset
RegisterMsg(number, call) ==
    [HalfMsg("REGISTER", number, call) EXCEPT
        !.from = "imsi", !.fromtag = number, !.to = "sip", !.scheme = "sip", !.host = "registry"]

\* Rendered, and parsed again: what was left to be worked out is there.
Rendered(t) ==
    [t EXCEPT !.version = "2.0", !.length = IF t.bodies = 0 THEN "zero" ELSE "positive"]

\* A faulty check of the tree as it was made.
AsMade(t) == t
\* make_text_valid, unparse, and the parse in validate_short_msg.
Reparsed(t) == Rendered(t)

--------------------------------------------------------------------------------
(* The queue *)

\* valid and linked: history, what validate_short_msg makes of it when it comes, and the message
\* that it was linked to. What comes is on its way to the centre; what is made here is not.
Entry(t, own) ==
    [id |-> ids + 1, tree |-> t, qtag |-> Qtag(t), linktag |-> << >>, linked |-> 0, own |-> own,
     valid |-> ValidateShortMsg(t) = 0,
     ms_to_sc |-> ~own, need_repack |-> TRUE, convert |-> "none"]
WithTag(m) == [m EXCEPT !.qtag = Qtag(m.tree)]

ValidationInit ==
    /\ queued = {} /\ answers = {} /\ refused = {}
    /\ register_call_id = 0 /\ register_call_seq = 0 /\ callIds = 0 /\ ids = 0
    /\ alive = TRUE

\* A request comes and the acker looks at it. Where the code uses what is not there the
\* process ends.
Arrive ==
    /\ ids < MaxMessages
    /\ ids' = ids + 1
    /\ \E t \in Arrivals :
          /\ t.kind = "request"
          /\ IF ValidateMsgEnds(t)
             THEN /\ queued' = IF ValidateMsg(t) = 0 THEN queued \cup {Entry(t, FALSE)} ELSE queued
                  /\ UNCHANGED alive
             ELSE alive' = FALSE /\ UNCHANGED queued
    /\ UNCHANGED <<register_call_id, register_call_seq, callIds, answers, refused>>

\* set_qtag, the text, and the checks: only then it is put into the queue. A REGISTER "should
\* not be repacked".
Accept(t, linktag, linked) ==
    LET m == [Entry(t, TRUE) EXCEPT !.tree = Reparsed(t), !.linktag = linktag,
                                    !.linked = linked, !.need_repack = t.method # "REGISTER"]
    IN  IF ValidateShortMsg(m.tree) = 0
        THEN queued' = queued \cup {m} /\ UNCHANGED refused
        ELSE refused' = refused \cup {m} /\ UNCHANGED queued

\* A short code replies to a message, or the message bounces.
OriginateSm ==
    /\ ids < MaxMessages
    /\ ids' = ids + 1
    /\ callIds < MaxCallIds
    /\ callIds' = callIds + 1
    /\ queued # {}
    /\ \E number \in Randoms, user \in {"imsi", "number"} :
          Accept(OriginatedSm(number, callIds', user), << >>, 0)
    /\ UNCHANGED <<register_call_id, register_call_seq, alive, answers>>

\* All REGISTERs have the Call-ID of the first and are counted.
RegisterHandset ==
    /\ ids < MaxMessages
    /\ ids' = ids + 1
    /\ register_call_seq < MaxRegisters
    /\ register_call_id = 0 => callIds < MaxCallIds
    /\ callIds' = IF register_call_id = 0 THEN callIds + 1 ELSE callIds
    /\ register_call_id' = IF register_call_id = 0 THEN callIds' ELSE register_call_id
    /\ register_call_seq' = register_call_seq + 1
    /\ \E m \in queued :
          /\ m.tree.method = "MESSAGE"
          /\ Accept(RegisterMsg(register_call_seq', register_call_id'), m.qtag, m.id)
    /\ UNCHANGED <<alive, answers>>

Replace(m, n) == queued' = (queued \ {m}) \cup {n}

\* lookup_from_address: the name in From; what is behind the address stays.
NewFrom ==
    /\ \E m \in queued :
          /\ m.tree.from = "imsi"
          /\ m.tree.method = "MESSAGE"
          /\ Replace(m, [m EXCEPT !.tree.from = "number"])
    /\ UNCHANGED <<register_call_id, register_call_seq, callIds, alive, answers, refused, ids>>

\* lookup_uri_imsi: the name in the URI; for the relay it stays, and the message is to be
\* converted.
NewUser ==
    /\ \E m \in queued :
          /\ m.tree.scheme = "sip"
          /\ m.tree.user = "number"
          /\ \/ Replace(m, [m EXCEPT !.tree.user = "imsi"])
             \/ \E type \in RelayContents : Replace(m, [m EXCEPT !.convert = type])
    /\ UNCHANGED <<register_call_id, register_call_seq, callIds, alive, answers, refused, ids>>

\* lookup_uri_hostport: the cell, or the relay with the type it takes, and a new Call-ID; "we
\* have to update the queue tag".
NewPlace ==
    /\ callIds < MaxCallIds
    /\ callIds' = callIds + 1
    /\ \E m \in queued :
          /\ m.tree.user # "none"
          /\ m.tree.call # 0
          /\ IF m.tree.user = "imsi"
             THEN Replace(m, WithTag([m EXCEPT !.tree.host = "cell", !.tree.call = callIds']))
             ELSE \E type \in RelayContents :
                     Replace(m, WithTag([m EXCEPT !.tree.host = "relay", !.tree.call = callIds',
                                                  !.convert = type]))
    /\ UNCHANGED <<register_call_id, register_call_seq, alive, answers, refused, ids>>

\* respond_sip_ack, as the next smqueue answers: To, From, CSeq and Call-ID are those of the
\* request.
AnswerTo(t) ==
    [HalfMsg("none", t.number, t.call) EXCEPT
        !.kind = "response", !.reason = TRUE, !.cseq = t.cseq, !.from = t.from,
        !.fromtag = t.fromtag, !.to = t.to]

\* The form that pack_sms_for_delivery gives a message ("none": the one it has), for the type
\* to convert to or else for its own; a TPDU that is not on its way to the centre stays.
PackedType(m) == IF m.convert # "none" THEN m.convert ELSE m.tree.type
Stays(m) == m.convert = "none" /\ m.tree.type = "VND_3GPP_SMS" /\ ~m.ms_to_sc

\* pack_plain_text, create_sms_delivery: there may be no body to put the TPDU into.
PackedTree(t, type) ==
    [t EXCEPT !.type = type,
              !.tpdu = IF type = "TEXT_PLAIN" THEN "none" ELSE IF t.bodies = 0 THEN @ ELSE "DELIVER"]

\* A faulty packing, that is to be done again.
RepackedAgain(m) ==
    IF ~m.need_repack \/ Stays(m) THEN m
    ELSE [m EXCEPT !.tree = PackedTree(@, PackedType(m)), !.ms_to_sc = FALSE]

\* pack_sms_for_delivery; recode_tpdu takes only a SUBMIT.
CanRepack(m) ==
    m.need_repack =>
        /\ PackedType(m) \in {"TEXT_PLAIN", "VND_3GPP_SMS"}
        /\ m.convert # "none" \/ m.tree.type # "VND_3GPP_SMS" \/ Stays(m) \/ m.tree.tpdu = "SUBMIT"
Repacked(m) ==
    IF ~m.need_repack THEN m
    ELSE IF Stays(m) THEN [m EXCEPT !.need_repack = FALSE]
    ELSE [m EXCEPT !.tree = PackedTree(@, PackedType(m)), !.ms_to_sc = FALSE,
                   !.need_repack = FALSE]

\* The packing writes to the Content-Type that is there, and the process ends if there is none.
RepackEnds(m) == m.need_repack /\ m.convert # "none" /\ m.tree.type = "none"

\* The state REQUEST_MSG_DELIVERY: the message is packed, and then dropped or put off, or sent
\* and perhaps answered. What cannot be packed is left as it is, and goes.
DeliverMsgDatagram ==
    /\ \E m \in queued :
          \/ RepackEnds(m) /\ alive' = FALSE /\ UNCHANGED <<queued, answers>>
          \/ /\ ~RepackEnds(m) /\ CanRepack(m)
             /\ Replace(m, Repacked(m))
             /\ answers' \in {answers, answers \cup {[id |-> m.id, tree |-> Rendered(AnswerTo(m.tree))]}}
             /\ UNCHANGED alive
    /\ UNCHANGED <<register_call_id, register_call_seq, callIds, refused, ids>>

\* find_queued_msg_by_tag
FoundByTag(tag) == {m \in queued : m.qtag = tag}

\* An answer to one of the forms comes, late or twice; handle_response looks for its tag, and
\* a 200 ends the message.
HandleResponse ==
    /\ \E a \in answers :
          /\ ValidateMsgEnds(a.tree) /\ ValidateMsg(a.tree) = 0
          /\ \E m \in FoundByTag(Qtag(a.tree)) : queued' = queued \ {m}
    /\ UNCHANGED <<register_call_id, register_call_seq, callIds, alive, answers, refused, ids>>

\* A message ends: process_timeout in the states NO_STATE and DELETE_ME_STATE.
Leave ==
    /\ \E m \in queued : queued' = queued \ {m}
    /\ UNCHANGED <<register_call_id, register_call_seq, callIds, alive, answers, refused, ids>>

\* A stop and a start: the queue is saved, read and checked (read_queue_from_file). What the
\* message was to be converted to is not in the file.
SaveAndRead ==
    /\ queued' = {WithTag([m EXCEPT !.tree = Rendered(m.tree), !.linktag = << >>, !.linked = 0,
                                    !.convert = "none"]) :
                     m \in {m \in queued : ValidateShortMsg(Rendered(m.tree)) = 0}}
    /\ register_call_id' = 0 /\ register_call_seq' = 0
    /\ UNCHANGED <<callIds, alive, answers, refused, ids>>

ValidationNext ==
    /\ alive
    /\ \/ Arrive \/ OriginateSm \/ RegisterHandset \/ NewFrom \/ NewUser
       \/ NewPlace \/ DeliverMsgDatagram \/ HandleResponse \/ Leave \/ SaveAndRead

ValidationSpec == ValidationInit /\ [][ValidationNext]_validationVars

--------------------------------------------------------------------------------
(* Properties *)

\* A message that pack_sms_for_delivery has put into a DELIVER.
PackedDeliver(m) ==
    ~m.need_repack /\ m.tree.type = "VND_3GPP_SMS" /\ m.tree.tpdu = "DELIVER"

\* Every message that smqueue makes passes its own checks, and a message that was in order
\* when it came passes them after whatever the handlers and the packing changed in it, so that
\* a start reads it back, under the tag it had; except a message that was packed into a
\* DELIVER, which parse does not take: that one a start throws away. So the packing is the
\* only step that takes a message out of order, and a message is lost so only once it has been
\* tried to deliver.
ValidStaysValid ==
    /\ refused = {}
    /\ \A m \in queued : m.own \/ m.valid =>
          /\ ValidateShortMsg(Rendered(m.tree)) = 0 <=> ~PackedDeliver(m)
          /\ Qtag(Rendered(m.tree)) = m.qtag

\* "The Call-ID changes each time we re-send an SMS. When we get a 200 "Delivered" message for
\* ANY of those different Call-ID's, we should accept that the msg was delivered": an answer
\* to any form of a message finds it, as long as it is queued, and no other message; but for
\* messages with the same number and tag. And the link of a REGISTER leads to the message that
\* asked for it.
Named == queued \cup refused \cup answers
Twins(a) ==
    \E m \in Named :
        m.id # a.id /\ m.tree.number = a.tree.number /\ m.tree.fromtag = a.tree.fromtag
AnswerFindsItsMessage ==
    /\ \A a \in answers : ~Twins(a) => FoundByTag(Qtag(a.tree)) = {m \in queued : m.id = a.id}
    /\ \A r, m \in queued : r.linked = m.id /\ ~Twins(m) => FoundByTag(r.linktag) = {m}

================================================================================
