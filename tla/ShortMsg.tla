-------------------------------- MODULE ShortMsg --------------------------------
(***************************************************************************)
(* One message of the queue, with what it holds: its text, the tree parsed *)
(* from the text and changed since, and the TPDU decoded from the body     *)
(* (ShortMsg), what the handlers of the queue change in it on its way      *)
(* (lookup_from_address, lookup_uri_imsi, lookup_uri_hostport), how it is  *)
(* packed for the peer it is sent to (pack_sms_for_delivery), and how it   *)
(* is saved and read again.  Queueing, time and retries are SmqManager's;  *)
(* here a handler of the state the message is in may run at any time.      *)
(***************************************************************************)
EXTENDS Naturals

CONSTANTS
    Text, Empty, Garbled,   \* what a body says: its text, nothing, a TPDU taken for text
    NoForm,                 \* no tree, nothing sent
    NoTPDU,                 \* tl_message NULL
    MaxRounds               \* bound: lookups of the place to send it to, and starts, together


VARIABLES
    sm,        \* the message in the queue
    file,      \* the record of it in the save file
    config,    \* globalrelay_host is set, and globalrelay_type
    starts,    \* the process runs for the starts-th time; up, whether it does
    up,
    calls,     \* how many Call-IDs have been made
    out,       \* history: what was sent last
    asked,     \* history: the Call-IDs sent, and where
    orig,      \* history: the message as it came
    bounced,   \* history: the text that the last bounce quotes
    forgot     \* history: a restart came after the place was looked up and before the packing

msgVars == <<sm, file, config, starts, up, calls, out, asked, orig, bounced, forgot>>

ContentTypes == {"TEXT_PLAIN", "VND_3GPP_SMS"}
TPDUs == [kind : {"SUBMIT", "DELIVER"}, text : {Text, Empty, Garbled}]
\* "norp": a body that RP-DATA cannot be decoded from.
Bodies == TPDUs \cup [kind : {"plain"}, text : {Text, Empty, Garbled}]
                \cup [kind : {"norp"}, text : {Empty}]
\* A SIP message as far as it matters: the name in From (an IMSI, a local or a global
\* number), the kind of name and the place in the URI, the number of the Call-ID.
Forms == [type : ContentTypes, body : Bodies, via : BOOLEAN, from : {"imsi", "local", "global"},
          to : {"number", "imsi"}, host : {"here", "cell", "relay", "nowhere"}, call : 0..MaxRounds]

\* The values that stand for a text, a message or nothing are different from each other.
ASSUME ShortMsgAssumption ==
    /\ MaxRounds \in Nat \ {0}
    /\ Text \notin {Empty, Garbled}
    /\ NoForm \notin Forms
    /\ NoTPDU \notin TPDUs

--------------------------------------------------------------------------------
(* ShortMsg: the text and the tree *)

\* The constructor, and initialize.
NewMsg(text) ==
    [state |-> "NO_STATE", text |-> text, parsed |-> NoForm,
     parsed_is_valid |-> FALSE, parsed_is_better |-> FALSE,
     content_type |-> "UNSUPPORTED_CONTENT", convert |-> "UNSUPPORTED_CONTENT",
     tl_message |-> NoTPDU, ms_to_sc |-> FALSE, need_repack |-> TRUE]

NoMsg == [state |-> "none"]
Queued == sm # NoMsg

\* parseTPDU of what decodeRPData makes of the body: "Handle just the uplink cases".
Decoded(form) ==
    IF form.type = "VND_3GPP_SMS" /\ form.body.kind = "SUBMIT" THEN form.body ELSE NoTPDU

\* parse returns true: no TPDU is expected, or there is no RP-DATA, or the TPDU is known.
Parses(form) == form.body.kind # "DELIVER"

\* parse: also of what was rendered, so the tree and the text are the same afterwards.
Parse(m) ==
    IF m.parsed_is_valid THEN m
    ELSE [m EXCEPT !.parsed = m.text, !.parsed_is_valid = TRUE, !.parsed_is_better = FALSE,
                   !.content_type = m.text.type, !.tl_message = Decoded(m.text)]

\* The caller's change of the tree, and parsed_was_changed.
Changed(m, form) == [m EXCEPT !.parsed = form, !.parsed_is_better = TRUE]

\* make_text_valid
MadeValid(m) ==
    IF m.parsed_is_better /\ m.parsed_is_valid
    THEN [m EXCEPT !.text = m.parsed, !.parsed_is_better = FALSE]
    ELSE m

\* get_text: content_type and tl_message are those found by parse and by the packing.
GetText(m) ==
    CASE m.content_type = "TEXT_PLAIN" ->
            IF m.parsed.body.kind = "plain" THEN m.parsed.body.text ELSE Garbled
      [] /\ m.content_type = "VND_3GPP_SMS"
         /\ m.tl_message # NoTPDU
         /\ m.tl_message.kind = (IF m.ms_to_sc THEN "SUBMIT" ELSE "DELIVER") ->
            m.tl_message.text
      [] OTHER -> Empty

--------------------------------------------------------------------------------
(* smsc.cpp: the form the peer gets *)

\* A faulty packing, that does not say that the tree was changed.
PackedQuietly(m, text) ==
    [m EXCEPT !.parsed.body = [kind |-> "plain", text |-> text],
              !.parsed.type = "TEXT_PLAIN", !.ms_to_sc = FALSE]

\* pack_plain_text
PlainText(m, text) ==
    [Changed(m, [m.parsed EXCEPT !.body = [kind |-> "plain", text |-> text],
                                 !.type = "TEXT_PLAIN"])
        EXCEPT !.ms_to_sc = FALSE]

\* A faulty create_sms_delivery, that leaves the direction as it was.
DeliveryToCentre(m, text) ==
    LET deliver == [kind |-> "DELIVER", text |-> text]
    IN  [Changed(m, [m.parsed EXCEPT !.body = deliver]) EXCEPT !.tl_message = deliver]

\* create_sms_delivery, and pack_tpdu
Delivery(m, text) ==
    LET deliver == [kind |-> "DELIVER", text |-> text]
    IN  [Changed(m, [m.parsed EXCEPT !.body = deliver])
            EXCEPT !.tl_message = deliver, !.ms_to_sc = FALSE]

\* pack_text_to_tpdu
TextToTPDU(m, text) ==
    LET d == Delivery(m, text)
    IN  Changed(d, [d.parsed EXCEPT !.type = "VND_3GPP_SMS"])

\* recode_tpdu fails for what is not decoded.
CanRecode(m) == m.tl_message # NoTPDU
Recoded(m, text) == Delivery(m, text)

\* pack_sms_for_delivery returns true for a parsed message.
CanPack(m) ==
    \/ ~m.need_repack
    \/ m.convert # "UNSUPPORTED_CONTENT"
    \/ m.content_type = "TEXT_PLAIN"
    \/ m.content_type = "VND_3GPP_SMS" /\ (m.ms_to_sc => CanRecode(m))

Converted(m) ==
    LET text == GetText(m)
        to == IF m.convert # "UNSUPPORTED_CONTENT" THEN m.convert ELSE m.content_type
    IN  CASE to = "TEXT_PLAIN" -> PlainText(m, text)
          [] to = "VND_3GPP_SMS" /\ m.convert = to -> TextToTPDU(m, text)
          [] m.convert # to /\ to = "VND_3GPP_SMS" /\ m.ms_to_sc -> Recoded(m, text)
          [] OTHER -> m

\* A faulty packing, that is done again with every attempt.
PackedAgain(m) == IF m.need_repack THEN Converted(m) ELSE m

\* pack_sms_for_delivery
Packed(m) == IF m.need_repack THEN [Converted(m) EXCEPT !.need_repack = FALSE] ELSE m

--------------------------------------------------------------------------------
(* The handlers of process_timeout *)

\* What changes the message only.
Becomes(m) ==
    /\ sm' = m
    /\ UNCHANGED <<file, config, starts, up, calls, out, asked, orig, bounced, forgot>>

\* lookup_from_address adds a Via, without a word to the cached text; an IMSI becomes a
\* number if the registry or the table has one.
LookupFromAddress ==
    /\ sm.state = "REQUEST_FROM_ADDRESS_LOOKUP"
    /\ LET m == [sm EXCEPT !.parsed.via = TRUE, !.state = "REQUEST_DESTINATION_IMSI"]
       IN  \/ Becomes(m)
           \/ m.parsed.from = "imsi" /\ Becomes(Changed(m, [m.parsed EXCEPT !.from = "local"]))

\* originate_sm, called by bounce_message: the bounce is a message of its own.
Bounce(m) ==
    /\ sm' = [m EXCEPT !.state = "DELETE_ME_STATE"]
    /\ bounced' = GetText(m)
    /\ UNCHANGED <<file, config, starts, up, calls, out, asked, orig, forgot>>

\* lookup_uri_imsi for a number that no subscriber here has: it goes to the relay, and the
\* sender's number becomes a global one, if there is one.
ToRelay(m) ==
    LET n == [m EXCEPT !.convert = config.type, !.state = "REQUEST_DESTINATION_SIPURL"]
    IN  \/ Becomes(n)
        \/ m.parsed.from # "imsi" /\ Becomes([n EXCEPT !.parsed.from = "global"])

LookupUriImsi ==
    /\ sm.state = "REQUEST_DESTINATION_IMSI"
    /\ LET m == Parse(sm)
           found == [m EXCEPT !.state = "REQUEST_DESTINATION_SIPURL"]
       IN  IF m.parsed.to = "imsi"
           THEN Becomes(found)
           ELSE \/ Becomes(Changed(found, [m.parsed EXCEPT !.to = "imsi"]))
                \/ config.relay /\ ToRelay(m)
                \/ ~config.relay /\ Bounce(m)

Placed(m, host) == [m.parsed EXCEPT !.host = host, !.call = calls + 1]

\* A faulty lookup, that leaves the conversion to the lookup of the IMSI.
LookupUriHostportUnconverted ==
    /\ sm.state = "REQUEST_DESTINATION_SIPURL"
    /\ calls + starts < MaxRounds
    /\ LET m == [Parse(sm) EXCEPT !.state = "REQUEST_MSG_DELIVERY"]
       IN  sm' = IF m.parsed.to = "imsi" THEN Changed(m, Placed(m, "cell"))
                 ELSE Changed(m, Placed(m, IF config.relay THEN "relay" ELSE "nowhere"))
    /\ calls' = calls + 1
    /\ UNCHANGED <<file, config, starts, up, out, asked, orig, bounced, forgot>>

\* lookup_uri_hostport: the cell where the IMSI is registered, or the relay; a new Call-ID.
LookupUriHostport ==
    /\ sm.state = "REQUEST_DESTINATION_SIPURL"
    /\ calls + starts < MaxRounds
    /\ LET m == [Parse(sm) EXCEPT !.state = "REQUEST_MSG_DELIVERY"]
           relay == IF config.relay THEN "relay" ELSE "nowhere"
       IN  sm' = IF m.parsed.to = "imsi" THEN Changed(m, Placed(m, "cell"))
                 ELSE [Changed(m, Placed(m, relay)) EXCEPT !.convert = config.type]
    /\ calls' = calls + 1
    /\ UNCHANGED <<file, config, starts, up, out, asked, orig, bounced, forgot>>

\* deliver_msg_datagram, which may fail to send.
Send(m) ==
    LET v == MadeValid(m)
    IN  /\ sm' = [v EXCEPT !.state = "ASKED_FOR_MSG_DELIVERY"]
        /\ \/ /\ out' = v.text
              /\ asked' = asked \cup {[call |-> v.text.call, host |-> v.parsed.host]}
           \/ UNCHANGED <<out, asked>>
        /\ UNCHANGED <<file, config, starts, up, calls, orig, bounced, forgot>>

\* Packed, then dropped after the last retry, kept back by the rate limit, or sent.
DeliverMsg ==
    /\ sm.state \in {"AWAITING_TRY_MSG_DELIVERY", "REQUEST_MSG_DELIVERY"}
    /\ LET m == Parse(sm)
       IN  IF CanPack(m)
           THEN \/ Becomes([Packed(m) EXCEPT !.state = "DELETE_ME_STATE"])
                \/ Becomes([Packed(m) EXCEPT !.state = "REQUEST_MSG_DELIVERY"])
                \/ Send(Packed(m))
           ELSE Becomes([m EXCEPT !.state = "NO_STATE"])

NoAnswer ==
    /\ sm.state = "ASKED_FOR_MSG_DELIVERY"
    /\ Becomes([sm EXCEPT !.state = "AWAITING_TRY_MSG_DELIVERY"])

Deleted ==
    /\ sm.state \in {"NO_STATE", "DELETE_ME_STATE"}
    /\ Becomes(NoMsg)

\* handle_response: the answer carries the Call-ID that the message has now.
Answered ==
    /\ Queued
    /\ sm.parsed_is_valid
    /\ \E a \in asked : a.call = sm.parsed.call
    /\ \/ Becomes(NoMsg)                                              \* 2xx
       \/ Becomes([sm EXCEPT !.state = "REQUEST_DESTINATION_IMSI"])   \* 3xx, 6xx
       \/ Bounce(sm)                                                  \* 4xx

Serve ==
    \/ LookupFromAddress \/ LookupUriImsi \/ LookupUriHostport
    \/ DeliverMsg \/ NoAnswer \/ Deleted \/ Answered

--------------------------------------------------------------------------------
(* The save file *)

\* A faulty record, without the direction.
RecordUndirected(m) ==
    [state |-> m.state, text |-> m.text, ms_to_sc |-> FALSE, need_repack |-> m.need_repack]

\* What save_queue_to_file writes of a message.
Record(m) ==
    [state |-> m.state, text |-> m.text, ms_to_sc |-> m.ms_to_sc, need_repack |-> m.need_repack]

Save ==
    /\ up
    /\ sm' = IF Queued THEN MadeValid(sm) ELSE sm
    /\ file' = IF Queued THEN Record(sm') ELSE NoMsg
    /\ UNCHANGED <<config, starts, up, calls, out, asked, orig, bounced, forgot>>

\* debug_dump
Dump == Queued /\ Becomes(MadeValid(sm))

\* The process ends, with or without a save.
Crash ==
    /\ up
    /\ sm' = NoMsg
    /\ up' = FALSE
    /\ UNCHANGED <<file, config, starts, calls, out, asked, orig, bounced, forgot>>

\* read_queue_from_file; validate_short_msg parses what was read, and a message that it
\* does not like is not put into the queue.
Restored(r) ==
    Parse([NewMsg(r.text) EXCEPT !.state = r.state, !.ms_to_sc = r.ms_to_sc,
                                 !.need_repack = r.need_repack])

Unplaced ==
    {"REQUEST_FROM_ADDRESS_LOOKUP", "REQUEST_DESTINATION_IMSI", "REQUEST_DESTINATION_SIPURL"}

Start ==
    /\ ~up
    /\ calls + starts < MaxRounds
    /\ up' = TRUE
    /\ starts' = starts + 1
    /\ sm' = IF file # NoMsg /\ Parses(file.text) THEN Restored(file) ELSE NoMsg
    /\ forgot' = (forgot \/ (file # NoMsg /\ file.state \notin Unplaced /\ file.need_repack))
    /\ UNCHANGED <<file, config, calls, out, asked, orig, bounced>>

--------------------------------------------------------------------------------
(* The specification *)

\* A message as it comes: from a handset, from the relay, a text that was originated here.
Came ==
    {[type |-> IF b.kind = "plain" THEN "TEXT_PLAIN" ELSE "VND_3GPP_SMS",
      body |-> b, via |-> FALSE, from |-> f, to |-> t, host |-> "here", call |-> 0] :
        b \in {[kind |-> k, text |-> IF k = "norp" THEN Empty ELSE Text] :
                  k \in {"plain", "SUBMIT", "norp"}},
        f \in {"imsi", "local"}, t \in {"number", "imsi"}}

\* It is in the file that the first start reads; what a handset sent goes to the centre.
ShortMsgInit ==
    /\ \E form \in Came, toward \in BOOLEAN, st \in Unplaced :
            /\ form.body.kind = "SUBMIT" => toward
            /\ form.from = "imsi" <=> st = "REQUEST_FROM_ADDRESS_LOOKUP"
            /\ file = [state |-> st, text |-> form, ms_to_sc |-> toward, need_repack |-> TRUE]
    /\ orig = file
    /\ sm = Restored(file)
    /\ config \in [relay : {TRUE}, type : ContentTypes] \cup [relay : {FALSE}, type : {"TEXT_PLAIN"}]
    /\ starts = 1
    /\ up = TRUE
    /\ calls = 0
    /\ out = NoForm
    /\ asked = {}
    /\ bounced = NoForm
    /\ forgot = FALSE

ShortMsgNext == Serve \/ Save \/ Dump \/ Crash \/ Start

ShortMsgSpec == ShortMsgInit /\ [][ShortMsgNext]_msgVars

--------------------------------------------------------------------------------
(* Properties *)

\* What is sent is the message as the handlers left it, however often it was rendered for
\* the file or the log before (make_text_valid in deliver_msg_datagram).
SentIsLatest ==
    [][out' # out => out' = sm'.parsed]_msgVars

\* What a handset submitted never goes out as a SUBMIT: recoded once, and the direction
\* that says so survives a restart (ms_to_sc of the save file). And a message that can be
\* decoded in its direction is sent with the text it came with, through conversions, retries,
\* new lookups and restarts.
Readable(r) == r.text.body.kind # "norp"
TextArrives ==
    out # NoForm =>
        /\ out.body.kind # "SUBMIT"
        /\ Readable(orig) => out.body.text = Text

\* The relay gets the type configured for it, unless a restart came between lookup and
\* packing: convert_content_type is not in the save file.
RelayGetsItsType ==
    out # NoForm /\ ~forgot => (out.host = "relay" => out.type = config.type)

\* "Save the queue to a file; read it back from a file": no message that was saved is
\* lost, but for one that was done.
SavedSurvives ==
    [][Start /\ file # NoMsg /\ file.state \notin {"NO_STATE", "DELETE_ME_STATE"}
       => sm' # NoMsg]_msgVars

\* A bounce quotes the text of the message that could not be sent, unless it went to a place
\* that takes another type: get_text goes by the type and the TPDU the message had before
\* it was packed.
BounceQuotesText ==
    /\ Readable(orig)
    /\ \A a \in asked : a.host # "cell" => orig.text.type = config.type
    => bounced \in {NoForm, Text}

================================================================================
